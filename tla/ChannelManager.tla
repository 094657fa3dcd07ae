--------------------------- MODULE ChannelManager ---------------------------
(***************************************************************************)
(* Channels coming and going (irc/channelmanager.go, the membership part   *)
(* of irc/channel.go, and the channel list of irc/client.go).              *)
(*                                                                         *)
(* A goroutine that handles JOIN finds or creates the channel under the    *)
(* manager's lock, counts itself in pendingJoins, and then, without that   *)
(* lock, adds the channel to the client and the client to the channel;     *)
(* PART, KICK and the destruction of a client undo this in three locked    *)
(* steps; a channel that is empty, unregistered and expected by nobody is  *)
(* deleted.  Meanwhile channels are registered, unregistered, renamed,     *)
(* purged and unpurged.                                                    *)
(*                                                                         *)
(* One action is one critical section (of the manager's lock, a channel's  *)
(* stateMutex or a client's stateMutex).  Any goroutine may work for any   *)
(* client: a client has several sessions, and SAJOIN, KICK and KILL act on *)
(* the client of someone else.                                             *)
(***************************************************************************)
EXTENDS Integers, FiniteSets

CONSTANTS
    Goroutines,       \* goroutines that handle commands
    Clients,
    Names,            \* casefolded channel names
    Skeletons,
    Skeleton,         \* Names -> Skeletons, external: confusables folding
    Accounts,
    NoOne,            \* no channel, client or account
    MaxChannels,      \* bound: channel objects created in one behaviour
    Registrable,      \* bound: the channel objects that may be registered
    RenameRegistered  \* may registered channels be renamed? (not when their
                      \* history is persistent)

ASSUME ChannelManagerAssumption ==
    /\ IsFiniteSet(Goroutines)
    /\ Skeleton \in [Names -> Skeletons]
    /\ MaxChannels \in Nat
    /\ Registrable \subseteq 1 .. MaxChannels
    /\ NoOne \notin Accounts \cup Goroutines \cup Clients \cup Names
    /\ RenameRegistered \in BOOLEAN

Channels == 1 .. MaxChannels    \* the channel objects, in order of creation

VARIABLES
    \* ChannelManager
    chans,          \* name -> channel object, or 0
    chansSkeletons,
    purgedChannels,
    \* channelManagerEntry, by its channel
    pendingJoins, skeleton,
    \* Channel
    created,        \* how many channel objects exist
    name, members, membersCache, founder,
    joinPartMutex,  \* the goroutine that holds it
    writing,        \* its database writes: one may hold writebackLock
                    \* ("locked"), others have released it ("unlocked")
    \* Client
    channels, destroyed,
    \* goroutines
    pc, on, who,    \* where it is, the channel and the client it works on
    copy,           \* regenerateMembersCache's local copy of members
    channelEmpty,   \* Quit's local flag
    todo,           \* channels destroy has yet to leave, or clients that Purge
                    \* has yet to tell
    \* ghost
    wasPurged       \* the channel objects Channel.Purge has emptied

manager == <<chans, chansSkeletons, purgedChannels, pendingJoins, skeleton>>
chan == <<created, name, members, membersCache, founder, joinPartMutex,
          writing>>
client == <<channels, destroyed>>
locals == <<copy, channelEmpty, todo>>
goroutine == <<pc, on, who, locals>>
vars == <<manager, chan, client, goroutine, wasPurged>>

Goto(g, l) == pc' = [pc EXCEPT ![g] = l]

Init ==
    /\ chans = [n \in Names |-> 0]
    /\ chansSkeletons = {}
    /\ purgedChannels = {}
    /\ pendingJoins = [ch \in Channels |-> 0]
    /\ skeleton = [ch \in Channels |-> NoOne]
    /\ created = 0
    /\ name = [ch \in Channels |-> NoOne]
    /\ members = [ch \in Channels |-> {}]
    /\ membersCache = [ch \in Channels |-> {}]
    /\ founder = [ch \in Channels |-> NoOne]
    /\ joinPartMutex = [ch \in Channels |-> NoOne]
    /\ writing = [ch \in Channels |-> {}]
    /\ channels = [c \in Clients |-> {}]
    /\ destroyed = [c \in Clients |-> FALSE]
    /\ pc = [g \in Goroutines |-> "idle"]
    /\ on = [g \in Goroutines |-> 0]
    /\ who = [g \in Goroutines |-> NoOne]
    /\ copy = [g \in Goroutines |-> {}]
    /\ channelEmpty = [g \in Goroutines |-> FALSE]
    /\ todo = [g \in Goroutines |-> {}]
    /\ wasPurged = {}

-----------------------------------------------------------------------------
(***************************************************************************)
(* Deleting channels.                                                      *)
(***************************************************************************)

(* IsClean: nobody writes it to the database, it is empty, unregistered.   *)
IsClean(ch, registrant) ==
    "locked" \notin writing[ch] /\ members[ch] = {} /\ registrant = NoOne

(* What if: an empty channel is deleted although somebody is joining it.   *)
maybeCleanupIgnoringJoins(ch, pending, registrant) ==
    /\ pendingJoins' = [pendingJoins EXCEPT ![ch] = pending]
    /\ IF IsClean(ch, registrant)
       THEN /\ chans' = [chans EXCEPT ![name[ch]] = 0]
            /\ chansSkeletons' = chansSkeletons \ {skeleton[ch]}
       ELSE UNCHANGED <<chans, chansSkeletons>>
    /\ UNCHANGED <<purgedChannels, skeleton>>

(* maybeCleanupInternal, for a channel whose founder is registrant.        *)
maybeCleanupInternal(ch, pending, registrant) ==
    /\ pendingJoins' = [pendingJoins EXCEPT ![ch] = pending]
    /\ IF pending = 0 /\ IsClean(ch, registrant)
       THEN /\ chans' = [chans EXCEPT ![name[ch]] = 0]
            /\ chansSkeletons' = chansSkeletons \ {skeleton[ch]}
       ELSE UNCHANGED <<chans, chansSkeletons>>
    /\ UNCHANGED <<purgedChannels, skeleton>>

(* What if: every cleanup counts as the end of a join.                     *)
maybeCleanupAlwaysCounting(ch, afterJoin) ==
    IF chans[name[ch]] = ch
    THEN maybeCleanupInternal(ch, pendingJoins[ch] - 1, founder[ch])
    ELSE UNCHANGED manager

(* maybeCleanup: only when the manager still has this channel object.      *)
maybeCleanup(ch, afterJoin) ==
    IF chans[name[ch]] = ch
    THEN maybeCleanupInternal(ch,
            IF afterJoin THEN pendingJoins[ch] - 1 ELSE pendingJoins[ch],
            founder[ch])
    ELSE UNCHANGED manager

-----------------------------------------------------------------------------
(***************************************************************************)
(* JOIN and SAJOIN.                                                        *)
(***************************************************************************)

(* ChannelManager.Join, under the manager's lock, of an existing channel.  *)
JoinExisting(g, c, n) ==
    /\ pc[g] = "idle"
    /\ n \notin purgedChannels
    /\ chans[n] # 0
    /\ pendingJoins' = [pendingJoins EXCEPT ![chans[n]] = @ + 1]
    /\ on' = [on EXCEPT ![g] = chans[n]]
    /\ who' = [who EXCEPT ![g] = c]
    /\ Goto(g, "join")
    /\ UNCHANGED <<chans, chansSkeletons, purgedChannels, skeleton, chan,
                   client, locals, wasPurged>>

(* What if: the new channel's name may be confusable with another.         *)
JoinNewUnchecked(g, c, n) ==
    LET ch == created + 1 IN
    /\ pc[g] = "idle"
    /\ n \notin purgedChannels
    /\ chans[n] = 0
    /\ created < MaxChannels
    /\ created' = ch
    /\ name' = [name EXCEPT ![ch] = n]
    /\ skeleton' = [skeleton EXCEPT ![ch] = Skeleton[n]]
    /\ chansSkeletons' = chansSkeletons \cup {Skeleton[n]}
    /\ chans' = [chans EXCEPT ![n] = ch]
    /\ pendingJoins' = [pendingJoins EXCEPT ![ch] = 1]
    /\ on' = [on EXCEPT ![g] = ch]
    /\ who' = [who EXCEPT ![g] = c]
    /\ Goto(g, "join")
    /\ UNCHANGED <<purgedChannels, members, membersCache, founder,
                   joinPartMutex, writing, client, locals, wasPurged>>

(* ... of a channel that does not exist: it is created, unless its name is *)
(* confusable with that of another channel.                                *)
JoinNew(g, c, n) ==
    LET ch == created + 1 IN
    /\ pc[g] = "idle"
    /\ n \notin purgedChannels
    /\ chans[n] = 0
    /\ Skeleton[n] \notin chansSkeletons
    /\ created < MaxChannels
    /\ created' = ch
    /\ name' = [name EXCEPT ![ch] = n]
    /\ skeleton' = [skeleton EXCEPT ![ch] = Skeleton[n]]
    /\ chansSkeletons' = chansSkeletons \cup {Skeleton[n]}
    /\ chans' = [chans EXCEPT ![n] = ch]
    /\ pendingJoins' = [pendingJoins EXCEPT ![ch] = 1]
    /\ on' = [on EXCEPT ![g] = ch]
    /\ who' = [who EXCEPT ![g] = c]
    /\ Goto(g, "join")
    /\ UNCHANGED <<purgedChannels, members, membersCache, founder,
                   joinPartMutex, writing, client, locals, wasPurged>>

(* Channel.Join reads the channel: the client is in it already, is refused *)
(* (limit, key, ban, invite-only, registered-only), or may go on.  The one *)
(* who creates a channel is not refused here, but may be in addChannel.    *)
JoinCheck(g) ==
    /\ pc[g] = "join"
    /\ \/ Goto(g, "joined")
       \/ who[g] \notin members[on[g]] /\ Goto(g, "addChannel")
    /\ UNCHANGED <<manager, chan, client, on, who, locals, wasPurged>>

(* Client.addChannel refuses a destroyed client, or one with too many      *)
(* channels.                                                               *)
AddChannel(g) ==
    /\ pc[g] = "addChannel"
    /\ \/ /\ ~destroyed[who[g]]
          /\ channels' = [channels EXCEPT ![who[g]] = @ \cup {on[g]}]
          /\ Goto(g, "addMember")
       \/ /\ Goto(g, "joined")
          /\ UNCHANGED channels
    /\ UNCHANGED <<manager, chan, destroyed, on, who, locals, wasPurged>>

(* What if: joins do not exclude each other while they update the cache.   *)
AddMemberUnlocked(g) ==
    /\ pc[g] = "addMember"
    /\ members' = [members EXCEPT ![on[g]] = @ \cup {who[g]}]
    /\ Goto(g, "joinCopy")
    /\ UNCHANGED <<manager, created, name, membersCache, founder,
                   joinPartMutex, writing, client, on, who, locals, wasPurged>>

(* members.Add, under joinPartMutex.                                       *)
AddMember(g) ==
    /\ pc[g] = "addMember"
    /\ joinPartMutex[on[g]] = NoOne
    /\ joinPartMutex' = [joinPartMutex EXCEPT ![on[g]] = g]
    /\ members' = [members EXCEPT ![on[g]] = @ \cup {who[g]}]
    /\ Goto(g, "joinCopy")
    /\ UNCHANGED <<manager, created, name, membersCache, founder, writing,
                   client, on, who, locals, wasPurged>>

(* The end of ChannelManager.Join.                                         *)
JoinDone(g) ==
    /\ pc[g] = "joined"
    /\ maybeCleanup(on[g], TRUE)
    /\ Goto(g, "idle")
    /\ on' = [on EXCEPT ![g] = 0]
    /\ who' = [who EXCEPT ![g] = NoOne]
    /\ UNCHANGED <<chan, client, locals, wasPurged>>

-----------------------------------------------------------------------------
(***************************************************************************)
(* regenerateMembersCache: copy the members under a read lock, then store  *)
(* the copy under the write lock; joinPartMutex is held all the time.      *)
(***************************************************************************)
CopyMembers(g) ==
    /\ pc[g] \in {"joinCopy", "quitCopy"}
    /\ copy' = [copy EXCEPT ![g] = members[on[g]]]
    /\ Goto(g, IF pc[g] = "joinCopy" THEN "joinStore" ELSE "quitStore")
    /\ UNCHANGED <<manager, chan, client, on, who, channelEmpty, todo,
                   wasPurged>>

StoreCache(g) ==
    /\ pc[g] \in {"joinStore", "quitStore"}
    /\ membersCache' = [membersCache EXCEPT ![on[g]] = copy[g]]
    /\ joinPartMutex' = [joinPartMutex EXCEPT ![on[g]] = NoOne]
    /\ copy' = [copy EXCEPT ![g] = {}]
    /\ Goto(g, IF pc[g] = "joinStore" THEN "joined"
               ELSE IF channelEmpty[g] THEN "cleanup" ELSE "removeChannel")
    /\ UNCHANGED <<manager, created, name, members, founder, writing,
                   client, on, who, channelEmpty, todo, wasPurged>>

-----------------------------------------------------------------------------
(***************************************************************************)
(* Channel.Quit, for PART, KICK and the destruction of a client.           *)
(***************************************************************************)

(* PART or KICK: the client was seen in the channel.                       *)
PartOrKick(g, c, n) ==
    /\ pc[g] = "idle"
    /\ chans[n] # 0
    /\ c \in members[chans[n]]
    /\ on' = [on EXCEPT ![g] = chans[n]]
    /\ who' = [who EXCEPT ![g] = c]
    /\ Goto(g, "quit")
    /\ UNCHANGED <<manager, chan, client, locals, wasPurged>>

(* Client.destroy: no more joins ...                                       *)
Destroy(g, c) ==
    /\ pc[g] = "idle"
    /\ ~destroyed[c]
    /\ destroyed' = [destroyed EXCEPT ![c] = TRUE]
    /\ who' = [who EXCEPT ![g] = c]
    /\ Goto(g, "destroy")
    /\ UNCHANGED <<manager, chan, channels, on, locals, wasPurged>>

(* ... then leave every channel of its list.                               *)
ListChannels(g) ==
    /\ pc[g] = "destroy"
    /\ todo' = [todo EXCEPT ![g] = channels[who[g]]]
    /\ IF channels[who[g]] = {}
       THEN Goto(g, "idle") /\ who' = [who EXCEPT ![g] = NoOne]
       ELSE Goto(g, "leaveAll") /\ UNCHANGED who
    /\ UNCHANGED <<manager, chan, client, on, copy, channelEmpty, wasPurged>>

LeaveNext(g) ==
    /\ pc[g] = "leaveAll"
    /\ \E ch \in todo[g] :
          /\ on' = [on EXCEPT ![g] = ch]
          /\ todo' = [todo EXCEPT ![g] = @ \ {ch}]
    /\ Goto(g, "quit")
    /\ UNCHANGED <<manager, chan, client, who, copy, channelEmpty, wasPurged>>

(* members.Remove, under joinPartMutex.                                    *)
RemoveMember(g) ==
    /\ pc[g] = "quit"
    /\ joinPartMutex[on[g]] = NoOne
    /\ joinPartMutex' = [joinPartMutex EXCEPT ![on[g]] = g]
    /\ members' = [members EXCEPT ![on[g]] = @ \ {who[g]}]
    /\ channelEmpty' = [channelEmpty EXCEPT ![g] =
                           members[on[g]] \subseteq {who[g]}]
    /\ Goto(g, "quitCopy")
    /\ UNCHANGED <<manager, created, name, membersCache, founder, writing,
                   client, on, who, copy, todo, wasPurged>>

(* Cleanup of a channel that Quit emptied.                                 *)
Cleanup(g) ==
    /\ pc[g] = "cleanup"
    /\ maybeCleanup(on[g], FALSE)
    /\ Goto(g, "removeChannel")
    /\ UNCHANGED <<chan, client, on, who, locals, wasPurged>>

(* What if: the channel stays in the client's list.                        *)
RemoveChannelForgotten(g) ==
    /\ pc[g] = "removeChannel"
    /\ channelEmpty' = [channelEmpty EXCEPT ![g] = FALSE]
    /\ on' = [on EXCEPT ![g] = 0]
    /\ IF todo[g] # {}
       THEN Goto(g, "leaveAll") /\ UNCHANGED who
       ELSE Goto(g, "idle") /\ who' = [who EXCEPT ![g] = NoOne]
    /\ UNCHANGED <<manager, chan, client, copy, todo, wasPurged>>

(* Client.removeChannel; then destroy goes on to its next channel.         *)
RemoveChannel(g) ==
    /\ pc[g] = "removeChannel"
    /\ channels' = [channels EXCEPT ![who[g]] = @ \ {on[g]}]
    /\ channelEmpty' = [channelEmpty EXCEPT ![g] = FALSE]
    /\ on' = [on EXCEPT ![g] = 0]
    /\ IF todo[g] # {}
       THEN Goto(g, "leaveAll") /\ UNCHANGED who
       ELSE Goto(g, "idle") /\ who' = [who EXCEPT ![g] = NoOne]
    /\ UNCHANGED <<manager, chan, destroyed, copy, todo, wasPurged>>

-----------------------------------------------------------------------------
(***************************************************************************)
(* Purging.                                                                *)
(***************************************************************************)

(* ChannelManager.Purge marks the name under the manager's lock ...        *)
PurgeMark(g, n) ==
    /\ pc[g] = "idle"
    /\ n \notin purgedChannels
    /\ purgedChannels' = purgedChannels \cup {n}
    /\ IF chans[n] = 0
       THEN UNCHANGED <<pc, on>>
       ELSE Goto(g, "purge") /\ on' = [on EXCEPT ![g] = chans[n]]
    /\ UNCHANGED <<chans, chansSkeletons, pendingJoins, skeleton, chan, client,
                   who, locals, wasPurged>>

(* ... then Channel.Purge empties the channel; it tells the clients of the *)
(* cache, and does not take joinPartMutex.                                 *)
PurgeChannel(g) ==
    /\ pc[g] = "purge"
    /\ todo' = [todo EXCEPT ![g] = membersCache[on[g]]]
    /\ membersCache' = [membersCache EXCEPT ![on[g]] = {}]
    /\ members' = [members EXCEPT ![on[g]] = {}]
    /\ wasPurged' = wasPurged \cup {on[g]}
    /\ Goto(g, "purgeTell")
    /\ UNCHANGED <<manager, created, name, founder, joinPartMutex, writing,
                   client, on, who, copy, channelEmpty>>

PurgeTell(g) ==
    /\ pc[g] = "purgeTell"
    /\ \/ \E c \in todo[g] :
            /\ channels' = [channels EXCEPT ![c] = @ \ {on[g]}]
            /\ todo' = [todo EXCEPT ![g] = @ \ {c}]
            /\ UNCHANGED <<pc, on>>
       \/ /\ todo[g] = {}
          /\ on' = [on EXCEPT ![g] = 0]
          /\ Goto(g, "idle")
          /\ UNCHANGED <<channels, todo>>
    /\ UNCHANGED <<manager, chan, destroyed, who, copy, channelEmpty,
                   wasPurged>>

Unpurge(n) ==
    /\ n \in purgedChannels
    /\ purgedChannels' = purgedChannels \ {n}
    /\ UNCHANGED <<chans, chansSkeletons, pendingJoins, skeleton, chan, client,
                   goroutine, wasPurged>>

-----------------------------------------------------------------------------
(***************************************************************************)
(* Registration and renames.                                               *)
(***************************************************************************)

(* ChannelManager.SetRegistered; the Store that follows is a write.        *)
SetRegistered(g, n, a) ==
    /\ pc[g] = "idle"
    /\ chans[n] \in Registrable
    /\ founder[chans[n]] = NoOne
    /\ founder' = [founder EXCEPT ![chans[n]] = a]
    /\ on' = [on EXCEPT ![g] = chans[n]]
    /\ Goto(g, "store")
    /\ UNCHANGED <<manager, created, name, members, membersCache,
                   joinPartMutex, writing, client, who, locals,
                   wasPurged>>

Store(g) ==
    /\ pc[g] = "store"
    /\ "locked" \notin writing[on[g]]
    /\ writing' = [writing EXCEPT ![on[g]] = @ \cup {"locked"}]
    /\ on' = [on EXCEPT ![g] = 0]
    /\ Goto(g, "idle")
    /\ UNCHANGED <<manager, created, name, members, membersCache, founder,
                   joinPartMutex, client, who, locals, wasPurged>>

(* What if: an empty channel is kept after its unregistration.             *)
SetUnregisteredNoCleanup(n, a) ==
    /\ chans[n] # 0
    /\ founder[chans[n]] = a
    /\ founder' = [founder EXCEPT ![chans[n]] = NoOne]
    /\ UNCHANGED <<manager, created, name, members, membersCache,
                   joinPartMutex, writing, client, goroutine, wasPurged>>

(* ChannelManager.SetUnregistered, which may delete the channel.           *)
SetUnregistered(n, a) ==
    /\ chans[n] # 0
    /\ founder[chans[n]] = a
    /\ founder' = [founder EXCEPT ![chans[n]] = NoOne]
    /\ maybeCleanupInternal(chans[n], pendingJoins[chans[n]], NoOne)
    /\ UNCHANGED <<created, name, members, membersCache, joinPartMutex, writing,
                   client, goroutine, wasPurged>>

(* What if: the old name's skeleton stays taken.                           *)
RenameKeepingSkeleton(n, m) ==
    LET ch == chans[n] IN
    /\ ch # 0
    /\ n # m
    /\ chans[m] = 0
    /\ Skeleton[m] = Skeleton[n] \/ Skeleton[m] \notin chansSkeletons
    /\ founder[ch] # NoOne => RenameRegistered
    /\ chans' = [chans EXCEPT ![n] = 0, ![m] = ch]
    /\ skeleton' = IF founder[ch] = NoOne
                   THEN [skeleton EXCEPT ![ch] = Skeleton[m]] ELSE skeleton
    /\ chansSkeletons' = chansSkeletons \cup {Skeleton[m]}
    /\ name' = [name EXCEPT ![ch] = m]
    /\ UNCHANGED <<purgedChannels, pendingJoins, created, members,
                   membersCache, founder, joinPartMutex, writing, client,
                   goroutine, wasPurged>>

(* ChannelManager.Rename: a registered channel's entry keeps its skeleton. *)
Rename(n, m) ==
    LET ch == chans[n] IN
    /\ ch # 0
    /\ n # m
    /\ chans[m] = 0
    /\ Skeleton[m] = Skeleton[n] \/ Skeleton[m] \notin chansSkeletons
    /\ founder[ch] # NoOne => RenameRegistered
    /\ chans' = [chans EXCEPT ![n] = 0, ![m] = ch]
    /\ skeleton' = IF founder[ch] = NoOne
                   THEN [skeleton EXCEPT ![ch] = Skeleton[m]] ELSE skeleton
    /\ chansSkeletons' = (chansSkeletons \ {Skeleton[n]}) \cup {Skeleton[m]}
    /\ name' = [name EXCEPT ![ch] = m]
    /\ UNCHANGED <<purgedChannels, pendingJoins, created, members, membersCache,
                   founder, joinPartMutex, writing, client, goroutine,
                   wasPurged>>

-----------------------------------------------------------------------------
(***************************************************************************)
(* The write-back of registered channels, as far as deletion sees it: a    *)
(* write holds writebackLock; after releasing it, it deletes the channel   *)
(* if that is empty.  ChannelStore has the details.                        *)
(***************************************************************************)
(* A change of a registered channel (a topic, a mode, a rename...), marked *)
(* by MarkDirty; wakeWriter follows, when the founder may be another.      *)
MarkDirty(g, ch) ==
    /\ pc[g] = "idle"
    /\ founder[ch] # NoOne
    /\ on' = [on EXCEPT ![g] = ch]
    /\ Goto(g, "wake")
    /\ UNCHANGED <<manager, chan, client, who, locals, wasPurged>>

(* wakeWriter: a writer has the lock already, or a new one gets it.        *)
wakeWriter(g) ==
    /\ pc[g] = "wake"
    /\ writing' = [writing EXCEPT ![on[g]] = @ \cup {"locked"}]
    /\ on' = [on EXCEPT ![g] = 0]
    /\ Goto(g, "idle")
    /\ UNCHANGED <<manager, created, name, members, membersCache, founder,
                   joinPartMutex, client, who, locals, wasPurged>>

(* performWrite is done; the lock is released.                             *)
WriteEnd(ch) ==
    /\ "locked" \in writing[ch]
    /\ writing' = [writing EXCEPT ![ch] = {"unlocked"}]
    /\ UNCHANGED <<manager, created, name, members, membersCache, founder,
                   joinPartMutex, client, goroutine, wasPurged>>

(* The channel is dirty again: the writer writes again, or leaves it to    *)
(* the holder of the lock.                                                 *)
WriteAgain(ch) ==
    /\ "unlocked" \in writing[ch]
    /\ writing' = [writing EXCEPT ![ch] = {"locked"}]
    /\ UNCHANGED <<manager, created, name, members, membersCache, founder,
                   joinPartMutex, client, goroutine, wasPurged>>

(* The channel is not dirty: delete it if it is empty.                     *)
WriteCleanup(ch) ==
    /\ "unlocked" \in writing[ch]
    /\ writing' = [writing EXCEPT ![ch] = @ \ {"unlocked"}]
    /\ IF members[ch] = {} THEN maybeCleanup(ch, FALSE) ELSE UNCHANGED manager
    /\ UNCHANGED <<created, name, members, membersCache, founder,
                   joinPartMutex, client, goroutine, wasPurged>>

-----------------------------------------------------------------------------
Command(g) ==
    \/ \E c \in Clients, n \in Names :
          JoinExisting(g, c, n) \/ JoinNew(g, c, n) \/ PartOrKick(g, c, n)
    \/ \E c \in Clients : Destroy(g, c)
    \/ \E n \in Names : PurgeMark(g, n)
    \/ \E n \in Names, a \in Accounts : SetRegistered(g, n, a)
    \/ \E ch \in Channels : MarkDirty(g, ch)

Step(g) ==
    \/ JoinCheck(g) \/ AddChannel(g) \/ AddMember(g) \/ JoinDone(g)
    \/ CopyMembers(g) \/ StoreCache(g)
    \/ ListChannels(g) \/ LeaveNext(g)
    \/ RemoveMember(g) \/ Cleanup(g) \/ RemoveChannel(g)
    \/ PurgeChannel(g) \/ PurgeTell(g)
    \/ Store(g) \/ wakeWriter(g)

Next ==
    \/ \E g \in Goroutines : Command(g) \/ Step(g)
    \/ \E n \in Names : Unpurge(n)
    \/ \E n \in Names, a \in Accounts : SetUnregistered(n, a)
    \/ \E n, m \in Names : Rename(n, m)
    \/ \E ch \in Channels :
          WriteEnd(ch) \/ WriteAgain(ch) \/ WriteCleanup(ch)

Spec == Init /\ [][Next]_vars

-----------------------------------------------------------------------------
(***************************************************************************)
(* Properties.                                                             *)
(***************************************************************************)
Joining ==
    {"join", "addChannel", "addMember", "joinCopy", "joinStore", "joined"}
Quitting == {"quit", "quitCopy", "quitStore", "cleanup", "removeChannel"}
Purging == {"purge", "purgeTell"}
Locations ==
    Joining \cup Quitting \cup Purging
        \cup {"idle", "destroy", "leaveAll", "store", "wake"}

(* The variables of the manager, its channels and its clients have their   *)
(* types; in particular no path makes pendingJoins negative.               *)
TypeOK ==
    /\ chans \in [Names -> 0 .. MaxChannels]
    /\ chansSkeletons \subseteq Skeletons
    /\ purgedChannels \subseteq Names
    /\ pendingJoins \in [Channels -> Nat]
    /\ skeleton \in [Channels -> Skeletons \cup {NoOne}]
    /\ created \in 0 .. MaxChannels
    /\ name \in [Channels -> Names \cup {NoOne}]
    /\ members \in [Channels -> SUBSET Clients]
    /\ membersCache \in [Channels -> SUBSET Clients]
    /\ founder \in [Channels -> Accounts \cup {NoOne}]
    /\ joinPartMutex \in [Channels -> Goroutines \cup {NoOne}]
    /\ writing \in [Channels -> SUBSET {"locked", "unlocked"}]
    /\ channels \in [Clients -> SUBSET Channels]
    /\ destroyed \in [Clients -> BOOLEAN]
    /\ pc \in [Goroutines -> Locations]
    /\ on \in [Goroutines -> 0 .. MaxChannels]
    /\ who \in [Goroutines -> Clients \cup {NoOne}]
    /\ copy \in [Goroutines -> SUBSET Clients]
    /\ channelEmpty \in [Goroutines -> BOOLEAN]
    /\ todo \in [Goroutines -> SUBSET (Channels \cup Clients)]
    /\ wasPurged \subseteq Channels

Listed(ch) == name[ch] # NoOne /\ chans[name[ch]] = ch

(* A channel that has members, or that somebody is joining, is the one the *)
(* manager finds under its name: pendingJoins protects it from deletion    *)
(* through every rename, unregistration and concurrent part.               *)
OccupiedIsListed ==
    \A ch \in Channels :
        \/ members[ch] # {}
        \/ \E g \in Goroutines : on[g] = ch /\ pc[g] \in Joining
        => Listed(ch)

(* A channel is deleted by whoever is the last to see it used: once no     *)
(* goroutine and no write is at work on it, an empty, unregistered channel *)
(* is gone ("#1619", and the writer's own cleanup); Purge alone leaves it. *)
NoLeakedChannel ==
    \A ch \in 1 .. created :
        /\ \A g \in Goroutines : on[g] # ch
        /\ writing[ch] = {}
        /\ members[ch] = {} /\ founder[ch] = NoOne
        /\ ch \notin wasPurged
        => ~Listed(ch)

(* "enforce confusables": two channels never have confusable names.        *)
ConfusablesEnforced ==
    \A n, m \in Names :
        n # m /\ chans[n] # 0 /\ chans[m] # 0 => Skeleton[n] # Skeleton[m]

(* The set of taken skeletons is neither missing one nor stuck with one    *)
(* whose channel is gone (its name could not be used again).               *)
SkeletonsExact ==
    chansSkeletons = {Skeleton[n] : n \in {m \in Names : chans[m] # 0}}

Busy(ch) == \E g \in Goroutines : on[g] = ch

(* A client's channel list holds only channels it is in, when nobody is    *)
(* changing the channel; the order of addChannel and members.Add in Join,  *)
(* and of members.Remove and removeChannel in Quit, is what keeps this.    *)
ListedChannelHasMember ==
    \A c \in Clients : \A ch \in channels[c] :
        ~Busy(ch) /\ ch \notin wasPurged => c \in members[ch]

(* "destroy gets rid of a client, removes them from server lists etc.":    *)
(* when everybody is done, a destroyed client is in no channel.  A join    *)
(* that passed addChannel before the destruction breaks this.              *)
DestroyedIsGone ==
    (\A g \in Goroutines : pc[g] = "idle") =>
        \A c \in Clients :
            destroyed[c] => \A ch \in Channels : c \notin members[ch]

(* The cached member list, which every broadcast uses, is the member set   *)
(* whenever no join or part of the channel is in progress.                 *)
CacheIsFresh ==
    \A ch \in Channels \ wasPurged :
        joinPartMutex[ch] = NoOne => membersCache[ch] = members[ch]

(***************************************************************************)
(* The inductive invariant behind OccupiedIsListed, CacheIsFresh and       *)
(* NoLeakedChannel.                                                        *)
(***************************************************************************)

(* The manager's entries are channels under their own names, and a         *)
(* goroutine works on a channel and a client that exist.                   *)
PlaceInv ==
    /\ \A n \in Names :
          chans[n] # 0 => chans[n] \in 1 .. created /\ name[chans[n]] = n
    /\ \A ch \in 1 .. created : name[ch] \in Names
    /\ \A c \in Clients : channels[c] \subseteq 1 .. created
    /\ \A g \in Goroutines :
          /\ on[g] = 0 <=> pc[g] \in {"idle", "destroy", "leaveAll"}
          /\ on[g] <= created
          /\ pc[g] \in Joining \cup Quitting \cup {"destroy", "leaveAll"}
                => who[g] \in Clients
          /\ IF pc[g] = "purgeTell" THEN todo[g] \subseteq Clients
             ELSE todo[g] \subseteq 1 .. created

(* A channel object that does not exist yet is as Init left it.            *)
FreshInv ==
    \A ch \in Channels :
        ch > created =>
            /\ members[ch] = {} /\ membersCache[ch] = {}
            /\ founder[ch] = NoOne /\ joinPartMutex[ch] = NoOne
            /\ writing[ch] = {}

Joiners(ch) == {g \in Goroutines : on[g] = ch /\ pc[g] \in Joining}

(* pendingJoins counts the goroutines that are joining the channel.        *)
CountInv == \A ch \in Channels : pendingJoins[ch] = Cardinality(Joiners(ch))

(* joinPartMutex covers the regeneration of the cache, and the copy that   *)
(* is about to be stored is up to date.                                    *)
CacheInv ==
    \A g \in Goroutines :
        /\ pc[g] \in {"joinCopy", "joinStore", "quitCopy", "quitStore"} =>
              joinPartMutex[on[g]] = g
        /\ pc[g] \in {"joinStore", "quitStore"} /\ on[g] \notin wasPurged =>
              copy[g] = members[on[g]]

(* Will this goroutine still try to delete the channel, or have it         *)
(* written (after which the writer tries)?                                 *)
Cleaning(g, ch) ==
    /\ on[g] = ch
    /\ \/ pc[g] \in Joining \cup {"cleanup", "store", "wake"}
       \/ pc[g] \in {"quitCopy", "quitStore"} /\ channelEmpty[g]

Unneeded(ch) ==
    /\ Listed(ch) /\ ch \notin wasPurged
    /\ members[ch] = {} /\ founder[ch] = NoOne

(* A listed channel that is not needed has such a goroutine, or a writer.  *)
CleanupInv ==
    \A ch \in 1 .. created :
        Unneeded(ch) =>
            writing[ch] # {} \/ \E g \in Goroutines : Cleaning(g, ch)

(* All of it together.                                                     *)
ManagerInv ==
    /\ PlaceInv /\ FreshInv /\ CountInv /\ CacheInv /\ CleanupInv
    /\ OccupiedIsListed /\ CacheIsFresh
=============================================================================
