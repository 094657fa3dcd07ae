------------------------ MODULE ChannelManagerProofs ------------------------
(***************************************************************************)
(* Proofs about ChannelManager, for every number of goroutines, clients,   *)
(* names and channels: a channel in use is listed, the member cache is     *)
(* fresh, and a channel nobody needs is deleted.                           *)
(***************************************************************************)
EXTENDS ChannelManager, FiniteSetTheorems, TLAPS

(* Init satisfies the invariant.                                           *)
LEMMA InitInv == Init => TypeOK /\ ManagerInv
<1> SUFFICES ASSUME Init PROVE TypeOK /\ ManagerInv
  OBVIOUS
<1> USE ChannelManagerAssumption
<1>1. TypeOK
  BY DEF Init, TypeOK, Channels, Locations
<1>2. PlaceInv /\ FreshInv
  BY DEF Init, PlaceInv, FreshInv, Channels, Joining, Quitting
<1>3. \A ch \in Channels : Joiners(ch) = {}
  BY DEF Init, Joiners, Channels
<1>4. CountInv
  BY <1>3, FS_EmptySet DEF Init, CountInv
<1>5. CacheInv /\ CacheIsFresh
  BY DEF Init, CacheInv, CacheIsFresh, Channels
<1>6. OccupiedIsListed /\ CleanupInv
  BY DEF Init, OccupiedIsListed, CleanupInv, Channels, Joining
<1> QED BY <1>1, <1>2, <1>4, <1>5, <1>6 DEF ManagerInv

(* A goroutine that is joining a channel is counted there.                 *)
LEMMA JoinerCounted ==
    ASSUME TypeOK, CountInv, NEW ch \in Channels
    PROVE  /\ IsFiniteSet(Joiners(ch))
           /\ pendingJoins[ch] = 0 <=> Joiners(ch) = {}
<1>1. IsFiniteSet(Joiners(ch))
  BY ChannelManagerAssumption, FS_Subset DEF Joiners
<1>2. pendingJoins[ch] = Cardinality(Joiners(ch))
  BY DEF CountInv
<1> QED BY <1>1, <1>2, FS_EmptySet

(* What the places say of the types.                                       *)
LEMMA Places ==
    ASSUME TypeOK, PlaceInv
    PROVE  /\ \A n \in Names : chans[n] # 0 => chans[n] \in Channels
           /\ \A g \in Goroutines :
                 /\ pc[g] \notin {"idle", "destroy", "leaveAll"} =>
                       /\ on[g] \in 1 .. created /\ on[g] \in Channels
                       /\ name[on[g]] \in Names
                 /\ pc[g] \in Joining \cup Quitting \cup {"destroy", "leaveAll"}
                       => who[g] \in Clients
                 /\ pc[g] = "purgeTell" => todo[g] \subseteq Clients
                 /\ pc[g] # "purgeTell" => todo[g] \subseteq Channels
<1> USE ChannelManagerAssumption
<1>1. 1 .. created \subseteq Channels /\ created \in Nat
  BY DEF TypeOK, Channels
<1>2. \A g \in Goroutines : on[g] # 0 => on[g] \in 1 .. created
  BY <1>1 DEF TypeOK, PlaceInv
<1>3. \A g \in Goroutines :
        pc[g] \notin {"idle", "destroy", "leaveAll"} =>
            /\ on[g] \in 1 .. created /\ on[g] \in Channels
            /\ name[on[g]] \in Names
  BY <1>1, <1>2 DEF PlaceInv
<1>4. \A g \in Goroutines :
        /\ pc[g] = "purgeTell" => todo[g] \subseteq Clients
        /\ pc[g] # "purgeTell" => todo[g] \subseteq Channels
  BY <1>1 DEF PlaceInv
<1> QED BY <1>1, <1>3, <1>4 DEF PlaceInv

(* Every step keeps the types.                                             *)
LEMMA NextType ==
    TypeOK /\ PlaceInv /\ CountInv /\ [Next]_vars
        => TypeOK'
<1> SUFFICES ASSUME TypeOK, PlaceInv, CountInv, [Next]_vars
             PROVE  TypeOK'
  OBVIOUS
<1> USE ChannelManagerAssumption
<1>l. {"idle", "destroy", "leaveAll", "store", "wake", "join", "addChannel",
       "addMember", "joinCopy", "joinStore", "joined", "quit", "quitCopy",
       "quitStore", "cleanup", "removeChannel", "purge", "purgeTell"} \subseteq Locations
  BY DEF Locations, Joining, Quitting, Purging
<1>z. 0 \in 0 .. MaxChannels /\ Channels \subseteq 0 .. MaxChannels
  BY DEF Channels
<1>1. ASSUME NEW g \in Goroutines, NEW c \in Clients, NEW n \in Names,
             JoinExisting(g, c, n)
      PROVE  TypeOK'
  <2>1. chans[n] # 0 => chans[n] \in Channels
    BY Places
  <2> QED BY <1>1, <1>l, <1>z, <2>1 DEF JoinExisting, TypeOK, manager, chan,
        client, locals, goroutine, Goto
<1>2. ASSUME NEW g \in Goroutines, NEW c \in Clients, NEW n \in Names,
             JoinNew(g, c, n)
      PROVE  TypeOK'
  <2>1. created + 1 \in Channels
    BY <1>2 DEF JoinNew, TypeOK, Channels
  <2>2. created' \in 0 .. MaxChannels
    BY <1>2, <1>z, <2>1 DEF JoinNew
  <2> QED BY <1>2, <1>l, <1>z, <2>1, <2>2 DEF JoinNew, TypeOK, manager, chan,
        client, locals, goroutine, Goto
<1>3. ASSUME NEW g \in Goroutines, NEW c \in Clients, NEW n \in Names,
             PartOrKick(g, c, n)
      PROVE  TypeOK'
  <2>1. chans[n] # 0 => chans[n] \in Channels
    BY Places
  <2> QED BY <1>3, <1>l, <1>z, <2>1 DEF PartOrKick, TypeOK, manager, chan,
        client, locals, goroutine, Goto
<1>4. ASSUME NEW g \in Goroutines, NEW c \in Clients, Destroy(g, c)
      PROVE  TypeOK'
  BY <1>4, <1>l, <1>z DEF Destroy, TypeOK, manager, chan, client, locals,
        goroutine, Goto
<1>5. ASSUME NEW g \in Goroutines, NEW n \in Names, PurgeMark(g, n)
      PROVE  TypeOK'
  <2>1. chans[n] # 0 => chans[n] \in Channels
    BY Places
  <2> QED BY <1>5, <1>l, <1>z, <2>1, SMTT(30) DEF PurgeMark, TypeOK, manager, chan,
        client, locals, goroutine, Goto
<1>6. ASSUME NEW g \in Goroutines, NEW n \in Names, NEW a \in Accounts,
             SetRegistered(g, n, a)
      PROVE  TypeOK'
  <2>1. chans[n] # 0 => chans[n] \in Channels
    BY Places
  <2> QED BY <1>6, <1>l, <1>z, <2>1 DEF SetRegistered, TypeOK, manager, chan,
        client, locals, goroutine, Goto
<1>7. ASSUME NEW g \in Goroutines, NEW ch \in Channels, MarkDirty(g, ch)
      PROVE  TypeOK'
  BY <1>7, <1>l, <1>z DEF MarkDirty, TypeOK, manager, chan, client, locals,
        goroutine, Goto
<1>8. ASSUME NEW g \in Goroutines, JoinCheck(g)
      PROVE  TypeOK'
  BY <1>8, <1>l, <1>z DEF JoinCheck, TypeOK, manager, chan, client, locals,
        goroutine, Goto
<1>9. ASSUME NEW g \in Goroutines, AddChannel(g)
      PROVE  TypeOK'
  <2>1. on[g] \in Channels /\ name[on[g]] \in Names /\ who[g] \in Clients
    BY <1>9, Places DEF AddChannel, Joining, Quitting
  <2> QED BY <1>9, <1>l, <1>z, <2>1 DEF AddChannel, TypeOK, manager, chan,
        client, locals, goroutine, Goto
<1>10. ASSUME NEW g \in Goroutines, AddMember(g)
      PROVE  TypeOK'
  <2>1. on[g] \in Channels /\ name[on[g]] \in Names /\ who[g] \in Clients
    BY <1>10, Places DEF AddMember, Joining, Quitting
  <2> QED BY <1>10, <1>l, <1>z, <2>1 DEF AddMember, TypeOK, manager, chan,
        client, locals, goroutine, Goto
<1>11. ASSUME NEW g \in Goroutines, JoinDone(g)
      PROVE  TypeOK'
  <2>1. on[g] \in Channels /\ name[on[g]] \in Names
    BY <1>11, Places DEF JoinDone
  <2>2. g \in Joiners(on[g])
    BY <1>11 DEF JoinDone, Joiners, Joining
  <2>3. pendingJoins[on[g]] \in Nat /\ pendingJoins[on[g]] # 0
    BY <2>1, <2>2, JoinerCounted DEF TypeOK
  <2>4. pendingJoins[on[g]] - 1 \in Nat
    BY <2>3
  <2> QED BY <1>11, <1>l, <1>z, <2>1, <2>4, SMTT(30) DEF JoinDone, maybeCleanup,
        maybeCleanupInternal, TypeOK, manager, chan, client, locals, goroutine,
        Goto
<1>12. ASSUME NEW g \in Goroutines, CopyMembers(g)
      PROVE  TypeOK'
  <2>1. on[g] \in Channels /\ name[on[g]] \in Names /\ who[g] \in Clients
    BY <1>12, Places DEF CopyMembers, Joining, Quitting
  <2> QED BY <1>12, <1>l, <1>z, <2>1 DEF CopyMembers, TypeOK, manager, chan,
        client, locals, goroutine, Goto
<1>13. ASSUME NEW g \in Goroutines, StoreCache(g)
      PROVE  TypeOK'
  <2>1. on[g] \in Channels /\ name[on[g]] \in Names /\ who[g] \in Clients
    BY <1>13, Places DEF StoreCache, Joining, Quitting
  <2> QED BY <1>13, <1>l, <1>z, <2>1 DEF StoreCache, TypeOK, manager, chan,
        client, locals, goroutine, Goto
<1>14. ASSUME NEW g \in Goroutines, ListChannels(g)
      PROVE  TypeOK'
  <2>1. who[g] \in Clients
    BY <1>14, Places DEF ListChannels
  <2> QED BY <1>14, <1>l, <1>z, <2>1 DEF ListChannels, TypeOK, manager, chan,
        client, locals, goroutine, Goto
<1>15. ASSUME NEW g \in Goroutines, LeaveNext(g)
      PROVE  TypeOK'
  <2>1. PICK ch \in todo[g] :
           /\ on' = [on EXCEPT ![g] = ch]
           /\ todo' = [todo EXCEPT ![g] = @ \ {ch}]
    BY <1>15 DEF LeaveNext
  <2>2. ch \in Channels
    BY <1>15, <2>1, Places DEF LeaveNext
  <2>3. /\ on' \in [Goroutines -> 0 .. MaxChannels]
        /\ todo' \in [Goroutines -> SUBSET (Channels \cup Clients)]
    BY <1>z, <2>1, <2>2 DEF TypeOK
  <2>4. pc' \in [Goroutines -> Locations]
    BY <1>15, <1>l DEF LeaveNext, Goto, TypeOK
  <2> QED BY <1>15, <2>3, <2>4 DEF LeaveNext, TypeOK, manager, chan, client
<1>16. ASSUME NEW g \in Goroutines, RemoveMember(g)
      PROVE  TypeOK'
  <2>1. on[g] \in Channels /\ name[on[g]] \in Names /\ who[g] \in Clients
    BY <1>16, Places DEF RemoveMember, Joining, Quitting
  <2> QED BY <1>16, <1>l, <1>z, <2>1 DEF RemoveMember, TypeOK, manager, chan,
        client, locals, goroutine, Goto
<1>17. ASSUME NEW g \in Goroutines, Cleanup(g)
      PROVE  TypeOK'
  <2>1. on[g] \in Channels /\ name[on[g]] \in Names /\ who[g] \in Clients
    BY <1>17, Places DEF Cleanup, Joining, Quitting
  <2> QED BY <1>17, <1>l, <1>z, <2>1 DEF Cleanup, maybeCleanup,
        maybeCleanupInternal, IsClean, TypeOK, manager, chan, client, locals,
        goroutine, Goto
<1>18. ASSUME NEW g \in Goroutines, RemoveChannel(g)
      PROVE  TypeOK'
  <2>1. who[g] \in Clients
    BY <1>18, Places DEF RemoveChannel, Quitting
  <2>2. channels' \in [Clients -> SUBSET Channels]
    BY <1>18, <2>1 DEF RemoveChannel, TypeOK
  <2>3. pc' \in [Goroutines -> Locations]
    BY <1>18, <1>l, SMTT(30) DEF RemoveChannel, Goto, TypeOK
  <2>4. who' \in [Goroutines -> Clients \cup {NoOne}]
    BY <1>18 DEF RemoveChannel, TypeOK
  <2>5. on' \in [Goroutines -> 0 .. MaxChannels]
    BY <1>18, <1>z DEF RemoveChannel, TypeOK
  <2>6. channelEmpty' \in [Goroutines -> BOOLEAN]
    BY <1>18 DEF RemoveChannel, TypeOK
  <2> QED BY <1>18, <2>2, <2>3, <2>4, <2>5, <2>6 DEF RemoveChannel, TypeOK,
        manager, chan
<1>19. ASSUME NEW g \in Goroutines, PurgeChannel(g)
      PROVE  TypeOK'
  <2>1. on[g] \in Channels
    BY <1>19, Places DEF PurgeChannel
  <2> QED BY <1>19, <1>l, <1>z, <2>1 DEF PurgeChannel, TypeOK, manager, chan,
        client, locals, goroutine, Goto
<1>20. ASSUME NEW g \in Goroutines, PurgeTell(g)
      PROVE  TypeOK'
  <2>1. todo[g] \subseteq Clients
    BY <1>20, Places DEF PurgeTell
  <2> QED BY <1>20, <1>l, <1>z, <2>1, SMTT(30) DEF PurgeTell, TypeOK, manager, chan,
        client, locals, goroutine, Goto
<1>21. ASSUME NEW g \in Goroutines, Store(g)
      PROVE  TypeOK'
  <2>1. on[g] \in Channels
    BY <1>21, Places DEF Store
  <2> QED BY <1>21, <1>l, <1>z, <2>1 DEF Store, TypeOK, manager, chan, client,
        locals, goroutine, Goto
<1>22. ASSUME NEW g \in Goroutines, wakeWriter(g)
      PROVE  TypeOK'
  <2>1. on[g] \in Channels
    BY <1>22, Places DEF wakeWriter
  <2> QED BY <1>22, <1>l, <1>z, <2>1 DEF wakeWriter, TypeOK, manager, chan,
        client, locals, goroutine, Goto
<1>23. ASSUME NEW n \in Names, Unpurge(n)
      PROVE  TypeOK'
  BY <1>23, <1>l, <1>z DEF Unpurge, TypeOK, manager, chan, client, locals,
        goroutine, Goto
<1>24. ASSUME NEW n \in Names, NEW a \in Accounts, SetUnregistered(n, a)
      PROVE  TypeOK'
  <2>1. chans[n] # 0 => chans[n] \in Channels
    BY Places
  <2> QED BY <1>24, <1>l, <1>z, <2>1 DEF SetUnregistered, maybeCleanupInternal,
        IsClean, TypeOK, manager, chan, client, locals, goroutine, Goto
<1>25. ASSUME NEW n \in Names, NEW m \in Names, Rename(n, m)
      PROVE  TypeOK'
  <2>1. chans[n] # 0 => chans[n] \in Channels
    BY Places
  <2> QED BY <1>25, <1>l, <1>z, <2>1 DEF Rename, TypeOK, manager, chan, client,
        locals, goroutine, Goto
<1>26. ASSUME NEW ch \in Channels, WriteEnd(ch)
      PROVE  TypeOK'
  BY <1>26, <1>l, <1>z DEF WriteEnd, TypeOK, manager, chan, client, locals,
        goroutine, Goto
<1>27. ASSUME NEW ch \in Channels, WriteAgain(ch)
      PROVE  TypeOK'
  BY <1>27, <1>l, <1>z DEF WriteAgain, TypeOK, manager, chan, client, locals,
        goroutine, Goto
<1>28. ASSUME NEW ch \in Channels, WriteCleanup(ch)
      PROVE  TypeOK'
  BY <1>28, <1>l, <1>z DEF WriteCleanup, maybeCleanup, maybeCleanupInternal,
        IsClean, TypeOK, manager, chan, client, locals, goroutine, Goto
<1>29. ASSUME UNCHANGED vars PROVE TypeOK'
  BY <1>29, <1>l, <1>z DEF vars, TypeOK, manager, chan, client, locals,
        goroutine, Goto
<1> QED BY <1>1, <1>2, <1>3, <1>4, <1>5, <1>6, <1>7, <1>8, <1>9, <1>10, <1>11,
      <1>12,
      <1>13, <1>14, <1>15, <1>16, <1>17, <1>18, <1>19, <1>20, <1>21, <1>22, <1>23,
      <1>24, <1>25, <1>26, <1>27, <1>28, <1>29 DEF Next, Command, Step

(* ... and the places where goroutines can be.                             *)
LEMMA NextPlace ==
    TypeOK /\ PlaceInv /\ FreshInv /\ [Next]_vars
        => PlaceInv'
<1> SUFFICES ASSUME TypeOK, PlaceInv, FreshInv, [Next]_vars
             PROVE  PlaceInv'
  OBVIOUS
<1> USE ChannelManagerAssumption
<1>1. ASSUME NEW g \in Goroutines, NEW c \in Clients, NEW n \in Names,
             JoinExisting(g, c, n)
      PROVE  PlaceInv'
  BY <1>1 DEF JoinExisting, TypeOK, PlaceInv, Channels, Locations, Joining,
        Quitting, Purging, manager, chan, client, locals, goroutine, Goto
<1>2. ASSUME NEW g \in Goroutines, NEW c \in Clients, NEW n \in Names,
             JoinNew(g, c, n)
      PROVE  PlaceInv'
  BY <1>2 DEF JoinNew, TypeOK, PlaceInv, Channels, Locations, Joining,
        Quitting, Purging, manager, chan, client, locals, goroutine, Goto
<1>3. ASSUME NEW g \in Goroutines, NEW c \in Clients, NEW n \in Names,
             PartOrKick(g, c, n)
      PROVE  PlaceInv'
  BY <1>3 DEF PartOrKick, TypeOK, PlaceInv, Channels, Locations, Joining,
        Quitting, Purging, manager, chan, client, locals, goroutine, Goto
<1>4. ASSUME NEW g \in Goroutines, NEW c \in Clients, Destroy(g, c)
      PROVE  PlaceInv'
  BY <1>4 DEF Destroy, TypeOK, PlaceInv, Channels, Locations, Joining,
        Quitting, Purging, manager, chan, client, locals, goroutine, Goto
<1>5. ASSUME NEW g \in Goroutines, NEW n \in Names, PurgeMark(g, n)
      PROVE  PlaceInv'
  <2>1. \A h \in Goroutines :
           h # g => /\ pc'[h] = pc[h] /\ on'[h] = on[h]
                    /\ who'[h] = who[h] /\ todo'[h] = todo[h]
    BY <1>5 DEF PurgeMark, TypeOK, locals, Goto
  <2>2. /\ pc[g] = "idle" /\ todo'[g] = todo[g]
        /\ \/ pc'[g] = "idle" /\ on'[g] = on[g]
           \/ pc'[g] = "purge" /\ on'[g] \in 1 .. created /\ on'[g] # 0
    BY <1>5 DEF PurgeMark, TypeOK, PlaceInv, locals, Goto
  <2>3. UNCHANGED <<chans, name, created, channels>>
    BY <1>5 DEF PurgeMark, chan, client
  <2>4. created \in Nat
    BY DEF TypeOK
  <2> QED BY <2>1, <2>2, <2>3, <2>4 DEF PlaceInv, Joining, Quitting
<1>6. ASSUME NEW g \in Goroutines, NEW n \in Names, NEW a \in Accounts,
             SetRegistered(g, n, a)
      PROVE  PlaceInv'
  BY <1>6 DEF SetRegistered, TypeOK, PlaceInv, Channels, Locations, Joining,
        Quitting, Purging, manager, chan, client, locals, goroutine, Goto
<1>7. ASSUME NEW g \in Goroutines, NEW ch \in Channels, MarkDirty(g, ch)
      PROVE  PlaceInv'
  <2>1. \A h \in Goroutines :
           h # g => /\ pc'[h] = pc[h] /\ on'[h] = on[h]
                    /\ who'[h] = who[h] /\ todo'[h] = todo[h]
    BY <1>7 DEF MarkDirty, TypeOK, locals, Goto
  <2>2. /\ pc[g] = "idle" /\ todo'[g] = todo[g]
        /\ pc'[g] = "wake" /\ on'[g] \in 1 .. created /\ on'[g] # 0
    BY <1>7 DEF MarkDirty, TypeOK, FreshInv, Channels, locals, Goto
  <2>3. UNCHANGED <<chans, name, created, channels>>
    BY <1>7 DEF MarkDirty, manager, chan, client
  <2>4. created \in Nat
    BY DEF TypeOK
  <2> QED BY <2>1, <2>2, <2>3, <2>4 DEF PlaceInv, Joining, Quitting
<1>8. ASSUME NEW g \in Goroutines, JoinCheck(g)
      PROVE  PlaceInv'
  <2>1. UNCHANGED <<chans, name, created, channels, on, who, todo>> /\ pc[g] = "join"
    BY <1>8 DEF JoinCheck, manager, chan, client, locals
  <2>2. \A h \in Goroutines : h # g => pc'[h] = pc[h]
    BY <1>8 DEF JoinCheck, TypeOK, Goto
  <2>3. pc'[g] \in {"joined", "addChannel"}
    BY <1>8 DEF JoinCheck, TypeOK, Goto
  <2> QED BY <2>1, <2>2, <2>3 DEF PlaceInv, Joining, Quitting
<1>9. ASSUME NEW g \in Goroutines, AddChannel(g)
      PROVE  PlaceInv'
  <2>1. on[g] \in 1 .. created /\ who[g] \in Clients
    BY <1>9, Places DEF AddChannel, Joining
  <2>2. \A c \in Clients : channels'[c] \subseteq 1 .. created'
    BY <1>9, <2>1, SMTT(30) DEF AddChannel, TypeOK, PlaceInv, chan
  <2>3. pc[g] = "addChannel" /\ pc' \in [Goroutines -> Locations]
        /\ pc'[g] \in {"addMember", "joined"} /\ \A h \in Goroutines : h # g => pc'[h] = pc[h]
    BY <1>9 DEF AddChannel, TypeOK, Goto, Locations, Joining
  <2>4. UNCHANGED <<chans, name, created, on, who, todo>>
    BY <1>9 DEF AddChannel, manager, chan, locals
  <2> QED BY <2>1, <2>2, <2>3, <2>4 DEF PlaceInv, Joining, Quitting
<1>10. ASSUME NEW g \in Goroutines, AddMember(g)
      PROVE  PlaceInv'
  BY <1>10 DEF AddMember, TypeOK, PlaceInv, Channels, Locations, Joining,
        Quitting, Purging, manager, chan, client, locals, goroutine, Goto
<1>11. ASSUME NEW g \in Goroutines, JoinDone(g)
      PROVE  PlaceInv'
  <2>1. \A h \in Goroutines :
           h # g => /\ pc'[h] = pc[h] /\ on'[h] = on[h]
                    /\ who'[h] = who[h] /\ todo'[h] = todo[h]
    BY <1>11 DEF JoinDone, TypeOK, locals, Goto
  <2>2. /\ pc[g] = "joined" /\ todo'[g] = todo[g]
        /\ pc'[g] = "idle" /\ on'[g] = 0
    BY <1>11 DEF JoinDone, TypeOK, locals, Goto
  <2>3. /\ UNCHANGED <<name, created, channels>>
        /\ \A x \in Names : chans'[x] \in {0, chans[x]}
    BY <1>11 DEF JoinDone, maybeCleanup, maybeCleanupInternal, TypeOK, manager,
          chan, client
  <2>4. created \in Nat
    BY DEF TypeOK
  <2> QED BY <2>1, <2>2, <2>3, <2>4 DEF PlaceInv, Joining, Quitting
<1>12. ASSUME NEW g \in Goroutines, CopyMembers(g)
      PROVE  PlaceInv'
  <2>1. UNCHANGED <<chans, created, name, channels, on, who, todo>>
    BY <1>12 DEF CopyMembers, manager, chan, client
  <2>2. /\ pc[g] \in {"joinCopy", "quitCopy"} /\ \A h \in Goroutines \ {g} : pc'[h] = pc[h]
        /\ pc'[g] = (IF pc[g] = "joinCopy" THEN "joinStore" ELSE "quitStore")
    BY <1>12 DEF CopyMembers, Goto, TypeOK
  <2> QED BY <2>1, <2>2 DEF PlaceInv, Joining, Quitting
<1>13. ASSUME NEW g \in Goroutines, StoreCache(g)
      PROVE  PlaceInv'
  BY <1>13 DEF StoreCache, TypeOK, PlaceInv, Channels, Locations, Joining,
        Quitting, Purging, manager, chan, client, locals, goroutine, Goto
<1>14. ASSUME NEW g \in Goroutines, ListChannels(g)
      PROVE  PlaceInv'
  <2>1. \A h \in Goroutines :
           h # g => /\ pc'[h] = pc[h] /\ on'[h] = on[h]
                    /\ who'[h] = who[h] /\ todo'[h] = todo[h]
    BY <1>14 DEF ListChannels, TypeOK, locals, Goto
  <2>2. /\ pc[g] = "destroy" /\ on'[g] = on[g]
        /\ todo'[g] \subseteq 1 .. created
    BY <1>14 DEF ListChannels, TypeOK, PlaceInv
  <2>3. \/ pc' = [pc EXCEPT ![g] = "idle"]
        \/ pc' = [pc EXCEPT ![g] = "leaveAll"] /\ who' = who
    BY <1>14 DEF ListChannels, Goto
  <2>4. \/ pc'[g] = "idle"
        \/ pc'[g] = "leaveAll" /\ who'[g] = who[g]
    BY <2>3 DEF TypeOK
  <2>5. UNCHANGED <<chans, name, created, channels>>
    BY <1>14 DEF ListChannels, manager, chan, client
  <2>6. created \in Nat
    BY DEF TypeOK
  <2> QED BY <2>1, <2>2, <2>4, <2>5, <2>6 DEF PlaceInv, Joining, Quitting
<1>15. ASSUME NEW g \in Goroutines, LeaveNext(g)
      PROVE  PlaceInv'
  BY <1>15 DEF LeaveNext, TypeOK, PlaceInv, Channels, Locations, Joining,
        Quitting, Purging, manager, chan, client, locals, goroutine, Goto
<1>16. ASSUME NEW g \in Goroutines, RemoveMember(g)
      PROVE  PlaceInv'
  BY <1>16 DEF RemoveMember, TypeOK, PlaceInv, Channels, Locations, Joining,
        Quitting, Purging, manager, chan, client, locals, goroutine, Goto
<1>17. ASSUME NEW g \in Goroutines, Cleanup(g)
      PROVE  PlaceInv'
  <2>1. \A h \in Goroutines :
           h # g => /\ pc'[h] = pc[h] /\ on'[h] = on[h]
                    /\ who'[h] = who[h] /\ todo'[h] = todo[h]
    BY <1>17 DEF Cleanup, TypeOK, locals, Goto
  <2>2. /\ pc[g] = "cleanup" /\ todo'[g] = todo[g]
        /\ pc'[g] = "removeChannel" /\ on'[g] = on[g] /\ who'[g] = who[g]
    BY <1>17 DEF Cleanup, TypeOK, locals, Goto
  <2>3. /\ UNCHANGED <<name, created, channels>>
        /\ \A x \in Names : chans'[x] \in {0, chans[x]}
    BY <1>17 DEF Cleanup, maybeCleanup, maybeCleanupInternal, TypeOK, manager,
          chan, client
  <2>4. created \in Nat
    BY DEF TypeOK
  <2> QED BY <2>1, <2>2, <2>3, <2>4 DEF PlaceInv, Joining, Quitting
<1>18. ASSUME NEW g \in Goroutines, RemoveChannel(g)
      PROVE  PlaceInv'
  <2>1. \A h \in Goroutines :
           h # g => /\ pc'[h] = pc[h] /\ on'[h] = on[h]
                    /\ who'[h] = who[h] /\ todo'[h] = todo[h]
    BY <1>18 DEF RemoveChannel, TypeOK, locals, Goto
  <2>2. /\ pc[g] = "removeChannel" /\ on'[g] = 0
        /\ todo'[g] = todo[g]
    BY <1>18 DEF RemoveChannel, TypeOK
  <2>3. \/ pc' = [pc EXCEPT ![g] = "idle"]
        \/ pc' = [pc EXCEPT ![g] = "leaveAll"] /\ who' = who
    BY <1>18 DEF RemoveChannel, Goto
  <2>4. \/ pc'[g] = "idle"
        \/ pc'[g] = "leaveAll" /\ who'[g] = who[g]
    BY <2>3 DEF TypeOK
  <2>5. /\ UNCHANGED <<chans, name, created>>
        /\ \A c \in Clients : channels'[c] \subseteq channels[c]
    BY <1>18 DEF RemoveChannel, TypeOK, manager, chan
  <2>6. created \in Nat
    BY DEF TypeOK
  <2> QED BY <2>1, <2>2, <2>4, <2>5, <2>6 DEF PlaceInv, Joining, Quitting
<1>19. ASSUME NEW g \in Goroutines, PurgeChannel(g)
      PROVE  PlaceInv'
  BY <1>19 DEF PurgeChannel, TypeOK, PlaceInv, Channels, Locations, Joining,
        Quitting, Purging, manager, chan, client, locals, goroutine, Goto
<1>20. ASSUME NEW g \in Goroutines, PurgeTell(g)
      PROVE  PlaceInv'
  <2>1. \A c \in Clients : channels'[c] \subseteq channels[c]
    <3>1. CASE channels' = channels
      BY <3>1
    <3>2. ASSUME NEW c \in todo[g], channels' = [channels EXCEPT ![c] = @ \ {on[g]}]
          PROVE  \A x \in Clients : channels'[x] \subseteq channels[x]
      BY <3>2 DEF TypeOK
    <3> QED BY <1>20, <3>1, <3>2 DEF PurgeTell
  <2>2. UNCHANGED <<chans, name, created, who>>
    BY <1>20 DEF PurgeTell, manager, chan
  <2>3. \A h \in Goroutines : h # g => pc'[h] = pc[h] /\ on'[h] = on[h] /\ todo'[h] = todo[h]
    BY <1>20 DEF PurgeTell, TypeOK, Goto
  <2>4. \/ pc'[g] = "purgeTell" /\ on'[g] = on[g] /\ todo'[g] \subseteq todo[g]
        \/ pc'[g] = "idle" /\ on'[g] = 0 /\ todo'[g] = {}
    BY <1>20 DEF PurgeTell, TypeOK, Goto
  <2>5. pc[g] = "purgeTell"
    BY <1>20 DEF PurgeTell
  <2>6. created \in Nat
    BY DEF TypeOK
  <2> QED BY <2>1, <2>2, <2>3, <2>4, <2>5, <2>6 DEF PlaceInv, Joining, Quitting
<1>21. ASSUME NEW g \in Goroutines, Store(g)
      PROVE  PlaceInv'
  BY <1>21 DEF Store, TypeOK, PlaceInv, Channels, Locations, Joining, Quitting,
        Purging, manager, chan, client, locals, goroutine, Goto
<1>22. ASSUME NEW g \in Goroutines, wakeWriter(g)
      PROVE  PlaceInv'
  BY <1>22 DEF wakeWriter, TypeOK, PlaceInv, Channels, Locations, Joining,
        Quitting, Purging, manager, chan, client, locals, goroutine, Goto
<1>23. ASSUME NEW n \in Names, Unpurge(n)
      PROVE  PlaceInv'
  BY <1>23 DEF Unpurge, TypeOK, PlaceInv, Channels, Locations, Joining,
        Quitting, Purging, manager, chan, client, locals, goroutine, Goto
<1>24. ASSUME NEW n \in Names, NEW a \in Accounts, SetUnregistered(n, a)
      PROVE  PlaceInv'
  <2>1. \A x \in Names : chans'[x] \in {0, chans[x]}
    BY <1>24 DEF SetUnregistered, maybeCleanupInternal, TypeOK
  <2>2. UNCHANGED <<name, created, channels, pc, on, who, todo>>
    BY <1>24 DEF SetUnregistered, client, goroutine, locals
  <2> QED BY <2>1, <2>2 DEF PlaceInv
<1>25. ASSUME NEW n \in Names, NEW m \in Names, Rename(n, m)
      PROVE  PlaceInv'
  <2>0. PICK ch \in 1 .. created : ch = chans[n]
    BY <1>25 DEF Rename, PlaceInv
  <2>1. /\ ch \in 1 .. created /\ name[ch] = n
        /\ chans' = [chans EXCEPT ![n] = 0, ![m] = ch]
        /\ name' = [name EXCEPT ![ch] = m]
        /\ UNCHANGED <<created, channels, pc, on, who, todo>>
    BY <1>25, <2>0 DEF Rename, PlaceInv, client, goroutine, locals
  <2>2. ch \in Channels /\ 1 .. created \subseteq Channels
    BY <2>1 DEF TypeOK, Channels
  <2>3. \A k \in 1 .. created : name'[k] = IF k = ch THEN m ELSE name[k]
    BY <2>1, <2>2 DEF TypeOK
  <2>4. \A x \in Names : chans'[x] = IF x = m THEN ch ELSE IF x = n THEN 0 ELSE chans[x]
    BY <2>1 DEF TypeOK
  <2>5. \A x \in Names : chans'[x] # 0 => chans'[x] \in 1 .. created /\ name'[chans'[x]] = x
    <3>1. \A x \in Names : chans[x] # 0 => chans[x] \in 1 .. created /\ name[chans[x]] = x
      BY DEF PlaceInv
    <3>2. ASSUME NEW x \in Names, chans'[x] # 0
          PROVE  chans'[x] \in 1 .. created /\ name'[chans'[x]] = x
      <4>1. CASE x = m
        BY <2>1, <2>3, <2>4, <4>1
      <4>2. CASE x # m
        <5>1. x # n /\ chans'[x] = chans[x]
          BY <2>4, <3>2, <4>2
        <5>2. chans[x] \in 1 .. created /\ name[chans[x]] = x
          BY <3>1, <3>2, <5>1
        <5>3. chans[x] # ch
          BY <2>1, <5>1, <5>2
        <5> QED BY <2>3, <5>1, <5>2, <5>3
      <4> QED BY <4>1, <4>2
    <3> QED BY <3>2
  <2>6. \A k \in 1 .. created' : name'[k] \in Names
    BY <2>1, <2>3 DEF PlaceInv
  <2> QED BY <2>1, <2>5, <2>6 DEF PlaceInv
<1>26. ASSUME NEW ch \in Channels, WriteEnd(ch)
      PROVE  PlaceInv'
  BY <1>26 DEF WriteEnd, TypeOK, PlaceInv, Channels, Locations, Joining,
        Quitting, Purging, manager, chan, client, locals, goroutine, Goto
<1>27. ASSUME NEW ch \in Channels, WriteAgain(ch)
      PROVE  PlaceInv'
  BY <1>27 DEF WriteAgain, TypeOK, PlaceInv, Channels, Locations, Joining,
        Quitting, Purging, manager, chan, client, locals, goroutine, Goto
<1>28. ASSUME NEW ch \in Channels, WriteCleanup(ch)
      PROVE  PlaceInv'
  <2>1. \A x \in Names : chans'[x] \in {0, chans[x]}
    BY <1>28 DEF WriteCleanup, maybeCleanup, maybeCleanupInternal, TypeOK,
          manager
  <2>2. UNCHANGED <<name, created, channels, pc, on, who, todo>>
    BY <1>28 DEF WriteCleanup, client, goroutine, locals
  <2> QED BY <2>1, <2>2 DEF PlaceInv
<1>29. ASSUME UNCHANGED vars PROVE PlaceInv'
  BY <1>29 DEF vars, TypeOK, PlaceInv, Channels, Locations, Joining, Quitting,
        Purging, manager, chan, client, locals, goroutine, Goto
<1> QED BY <1>1, <1>2, <1>3, <1>4, <1>5, <1>6, <1>7, <1>8, <1>9, <1>10, <1>11,
      <1>12,
      <1>13, <1>14, <1>15, <1>16, <1>17, <1>18, <1>19, <1>20, <1>21, <1>22, <1>23,
      <1>24, <1>25, <1>26, <1>27, <1>28, <1>29 DEF Next, Command, Step

(* Channels that do not exist yet stay untouched.                          *)
LEMMA NextFresh ==
    TypeOK /\ PlaceInv /\ FreshInv /\ [Next]_vars
        => FreshInv'
<1> SUFFICES ASSUME TypeOK, PlaceInv, FreshInv, [Next]_vars
             PROVE  FreshInv'
  OBVIOUS
<1> USE ChannelManagerAssumption
<1>1. ASSUME NEW g \in Goroutines, NEW c \in Clients, NEW n \in Names,
             JoinExisting(g, c, n)
      PROVE  FreshInv'
  BY <1>1 DEF JoinExisting, FreshInv, chan
<1>2. ASSUME NEW g \in Goroutines, NEW c \in Clients, NEW n \in Names,
             JoinNew(g, c, n)
      PROVE  FreshInv'
  <2>1. created \in Nat /\ created' = created + 1
    BY <1>2 DEF JoinNew, TypeOK
  <2> QED BY <1>2, <2>1 DEF JoinNew, FreshInv, Channels
<1>3. ASSUME NEW g \in Goroutines, NEW c \in Clients, NEW n \in Names,
             PartOrKick(g, c, n)
      PROVE  FreshInv'
  BY <1>3 DEF PartOrKick, FreshInv, chan
<1>4. ASSUME NEW g \in Goroutines, NEW c \in Clients, Destroy(g, c)
      PROVE  FreshInv'
  BY <1>4 DEF Destroy, FreshInv, chan
<1>5. ASSUME NEW g \in Goroutines, NEW n \in Names, PurgeMark(g, n)
      PROVE  FreshInv'
  BY <1>5 DEF PurgeMark, FreshInv, chan
<1>6. ASSUME NEW g \in Goroutines, NEW n \in Names, NEW a \in Accounts,
             SetRegistered(g, n, a)
      PROVE  FreshInv'
  <2>1. chans[n] \in 1 .. created /\ created \in Nat
    BY <1>6 DEF SetRegistered, PlaceInv, TypeOK, Channels
  <2> QED BY <1>6, <2>1 DEF SetRegistered, FreshInv, TypeOK, Channels
<1>7. ASSUME NEW g \in Goroutines, NEW ch \in Channels, MarkDirty(g, ch)
      PROVE  FreshInv'
  BY <1>7 DEF MarkDirty, FreshInv, chan
<1>8. ASSUME NEW g \in Goroutines, JoinCheck(g)
      PROVE  FreshInv'
  BY <1>8 DEF JoinCheck, FreshInv, chan
<1>9. ASSUME NEW g \in Goroutines, AddChannel(g)
      PROVE  FreshInv'
  BY <1>9 DEF AddChannel, FreshInv, chan
<1>10. ASSUME NEW g \in Goroutines, AddMember(g)
      PROVE  FreshInv'
  <2>1. on[g] \in 1 .. created
    BY <1>10, Places DEF AddMember
  <2>2. created \in Nat
    BY DEF TypeOK
  <2> QED BY <1>10, <2>1, <2>2 DEF AddMember, FreshInv, TypeOK, Channels
<1>11. ASSUME NEW g \in Goroutines, JoinDone(g)
      PROVE  FreshInv'
  BY <1>11 DEF JoinDone, FreshInv, chan
<1>12. ASSUME NEW g \in Goroutines, CopyMembers(g)
      PROVE  FreshInv'
  BY <1>12 DEF CopyMembers, FreshInv, chan
<1>13. ASSUME NEW g \in Goroutines, StoreCache(g)
      PROVE  FreshInv'
  <2>1. on[g] \in 1 .. created
    BY <1>13, Places DEF StoreCache
  <2>2. created \in Nat
    BY DEF TypeOK
  <2>3. \A d \in Channels : d > created => d # on[g]
    BY <2>1, <2>2 DEF Channels
  <2>4. \A d \in Channels :
           d # on[g] => membersCache'[d] = membersCache[d] /\ joinPartMutex'[d] = joinPartMutex[d]
    BY <1>13 DEF StoreCache, TypeOK
  <2>5. UNCHANGED <<created, members, founder, writing>>
    BY <1>13 DEF StoreCache
  <2> QED BY <2>3, <2>4, <2>5 DEF FreshInv
<1>14. ASSUME NEW g \in Goroutines, ListChannels(g)
      PROVE  FreshInv'
  BY <1>14 DEF ListChannels, FreshInv, chan
<1>15. ASSUME NEW g \in Goroutines, LeaveNext(g)
      PROVE  FreshInv'
  BY <1>15 DEF LeaveNext, FreshInv, chan
<1>16. ASSUME NEW g \in Goroutines, RemoveMember(g)
      PROVE  FreshInv'
  <2>1. on[g] \in 1 .. created
    BY <1>16, Places DEF RemoveMember
  <2>2. created \in Nat
    BY DEF TypeOK
  <2>3. \A d \in Channels : d > created => d # on[g]
    BY <2>1, <2>2 DEF Channels
  <2>4. \A d \in Channels :
           d # on[g] => members'[d] = members[d] /\ joinPartMutex'[d] = joinPartMutex[d]
    BY <1>16 DEF RemoveMember, TypeOK
  <2>5. UNCHANGED <<created, membersCache, founder, writing>>
    BY <1>16 DEF RemoveMember
  <2> QED BY <2>3, <2>4, <2>5 DEF FreshInv
<1>17. ASSUME NEW g \in Goroutines, Cleanup(g)
      PROVE  FreshInv'
  BY <1>17 DEF Cleanup, FreshInv, chan
<1>18. ASSUME NEW g \in Goroutines, RemoveChannel(g)
      PROVE  FreshInv'
  BY <1>18 DEF RemoveChannel, FreshInv, chan
<1>19. ASSUME NEW g \in Goroutines, PurgeChannel(g)
      PROVE  FreshInv'
  <2>1. on[g] \in 1 .. created
    BY <1>19, Places DEF PurgeChannel
  <2>2. created \in Nat
    BY DEF TypeOK
  <2> QED BY <1>19, <2>1, <2>2 DEF PurgeChannel, FreshInv, TypeOK, Channels
<1>20. ASSUME NEW g \in Goroutines, PurgeTell(g)
      PROVE  FreshInv'
  BY <1>20 DEF PurgeTell, FreshInv, chan
<1>21. ASSUME NEW g \in Goroutines, Store(g)
      PROVE  FreshInv'
  <2>1. on[g] \in 1 .. created
    BY <1>21, Places DEF Store
  <2>2. created \in Nat
    BY DEF TypeOK
  <2> QED BY <1>21, <2>1, <2>2 DEF Store, FreshInv, TypeOK, Channels
<1>22. ASSUME NEW g \in Goroutines, wakeWriter(g)
      PROVE  FreshInv'
  <2>1. on[g] \in 1 .. created
    BY <1>22, Places DEF wakeWriter
  <2>2. created \in Nat
    BY DEF TypeOK
  <2> QED BY <1>22, <2>1, <2>2 DEF wakeWriter, FreshInv, TypeOK, Channels
<1>23. ASSUME NEW n \in Names, Unpurge(n)
      PROVE  FreshInv'
  BY <1>23 DEF Unpurge, FreshInv, chan
<1>24. ASSUME NEW n \in Names, NEW a \in Accounts, SetUnregistered(n, a)
      PROVE  FreshInv'
  <2>1. chans[n] \in 1 .. created /\ created \in Nat
    BY <1>24 DEF SetUnregistered, PlaceInv, TypeOK
  <2> QED BY <1>24, <2>1 DEF SetUnregistered, FreshInv, TypeOK, Channels
<1>25. ASSUME NEW n \in Names, NEW m \in Names, Rename(n, m)
      PROVE  FreshInv'
  BY <1>25 DEF Rename, FreshInv
<1>26. ASSUME NEW ch \in Channels, WriteEnd(ch)
      PROVE  FreshInv'
  <2>1. \A d \in Channels : writing[d] = {} => writing'[d] = {}
    BY <1>26 DEF WriteEnd, TypeOK
  <2> QED BY <1>26, <2>1 DEF WriteEnd, FreshInv
<1>27. ASSUME NEW ch \in Channels, WriteAgain(ch)
      PROVE  FreshInv'
  <2>1. \A d \in Channels : writing[d] = {} => writing'[d] = {}
    BY <1>27 DEF WriteAgain, TypeOK
  <2> QED BY <1>27, <2>1 DEF WriteAgain, FreshInv
<1>28. ASSUME NEW ch \in Channels, WriteCleanup(ch)
      PROVE  FreshInv'
  <2>1. \A d \in Channels : writing[d] = {} => writing'[d] = {}
    BY <1>28 DEF WriteCleanup, TypeOK
  <2> QED BY <1>28, <2>1 DEF WriteCleanup, FreshInv
<1>29. ASSUME UNCHANGED vars PROVE FreshInv'
  BY <1>29 DEF vars, FreshInv, chan
<1> QED BY <1>1, <1>2, <1>3, <1>4, <1>5, <1>6, <1>7, <1>8, <1>9, <1>10, <1>11,
      <1>12,
      <1>13, <1>14, <1>15, <1>16, <1>17, <1>18, <1>19, <1>20, <1>21, <1>22, <1>23,
      <1>24, <1>25, <1>26, <1>27, <1>28, <1>29 DEF Next, Command, Step

(* pendingJoins remains the number of joiners.                             *)
LEMMA NextCount ==
    TypeOK /\ PlaceInv /\ CountInv /\ OccupiedIsListed /\ [Next]_vars
        => CountInv'
<1> SUFFICES ASSUME TypeOK, PlaceInv, CountInv, OccupiedIsListed, [Next]_vars
             PROVE  CountInv'
  OBVIOUS
<1> USE ChannelManagerAssumption
<1>1. ASSUME NEW g \in Goroutines, NEW c \in Clients, NEW n \in Names,
             JoinExisting(g, c, n)
      PROVE  CountInv'
  <2>0. PICK d \in Channels : d = chans[n]
    BY <1>1, Places DEF JoinExisting
  <2>1. /\ d \in Channels /\ pc[g] = "idle"
        /\ pendingJoins' = [pendingJoins EXCEPT ![d] = @ + 1]
        /\ on' = [on EXCEPT ![g] = d] /\ pc' = [pc EXCEPT ![g] = "join"]
    BY <1>1, <2>0 DEF JoinExisting, Goto
  <2>2. g \notin Joiners(d) /\ Joiners(d)' = Joiners(d) \cup {g}
    BY <2>1 DEF Joiners, Joining, TypeOK
  <2>3. \A x \in Channels : x # d => Joiners(x)' = Joiners(x) /\ pendingJoins'[x] = pendingJoins[x]
    BY <2>1 DEF Joiners, Joining, TypeOK
  <2>4. IsFiniteSet(Joiners(d))
    BY <2>1, JoinerCounted
  <2>5. Cardinality(Joiners(d)') = Cardinality(Joiners(d)) + 1
    BY <2>2, <2>4, FS_AddElement
  <2>6. pendingJoins'[d] = pendingJoins[d] + 1
    BY <2>1 DEF TypeOK
  <2> QED BY <2>1, <2>3, <2>5, <2>6 DEF CountInv
<1>2. ASSUME NEW g \in Goroutines, NEW c \in Clients, NEW n \in Names,
             JoinNew(g, c, n)
      PROVE  CountInv'
  <2>0. PICK d \in Channels : d = created + 1
    BY <1>2 DEF JoinNew, TypeOK, Channels
  <2>1. /\ d \in Channels /\ pc[g] = "idle"
        /\ pendingJoins' = [pendingJoins EXCEPT ![d] = 1]
        /\ on' = [on EXCEPT ![g] = d] /\ pc' = [pc EXCEPT ![g] = "join"]
    BY <1>2, <2>0 DEF JoinNew, Goto
  <2>2. \A h \in Goroutines : on[h] # d
    BY <2>0 DEF PlaceInv, TypeOK
  <2>3. Joiners(d)' = {g}
    BY <2>1, <2>2 DEF Joiners, Joining, TypeOK
  <2>4. \A x \in Channels : x # d => Joiners(x)' = Joiners(x) /\ pendingJoins'[x] = pendingJoins[x]
    BY <2>1 DEF Joiners, Joining, TypeOK
  <2>5. Cardinality(Joiners(d)') = 1
    BY <2>3, FS_Singleton
  <2>6. pendingJoins'[d] = 1
    BY <2>1 DEF TypeOK
  <2> QED BY <2>1, <2>4, <2>5, <2>6 DEF CountInv
<1>3. ASSUME NEW g \in Goroutines, NEW c \in Clients, NEW n \in Names,
             PartOrKick(g, c, n)
      PROVE  CountInv'
  <2>1. pendingJoins' = pendingJoins
    BY <1>3 DEF PartOrKick, TypeOK, manager
  <2>2. \A d \in Channels : Joiners(d)' = Joiners(d)
    BY <1>3 DEF PartOrKick, TypeOK, Joiners, Joining, Channels, goroutine, Goto
  <2> QED BY <2>1, <2>2 DEF CountInv
<1>4. ASSUME NEW g \in Goroutines, NEW c \in Clients, Destroy(g, c)
      PROVE  CountInv'
  <2>1. pendingJoins' = pendingJoins
    BY <1>4 DEF Destroy, TypeOK, manager
  <2>2. \A d \in Channels : Joiners(d)' = Joiners(d)
    BY <1>4 DEF Destroy, TypeOK, Joiners, Joining, Channels, goroutine, Goto
  <2> QED BY <2>1, <2>2 DEF CountInv
<1>5. ASSUME NEW g \in Goroutines, NEW n \in Names, PurgeMark(g, n)
      PROVE  CountInv'
  <2>1. pendingJoins' = pendingJoins
    BY <1>5 DEF PurgeMark, TypeOK, manager
  <2>2. \A d \in Channels : Joiners(d)' = Joiners(d)
    BY <1>5 DEF PurgeMark, TypeOK, Joiners, Joining, Channels, goroutine, Goto
  <2> QED BY <2>1, <2>2 DEF CountInv
<1>6. ASSUME NEW g \in Goroutines, NEW n \in Names, NEW a \in Accounts,
             SetRegistered(g, n, a)
      PROVE  CountInv'
  <2>1. pendingJoins' = pendingJoins
    BY <1>6 DEF SetRegistered, TypeOK, manager
  <2>2. \A d \in Channels : Joiners(d)' = Joiners(d)
    BY <1>6 DEF SetRegistered, TypeOK, Joiners, Joining, Channels, goroutine,
          Goto
  <2> QED BY <2>1, <2>2 DEF CountInv
<1>7. ASSUME NEW g \in Goroutines, NEW ch \in Channels, MarkDirty(g, ch)
      PROVE  CountInv'
  <2>1. pendingJoins' = pendingJoins
    BY <1>7 DEF MarkDirty, TypeOK, manager
  <2>2. \A d \in Channels : Joiners(d)' = Joiners(d)
    BY <1>7 DEF MarkDirty, TypeOK, Joiners, Joining, Channels, goroutine, Goto
  <2> QED BY <2>1, <2>2 DEF CountInv
<1>8. ASSUME NEW g \in Goroutines, JoinCheck(g)
      PROVE  CountInv'
  <2>1. pendingJoins' = pendingJoins
    BY <1>8 DEF JoinCheck, TypeOK, manager
  <2>2. \A d \in Channels : Joiners(d)' = Joiners(d)
    BY <1>8 DEF JoinCheck, TypeOK, Joiners, Joining, Channels, goroutine, Goto
  <2> QED BY <2>1, <2>2 DEF CountInv
<1>9. ASSUME NEW g \in Goroutines, AddChannel(g)
      PROVE  CountInv'
  <2>1. pendingJoins' = pendingJoins
    BY <1>9 DEF AddChannel, TypeOK, manager
  <2>2. \A d \in Channels : Joiners(d)' = Joiners(d)
    BY <1>9 DEF AddChannel, TypeOK, Joiners, Joining, Channels, goroutine, Goto
  <2> QED BY <2>1, <2>2 DEF CountInv
<1>10. ASSUME NEW g \in Goroutines, AddMember(g)
      PROVE  CountInv'
  <2>1. pendingJoins' = pendingJoins
    BY <1>10 DEF AddMember, TypeOK, manager
  <2>2. \A d \in Channels : Joiners(d)' = Joiners(d)
    BY <1>10 DEF AddMember, TypeOK, Joiners, Joining, Channels, goroutine, Goto
  <2> QED BY <2>1, <2>2 DEF CountInv
<1>11. ASSUME NEW g \in Goroutines, JoinDone(g)
      PROVE  CountInv'
  <2>0. PICK d \in Channels : d = on[g]
    BY <1>11, Places DEF JoinDone
  <2>1. d = on[g] /\ pc[g] = "joined"
    BY <1>11, <2>0 DEF JoinDone
  <2>2. Listed(d)
    BY <1>11, <2>1 DEF JoinDone, OccupiedIsListed, Joining
  <2>3. /\ pendingJoins' = [pendingJoins EXCEPT ![d] = pendingJoins[d] - 1]
        /\ on' = [on EXCEPT ![g] = 0] /\ pc' = [pc EXCEPT ![g] = "idle"]
    BY <1>11, <2>1, <2>2 DEF JoinDone, Goto, Listed, maybeCleanup,
          maybeCleanupInternal
  <2>4. g \in Joiners(d) /\ Joiners(d)' = Joiners(d) \ {g}
    BY <2>1, <2>3 DEF Joiners, Joining, TypeOK, Channels
  <2>5. \A x \in Channels : x # d => Joiners(x)' = Joiners(x) /\ pendingJoins'[x] = pendingJoins[x]
    <3>1. \A x \in Channels : x # 0
      BY DEF Channels
    <3> QED BY <2>1, <2>3, <3>1 DEF Joiners, Joining, TypeOK
  <2>6. IsFiniteSet(Joiners(d))
    BY <2>1, JoinerCounted
  <2>7. Cardinality(Joiners(d)') = Cardinality(Joiners(d)) - 1
    BY <2>4, <2>6, FS_RemoveElement
  <2>8. pendingJoins'[d] = pendingJoins[d] - 1
    BY <2>1, <2>3 DEF TypeOK
  <2> QED BY <2>1, <2>5, <2>7, <2>8 DEF CountInv
<1>12. ASSUME NEW g \in Goroutines, CopyMembers(g)
      PROVE  CountInv'
  <2>1. pendingJoins' = pendingJoins
    BY <1>12 DEF CopyMembers, TypeOK, manager
  <2>2. \A d \in Channels : Joiners(d)' = Joiners(d)
    BY <1>12 DEF CopyMembers, TypeOK, Joiners, Joining, Channels, goroutine,
          Goto
  <2> QED BY <2>1, <2>2 DEF CountInv
<1>13. ASSUME NEW g \in Goroutines, StoreCache(g)
      PROVE  CountInv'
  <2>1. pendingJoins' = pendingJoins
    BY <1>13 DEF StoreCache, TypeOK, manager
  <2>2. \A d \in Channels : Joiners(d)' = Joiners(d)
    BY <1>13 DEF StoreCache, TypeOK, Joiners, Joining, Channels, goroutine,
          Goto
  <2> QED BY <2>1, <2>2 DEF CountInv
<1>14. ASSUME NEW g \in Goroutines, ListChannels(g)
      PROVE  CountInv'
  <2>1. pendingJoins' = pendingJoins
    BY <1>14 DEF ListChannels, TypeOK, manager
  <2>2. \A d \in Channels : Joiners(d)' = Joiners(d)
    BY <1>14 DEF ListChannels, TypeOK, Joiners, Joining, Channels, goroutine,
          Goto
  <2> QED BY <2>1, <2>2 DEF CountInv
<1>15. ASSUME NEW g \in Goroutines, LeaveNext(g)
      PROVE  CountInv'
  <2>1. pendingJoins' = pendingJoins
    BY <1>15 DEF LeaveNext, TypeOK, manager
  <2>2. \A d \in Channels : Joiners(d)' = Joiners(d)
    BY <1>15 DEF LeaveNext, TypeOK, Joiners, Joining, Channels, goroutine, Goto
  <2> QED BY <2>1, <2>2 DEF CountInv
<1>16. ASSUME NEW g \in Goroutines, RemoveMember(g)
      PROVE  CountInv'
  <2>1. pendingJoins' = pendingJoins
    BY <1>16 DEF RemoveMember, TypeOK, manager
  <2>2. \A d \in Channels : Joiners(d)' = Joiners(d)
    BY <1>16 DEF RemoveMember, TypeOK, Joiners, Joining, Channels, goroutine,
          Goto
  <2> QED BY <2>1, <2>2 DEF CountInv
<1>17. ASSUME NEW g \in Goroutines, Cleanup(g)
      PROVE  CountInv'
  <2>1. pendingJoins' = pendingJoins
    BY <1>17 DEF Cleanup, maybeCleanup, maybeCleanupInternal, IsClean, TypeOK,
          manager
  <2>2. \A d \in Channels : Joiners(d)' = Joiners(d)
    BY <1>17 DEF Cleanup, TypeOK, Joiners, Joining, Channels, goroutine, Goto
  <2> QED BY <2>1, <2>2 DEF CountInv
<1>18. ASSUME NEW g \in Goroutines, RemoveChannel(g)
      PROVE  CountInv'
  <2>1. pendingJoins' = pendingJoins
    BY <1>18 DEF RemoveChannel, TypeOK, manager
  <2>2. \A d \in Channels : Joiners(d)' = Joiners(d)
    BY <1>18 DEF RemoveChannel, TypeOK, Joiners, Joining, Channels, goroutine,
          Goto
  <2> QED BY <2>1, <2>2 DEF CountInv
<1>19. ASSUME NEW g \in Goroutines, PurgeChannel(g)
      PROVE  CountInv'
  <2>1. pendingJoins' = pendingJoins
    BY <1>19 DEF PurgeChannel, TypeOK, manager
  <2>2. \A d \in Channels : Joiners(d)' = Joiners(d)
    BY <1>19 DEF PurgeChannel, TypeOK, Joiners, Joining, Channels, goroutine,
          Goto
  <2> QED BY <2>1, <2>2 DEF CountInv
<1>20. ASSUME NEW g \in Goroutines, PurgeTell(g)
      PROVE  CountInv'
  <2>1. pendingJoins' = pendingJoins
    BY <1>20 DEF PurgeTell, TypeOK, manager
  <2>2. \A d \in Channels : Joiners(d)' = Joiners(d)
    BY <1>20 DEF PurgeTell, TypeOK, Joiners, Joining, Channels, goroutine, Goto
  <2> QED BY <2>1, <2>2 DEF CountInv
<1>21. ASSUME NEW g \in Goroutines, Store(g)
      PROVE  CountInv'
  <2>1. pendingJoins' = pendingJoins
    BY <1>21 DEF Store, TypeOK, manager
  <2>2. \A d \in Channels : Joiners(d)' = Joiners(d)
    BY <1>21 DEF Store, TypeOK, Joiners, Joining, Channels, goroutine, Goto
  <2> QED BY <2>1, <2>2 DEF CountInv
<1>22. ASSUME NEW g \in Goroutines, wakeWriter(g)
      PROVE  CountInv'
  <2>1. pendingJoins' = pendingJoins
    BY <1>22 DEF wakeWriter, TypeOK, manager
  <2>2. \A d \in Channels : Joiners(d)' = Joiners(d)
    BY <1>22 DEF wakeWriter, TypeOK, Joiners, Joining, Channels, goroutine,
          Goto
  <2> QED BY <2>1, <2>2 DEF CountInv
<1>23. ASSUME NEW n \in Names, Unpurge(n)
      PROVE  CountInv'
  <2>1. pendingJoins' = pendingJoins
    BY <1>23 DEF Unpurge, TypeOK, manager
  <2>2. \A d \in Channels : Joiners(d)' = Joiners(d)
    BY <1>23 DEF Unpurge, TypeOK, Joiners, Joining, Channels, goroutine, Goto
  <2> QED BY <2>1, <2>2 DEF CountInv
<1>24. ASSUME NEW n \in Names, NEW a \in Accounts, SetUnregistered(n, a)
      PROVE  CountInv'
  <2>1. pendingJoins' = pendingJoins
    BY <1>24 DEF SetUnregistered, maybeCleanupInternal, IsClean, TypeOK,
          manager
  <2>2. \A d \in Channels : Joiners(d)' = Joiners(d)
    BY <1>24 DEF SetUnregistered, TypeOK, Joiners, Joining, Channels,
          goroutine, Goto
  <2> QED BY <2>1, <2>2 DEF CountInv
<1>25. ASSUME NEW n \in Names, NEW m \in Names, Rename(n, m)
      PROVE  CountInv'
  <2>1. pendingJoins' = pendingJoins
    BY <1>25 DEF Rename, TypeOK, manager
  <2>2. \A d \in Channels : Joiners(d)' = Joiners(d)
    BY <1>25 DEF Rename, TypeOK, Joiners, Joining, Channels, goroutine, Goto
  <2> QED BY <2>1, <2>2 DEF CountInv
<1>26. ASSUME NEW ch \in Channels, WriteEnd(ch)
      PROVE  CountInv'
  <2>1. pendingJoins' = pendingJoins
    BY <1>26 DEF WriteEnd, TypeOK, manager
  <2>2. \A d \in Channels : Joiners(d)' = Joiners(d)
    BY <1>26 DEF WriteEnd, TypeOK, Joiners, Joining, Channels, goroutine, Goto
  <2> QED BY <2>1, <2>2 DEF CountInv
<1>27. ASSUME NEW ch \in Channels, WriteAgain(ch)
      PROVE  CountInv'
  <2>1. pendingJoins' = pendingJoins
    BY <1>27 DEF WriteAgain, TypeOK, manager
  <2>2. \A d \in Channels : Joiners(d)' = Joiners(d)
    BY <1>27 DEF WriteAgain, TypeOK, Joiners, Joining, Channels, goroutine,
          Goto
  <2> QED BY <2>1, <2>2 DEF CountInv
<1>28. ASSUME NEW ch \in Channels, WriteCleanup(ch)
      PROVE  CountInv'
  <2>1. pendingJoins' = pendingJoins
    BY <1>28 DEF WriteCleanup, maybeCleanup, maybeCleanupInternal, IsClean,
          TypeOK, manager
  <2>2. \A d \in Channels : Joiners(d)' = Joiners(d)
    BY <1>28 DEF WriteCleanup, TypeOK, Joiners, Joining, Channels, goroutine,
          Goto
  <2> QED BY <2>1, <2>2 DEF CountInv
<1>29. ASSUME UNCHANGED vars PROVE CountInv'
  <2>1. pendingJoins' = pendingJoins
    BY <1>29 DEF vars, TypeOK, manager
  <2>2. \A d \in Channels : Joiners(d)' = Joiners(d)
    BY <1>29 DEF vars, TypeOK, Joiners, Joining, Channels, goroutine, Goto
  <2> QED BY <2>1, <2>2 DEF CountInv
<1> QED BY <1>1, <1>2, <1>3, <1>4, <1>5, <1>6, <1>7, <1>8, <1>9, <1>10, <1>11,
      <1>12,
      <1>13, <1>14, <1>15, <1>16, <1>17, <1>18, <1>19, <1>20, <1>21, <1>22, <1>23,
      <1>24, <1>25, <1>26, <1>27, <1>28, <1>29 DEF Next, Command, Step

(* Deleting a channel takes that channel, and no other, off the list.      *)
LEMMA CleanupLists ==
    ASSUME TypeOK, PlaceInv, NEW ch \in Channels, Listed(ch), NEW p, NEW r,
           maybeCleanupInternal(ch, p, r), UNCHANGED name
    PROVE  \A d \in Channels :
             Listed(d)' <=> Listed(d) /\ ~(d = ch /\ p = 0 /\ IsClean(ch, r))
<1> USE ChannelManagerAssumption
<1>1. /\ name[ch] \in Names /\ chans[name[ch]] = ch /\ ch # 0
  BY DEF TypeOK, Listed, Channels
<1>2. CASE p = 0 /\ IsClean(ch, r)
  <2>1. chans' = [chans EXCEPT ![name[ch]] = 0]
    BY <1>2 DEF maybeCleanupInternal
  <2> SUFFICES ASSUME NEW d \in Channels PROVE Listed(d)' <=> Listed(d) /\ d # ch
    BY <1>2
  <2>2. d # 0 /\ (name[d] # NoOne => name[d] \in Names)
    BY DEF TypeOK, Channels
  <2> QED BY <1>1, <2>1, <2>2 DEF Listed, TypeOK
<1>3. CASE ~(p = 0 /\ IsClean(ch, r))
  <2>1. chans' = chans
    BY <1>3 DEF maybeCleanupInternal
  <2> QED BY <1>3, <2>1 DEF Listed
<1> QED BY <1>2, <1>3

(* ... and only when nobody is in it or joining it.                        *)
LEMMA MaybeCleanupLists ==
    ASSUME TypeOK, PlaceInv, NEW ch \in 1 .. created, NEW after \in BOOLEAN,
           maybeCleanup(ch, after), UNCHANGED name
    PROVE  \A d \in Channels :
             Listed(d)' <=>
                /\ Listed(d)
                /\ ~ /\ d = ch /\ IsClean(ch, founder[ch])
                     /\ (IF after THEN pendingJoins[ch] - 1 ELSE pendingJoins[ch]) = 0
<1>1. ch \in Channels /\ name[ch] \in Names /\ name[ch] # NoOne
  BY ChannelManagerAssumption DEF TypeOK, PlaceInv, Channels
<1>2. CASE Listed(ch)
  <2>1. maybeCleanupInternal(ch,
            IF after THEN pendingJoins[ch] - 1 ELSE pendingJoins[ch], founder[ch])
    BY <1>2 DEF maybeCleanup, Listed
  <2> QED BY <1>1, <1>2, <2>1, CleanupLists
<1>3. CASE ~Listed(ch)
  <2>1. chans' = chans
    BY <1>1, <1>3 DEF maybeCleanup, Listed, manager
  <2> QED BY <1>3, <2>1 DEF Listed
<1> QED BY <1>2, <1>3

(* A channel in use stays listed.                                          *)
LEMMA NextOccupied ==
    TypeOK /\ PlaceInv /\ FreshInv /\ CountInv /\ OccupiedIsListed /\ [Next]_vars
        => OccupiedIsListed'
<1> SUFFICES ASSUME TypeOK, PlaceInv, FreshInv, CountInv, OccupiedIsListed, [Next]_vars
             PROVE  OccupiedIsListed'
  OBVIOUS
<1> USE ChannelManagerAssumption
<1>o. \A d \in Channels : members[d] # {} \/ Joiners(d) # {} => Listed(d)
  BY DEF OccupiedIsListed, Joiners
<1>q. ASSUME \A d \in Channels : members'[d] # {} \/ Joiners(d)' # {} => Listed(d)'
      PROVE  OccupiedIsListed'
  BY <1>q DEF OccupiedIsListed, Joiners
<1>1. ASSUME NEW g \in Goroutines, NEW c \in Clients, NEW n \in Names,
             JoinExisting(g, c, n)
      PROVE  OccupiedIsListed'
  <2>1. UNCHANGED <<chans, name, members>>
    BY <1>1 DEF JoinExisting, chan
  <2>2. \A d \in Channels : Listed(d)' <=> Listed(d)
    BY <2>1 DEF Listed
  <2>3. PICK ch \in 1 .. created : ch = chans[n] /\ name[ch] = n
    BY <1>1 DEF JoinExisting, PlaceInv
  <2>4. Listed(ch)
    BY <2>3 DEF Listed
  <2>5. on' = [on EXCEPT ![g] = ch] /\ pc' = [pc EXCEPT ![g] = "join"]
    BY <1>1, <2>3 DEF JoinExisting, Goto
  <2>6. \A d \in Channels : d # ch => Joiners(d)' \subseteq Joiners(d)
    BY <2>5 DEF Joiners, TypeOK
  <2>7. \A d \in Channels : members'[d] # {} \/ Joiners(d)' # {} => Listed(d)'
    BY <1>o, <2>1, <2>2, <2>4, <2>6
  <2> QED BY <1>q, <2>7
<1>2. ASSUME NEW g \in Goroutines, NEW c \in Clients, NEW n \in Names,
             JoinNew(g, c, n)
      PROVE  OccupiedIsListed'
  BY <1>2 DEF JoinNew, TypeOK, PlaceInv, FreshInv, OccupiedIsListed, Listed,
        Joining, Channels, manager, chan, client, locals, goroutine, Goto
<1>3. ASSUME NEW g \in Goroutines, NEW c \in Clients, NEW n \in Names,
             PartOrKick(g, c, n)
      PROVE  OccupiedIsListed'
  BY <1>3 DEF PartOrKick, TypeOK, PlaceInv, FreshInv, OccupiedIsListed, Listed,
        Joining, Channels, manager, chan, client, locals, goroutine, Goto
<1>4. ASSUME NEW g \in Goroutines, NEW c \in Clients, Destroy(g, c)
      PROVE  OccupiedIsListed'
  BY <1>4 DEF Destroy, TypeOK, PlaceInv, FreshInv, OccupiedIsListed, Listed,
        Joining, Channels, manager, chan, client, locals, goroutine, Goto
<1>5. ASSUME NEW g \in Goroutines, NEW n \in Names, PurgeMark(g, n)
      PROVE  OccupiedIsListed'
  <2>1. \A d \in Channels : members'[d] = members[d] /\ Joiners(d)' \subseteq Joiners(d)
    BY <1>5 DEF PurgeMark, Joiners, Joining, TypeOK, Channels, chan, goroutine,
          Goto
  <2>2. \A d \in Channels : Listed(d)' = Listed(d)
    BY <1>5 DEF PurgeMark, Listed, chan, manager
  <2> QED BY <1>o, <1>q, <2>1, <2>2
<1>6. ASSUME NEW g \in Goroutines, NEW n \in Names, NEW a \in Accounts,
             SetRegistered(g, n, a)
      PROVE  OccupiedIsListed'
  BY <1>6 DEF SetRegistered, TypeOK, PlaceInv, FreshInv, OccupiedIsListed,
        Listed, Joining, Channels, manager, chan, client, locals, goroutine,
        Goto
<1>7. ASSUME NEW g \in Goroutines, NEW ch \in Channels, MarkDirty(g, ch)
      PROVE  OccupiedIsListed'
  BY <1>7 DEF MarkDirty, TypeOK, PlaceInv, FreshInv, OccupiedIsListed, Listed,
        Joining, Channels, manager, chan, client, locals, goroutine, Goto
<1>8. ASSUME NEW g \in Goroutines, JoinCheck(g)
      PROVE  OccupiedIsListed'
  BY <1>8 DEF JoinCheck, TypeOK, PlaceInv, FreshInv, OccupiedIsListed, Listed,
        Joining, Channels, manager, chan, client, locals, goroutine, Goto
<1>9. ASSUME NEW g \in Goroutines, AddChannel(g)
      PROVE  OccupiedIsListed'
  BY <1>9 DEF AddChannel, TypeOK, PlaceInv, FreshInv, OccupiedIsListed, Listed,
        Joining, Channels, manager, chan, client, locals, goroutine, Goto
<1>10. ASSUME NEW g \in Goroutines, AddMember(g)
      PROVE  OccupiedIsListed'
  BY <1>10 DEF AddMember, TypeOK, PlaceInv, FreshInv, OccupiedIsListed, Listed,
        Joining, Channels, manager, chan, client, locals, goroutine, Goto
<1>11. ASSUME NEW g \in Goroutines, JoinDone(g)
      PROVE  OccupiedIsListed'
  <2>1. \A d \in Channels : members'[d] = members[d] /\ Joiners(d)' \subseteq Joiners(d)
    BY <1>11 DEF JoinDone, Joiners, Joining, TypeOK, Channels, chan, Goto
  <2>2. PICK ch \in 1 .. created : ch = on[g] /\ ch \in Channels
    BY <1>11, Places DEF JoinDone
  <2>3. maybeCleanup(ch, TRUE) /\ name' = name
    BY <1>11, <2>2 DEF JoinDone, chan
  <2>4. Listed(ch)
    BY <1>11, <2>2 DEF JoinDone, OccupiedIsListed, Joining
  <2>5. pendingJoins'[ch] = pendingJoins[ch] - 1
    BY <2>2, <2>3, <2>4 DEF maybeCleanup, maybeCleanupInternal, Listed, TypeOK
  <2>6. pendingJoins'[ch] = Cardinality(Joiners(ch)') /\ IsFiniteSet(Joiners(ch)')
    <3>1. CountInv'
      BY NextCount
    <3>2. IsFiniteSet(Joiners(ch)')
      BY FS_Subset DEF Joiners
    <3> QED BY <2>2, <3>1, <3>2 DEF CountInv
  <2>7. pendingJoins[ch] - 1 = 0 => Joiners(ch)' = {}
    BY <2>5, <2>6, FS_EmptySet
  <2>8. \A d \in Channels :
           Listed(d) /\ (members[d] # {} \/ Joiners(d)' # {}) => Listed(d)'
    BY <2>2, <2>3, <2>7, MaybeCleanupLists DEF IsClean
  <2> QED BY <1>o, <1>q, <2>1, <2>8
<1>12. ASSUME NEW g \in Goroutines, CopyMembers(g)
      PROVE  OccupiedIsListed'
  BY <1>12 DEF CopyMembers, TypeOK, PlaceInv, FreshInv, OccupiedIsListed,
        Listed, Joining, Channels, manager, chan, client, locals, goroutine,
        Goto
<1>13. ASSUME NEW g \in Goroutines, StoreCache(g)
      PROVE  OccupiedIsListed'
  BY <1>13 DEF StoreCache, TypeOK, PlaceInv, FreshInv, OccupiedIsListed,
        Listed, Joining, Channels, manager, chan, client, locals, goroutine,
        Goto
<1>14. ASSUME NEW g \in Goroutines, ListChannels(g)
      PROVE  OccupiedIsListed'
  BY <1>14 DEF ListChannels, TypeOK, PlaceInv, FreshInv, OccupiedIsListed,
        Listed, Joining, Channels, manager, chan, client, locals, goroutine,
        Goto
<1>15. ASSUME NEW g \in Goroutines, LeaveNext(g)
      PROVE  OccupiedIsListed'
  BY <1>15 DEF LeaveNext, TypeOK, PlaceInv, FreshInv, OccupiedIsListed, Listed,
        Joining, Channels, manager, chan, client, locals, goroutine, Goto
<1>16. ASSUME NEW g \in Goroutines, RemoveMember(g)
      PROVE  OccupiedIsListed'
  BY <1>16 DEF RemoveMember, TypeOK, PlaceInv, FreshInv, OccupiedIsListed,
        Listed, Joining, Channels, manager, chan, client, locals, goroutine,
        Goto
<1>17. ASSUME NEW g \in Goroutines, Cleanup(g)
      PROVE  OccupiedIsListed'
  <2>1. \A d \in Channels : members'[d] = members[d] /\ Joiners(d)' \subseteq Joiners(d)
    BY <1>17 DEF Cleanup, Joiners, Joining, TypeOK, Channels, chan, goroutine,
          Goto
  <2>2. \A d \in Channels :
           Listed(d) /\ (members[d] # {} \/ Joiners(d) # {}) => Listed(d)'
    <3>1. on[g] \in 1 .. created
      BY <1>17, Places DEF Cleanup
    <3>2. maybeCleanup(on[g], FALSE) /\ name' = name
      BY <1>17 DEF Cleanup, chan
    <3> QED BY <3>1, <3>2, MaybeCleanupLists, JoinerCounted DEF IsClean
  <2> QED BY <1>o, <1>q, <2>1, <2>2
<1>18. ASSUME NEW g \in Goroutines, RemoveChannel(g)
      PROVE  OccupiedIsListed'
  BY <1>18 DEF RemoveChannel, TypeOK, PlaceInv, FreshInv, OccupiedIsListed,
        Listed, Joining, Channels, manager, chan, client, locals, goroutine,
        Goto
<1>19. ASSUME NEW g \in Goroutines, PurgeChannel(g)
      PROVE  OccupiedIsListed'
  BY <1>19 DEF PurgeChannel, TypeOK, PlaceInv, FreshInv, OccupiedIsListed,
        Listed, Joining, Channels, manager, chan, client, locals, goroutine,
        Goto
<1>20. ASSUME NEW g \in Goroutines, PurgeTell(g)
      PROVE  OccupiedIsListed'
  <2>1. \A d \in Channels : members'[d] = members[d] /\ Joiners(d)' \subseteq Joiners(d)
    BY <1>20 DEF PurgeTell, Joiners, Joining, TypeOK, Channels, chan,
          goroutine, Goto
  <2>2. \A d \in Channels : Listed(d)' = Listed(d)
    BY <1>20 DEF PurgeTell, Listed, chan, manager
  <2> QED BY <1>o, <1>q, <2>1, <2>2
<1>21. ASSUME NEW g \in Goroutines, Store(g)
      PROVE  OccupiedIsListed'
  BY <1>21 DEF Store, TypeOK, PlaceInv, FreshInv, OccupiedIsListed, Listed,
        Joining, Channels, manager, chan, client, locals, goroutine, Goto
<1>22. ASSUME NEW g \in Goroutines, wakeWriter(g)
      PROVE  OccupiedIsListed'
  BY <1>22 DEF wakeWriter, TypeOK, PlaceInv, FreshInv, OccupiedIsListed,
        Listed, Joining, Channels, manager, chan, client, locals, goroutine,
        Goto
<1>23. ASSUME NEW n \in Names, Unpurge(n)
      PROVE  OccupiedIsListed'
  BY <1>23 DEF Unpurge, TypeOK, PlaceInv, FreshInv, OccupiedIsListed, Listed,
        Joining, Channels, manager, chan, client, locals, goroutine, Goto
<1>24. ASSUME NEW n \in Names, NEW a \in Accounts, SetUnregistered(n, a)
      PROVE  OccupiedIsListed'
  <2>1. \A d \in Channels : members'[d] = members[d] /\ Joiners(d)' \subseteq Joiners(d)
    BY <1>24 DEF SetUnregistered, Joiners, Joining, TypeOK, Channels, chan,
          goroutine, Goto
  <2>2. \A d \in Channels :
           Listed(d) /\ (members[d] # {} \/ Joiners(d) # {}) => Listed(d)'
    <3>1. PICK ch \in Channels : ch = chans[n] /\ Listed(ch)
      BY <1>24, Places DEF SetUnregistered, PlaceInv, Listed
    <3>2. maybeCleanupInternal(ch, pendingJoins[ch], NoOne) /\ name' = name
      BY <1>24, <3>1 DEF SetUnregistered
    <3> QED BY <3>1, <3>2, CleanupLists, JoinerCounted DEF IsClean
  <2> QED BY <1>o, <1>q, <2>1, <2>2
<1>25. ASSUME NEW n \in Names, NEW m \in Names, Rename(n, m)
      PROVE  OccupiedIsListed'
  <2>1. \A d \in Channels : members'[d] = members[d] /\ Joiners(d)' \subseteq Joiners(d)
    BY <1>25 DEF Rename, Joiners, Joining, TypeOK, Channels, chan, goroutine,
          Goto
  <2>2. \A d \in Channels : Listed(d) => Listed(d)'
    <3>1. PICK ch \in 1 .. created : ch = chans[n]
      BY <1>25 DEF Rename, PlaceInv
    <3>2. /\ chans' = [chans EXCEPT ![n] = 0, ![m] = ch] /\ name' = [name EXCEPT ![ch] = m]
          /\ n # m /\ chans[m] = 0 /\ ch \in Channels
      BY <1>25, <3>1 DEF Rename, Channels, TypeOK
    <3> SUFFICES ASSUME NEW d \in Channels, Listed(d) PROVE Listed(d)'
      OBVIOUS
    <3>3. d # 0 /\ name[d] \in Names /\ chans[name[d]] = d
      BY DEF Channels, Listed, TypeOK
    <3>4. CASE d = ch
      BY <3>2, <3>4 DEF Listed, TypeOK
    <3>5. CASE d # ch
      <4>1. name[d] # n /\ name[d] # m
        BY <3>1, <3>2, <3>3, <3>5
      <4> QED BY <3>2, <3>3, <3>5, <4>1 DEF Listed, TypeOK
    <3> QED BY <3>4, <3>5
  <2> QED BY <1>o, <1>q, <2>1, <2>2
<1>26. ASSUME NEW ch \in Channels, WriteEnd(ch)
      PROVE  OccupiedIsListed'
  BY <1>26 DEF WriteEnd, TypeOK, PlaceInv, FreshInv, OccupiedIsListed, Listed,
        Joining, Channels, manager, chan, client, locals, goroutine, Goto
<1>27. ASSUME NEW ch \in Channels, WriteAgain(ch)
      PROVE  OccupiedIsListed'
  BY <1>27 DEF WriteAgain, TypeOK, PlaceInv, FreshInv, OccupiedIsListed,
        Listed, Joining, Channels, manager, chan, client, locals, goroutine,
        Goto
<1>28. ASSUME NEW ch \in Channels, WriteCleanup(ch)
      PROVE  OccupiedIsListed'
  <2>1. \A d \in Channels : members'[d] = members[d] /\ Joiners(d)' \subseteq Joiners(d)
    BY <1>28 DEF WriteCleanup, Joiners, Joining, TypeOK, Channels, chan,
          goroutine, Goto
  <2>2. \A d \in Channels :
           Listed(d) /\ (members[d] # {} \/ Joiners(d) # {}) => Listed(d)'
    <3>1. CASE UNCHANGED manager
      BY <1>28, <3>1 DEF WriteCleanup, manager, Listed
    <3>2. CASE maybeCleanup(ch, FALSE) /\ ch \in 1 .. created
      BY <1>28, <3>2, MaybeCleanupLists, JoinerCounted DEF WriteCleanup,
            IsClean
    <3>3. CASE ch \notin 1 .. created
      <4>1. ch > created
        BY <3>3 DEF Channels, TypeOK
      <4> QED BY <1>28, <4>1 DEF WriteCleanup, FreshInv
    <3> QED BY <1>28, <3>1, <3>2, <3>3 DEF WriteCleanup
  <2> QED BY <1>o, <1>q, <2>1, <2>2
<1>29. ASSUME UNCHANGED vars PROVE OccupiedIsListed'
  BY <1>29 DEF vars, TypeOK, PlaceInv, FreshInv, OccupiedIsListed, Listed,
        Joining, Channels, manager, chan, client, locals, goroutine, Goto
<1> QED BY <1>1, <1>2, <1>3, <1>4, <1>5, <1>6, <1>7, <1>8, <1>9, <1>10, <1>11,
      <1>12,
      <1>13, <1>14, <1>15, <1>16, <1>17, <1>18, <1>19, <1>20, <1>21, <1>22, <1>23,
      <1>24, <1>25, <1>26, <1>27, <1>28, <1>29 DEF Next, Command, Step

(* The member cache stays fresh.                                           *)
LEMMA NextCache ==
    TypeOK /\ PlaceInv /\ FreshInv /\ CacheInv /\ CacheIsFresh /\ [Next]_vars
        => CacheInv' /\ CacheIsFresh'
<1> SUFFICES ASSUME TypeOK, PlaceInv, FreshInv, CacheInv, CacheIsFresh, [Next]_vars
             PROVE  CacheInv' /\ CacheIsFresh'
  OBVIOUS
<1> USE ChannelManagerAssumption
<1>1. ASSUME NEW g \in Goroutines, NEW c \in Clients, NEW n \in Names,
             JoinExisting(g, c, n)
      PROVE  CacheInv' /\ CacheIsFresh'
  BY <1>1 DEF JoinExisting, TypeOK, PlaceInv, FreshInv, CacheInv, CacheIsFresh,
        Channels, manager, chan, client, locals, goroutine, Goto
<1>2. ASSUME NEW g \in Goroutines, NEW c \in Clients, NEW n \in Names,
             JoinNew(g, c, n)
      PROVE  CacheInv' /\ CacheIsFresh'
  BY <1>2 DEF JoinNew, TypeOK, PlaceInv, FreshInv, CacheInv, CacheIsFresh,
        Channels, manager, chan, client, locals, goroutine, Goto
<1>3. ASSUME NEW g \in Goroutines, NEW c \in Clients, NEW n \in Names,
             PartOrKick(g, c, n)
      PROVE  CacheInv' /\ CacheIsFresh'
  BY <1>3 DEF PartOrKick, TypeOK, PlaceInv, FreshInv, CacheInv, CacheIsFresh,
        Channels, manager, chan, client, locals, goroutine, Goto
<1>4. ASSUME NEW g \in Goroutines, NEW c \in Clients, Destroy(g, c)
      PROVE  CacheInv' /\ CacheIsFresh'
  BY <1>4 DEF Destroy, TypeOK, PlaceInv, FreshInv, CacheInv, CacheIsFresh,
        Channels, manager, chan, client, locals, goroutine, Goto
<1>5. ASSUME NEW g \in Goroutines, NEW n \in Names, PurgeMark(g, n)
      PROVE  CacheInv' /\ CacheIsFresh'
  BY <1>5 DEF PurgeMark, TypeOK, PlaceInv, FreshInv, CacheInv, CacheIsFresh,
        Channels, manager, chan, client, locals, goroutine, Goto
<1>6. ASSUME NEW g \in Goroutines, NEW n \in Names, NEW a \in Accounts,
             SetRegistered(g, n, a)
      PROVE  CacheInv' /\ CacheIsFresh'
  BY <1>6 DEF SetRegistered, TypeOK, PlaceInv, FreshInv, CacheInv,
        CacheIsFresh, Channels, manager, chan, client, locals, goroutine, Goto
<1>7. ASSUME NEW g \in Goroutines, NEW ch \in Channels, MarkDirty(g, ch)
      PROVE  CacheInv' /\ CacheIsFresh'
  BY <1>7 DEF MarkDirty, TypeOK, PlaceInv, FreshInv, CacheInv, CacheIsFresh,
        Channels, manager, chan, client, locals, goroutine, Goto
<1>8. ASSUME NEW g \in Goroutines, JoinCheck(g)
      PROVE  CacheInv' /\ CacheIsFresh'
  BY <1>8 DEF JoinCheck, TypeOK, PlaceInv, FreshInv, CacheInv, CacheIsFresh,
        Channels, manager, chan, client, locals, goroutine, Goto
<1>9. ASSUME NEW g \in Goroutines, AddChannel(g)
      PROVE  CacheInv' /\ CacheIsFresh'
  BY <1>9 DEF AddChannel, TypeOK, PlaceInv, FreshInv, CacheInv, CacheIsFresh,
        Channels, manager, chan, client, locals, goroutine, Goto
<1>10. ASSUME NEW g \in Goroutines, AddMember(g)
      PROVE  CacheInv' /\ CacheIsFresh'
  <2>1. PICK ch \in Channels : ch = on[g] /\ ch \in 1 .. created
    BY <1>10, Places DEF AddMember
  <2>2. /\ joinPartMutex[ch] = NoOne /\ joinPartMutex' = [joinPartMutex EXCEPT ![ch] = g]
        /\ pc' = [pc EXCEPT ![g] = "joinCopy"] /\ on' = on /\ copy' = copy
        /\ membersCache' = membersCache /\ wasPurged' = wasPurged
        /\ \A d \in Channels : d # ch => members'[d] = members[d]
    BY <1>10, <2>1 DEF AddMember, Goto, TypeOK, locals
  <2>3. g # NoOne /\ \A h \in Goroutines : h # NoOne
    OBVIOUS
  <2>4. \A h \in Goroutines : pc[h] \in {"joinCopy", "joinStore", "quitCopy", "quitStore"} => on[h] # ch /\ on[h] \in Channels
    BY <2>2, <2>3, Places DEF CacheInv
  <2>5. CacheInv'
    BY <2>1, <2>2, <2>4 DEF CacheInv, TypeOK
  <2>6. CacheIsFresh'
    BY <2>1, <2>2, <2>3 DEF CacheIsFresh, TypeOK
  <2> QED BY <2>5, <2>6
<1>11. ASSUME NEW g \in Goroutines, JoinDone(g)
      PROVE  CacheInv' /\ CacheIsFresh'
  BY <1>11 DEF JoinDone, maybeCleanup, maybeCleanupInternal, IsClean, TypeOK,
        PlaceInv, FreshInv, CacheInv, CacheIsFresh, Channels, manager, chan,
        client, locals, goroutine, Goto
<1>12. ASSUME NEW g \in Goroutines, CopyMembers(g)
      PROVE  CacheInv' /\ CacheIsFresh'
  BY <1>12 DEF CopyMembers, TypeOK, PlaceInv, FreshInv, CacheInv, CacheIsFresh,
        Channels, manager, chan, client, locals, goroutine, Goto
<1>13. ASSUME NEW g \in Goroutines, StoreCache(g)
      PROVE  CacheInv' /\ CacheIsFresh'
  BY <1>13 DEF StoreCache, TypeOK, PlaceInv, FreshInv, CacheInv, CacheIsFresh,
        Channels, manager, chan, client, locals, goroutine, Goto
<1>14. ASSUME NEW g \in Goroutines, ListChannels(g)
      PROVE  CacheInv' /\ CacheIsFresh'
  BY <1>14 DEF ListChannels, TypeOK, PlaceInv, FreshInv, CacheInv,
        CacheIsFresh, Channels, manager, chan, client, locals, goroutine, Goto
<1>15. ASSUME NEW g \in Goroutines, LeaveNext(g)
      PROVE  CacheInv' /\ CacheIsFresh'
  BY <1>15 DEF LeaveNext, TypeOK, PlaceInv, FreshInv, CacheInv, CacheIsFresh,
        Channels, manager, chan, client, locals, goroutine, Goto
<1>16. ASSUME NEW g \in Goroutines, RemoveMember(g)
      PROVE  CacheInv' /\ CacheIsFresh'
  <2>1. PICK ch \in Channels : ch = on[g] /\ ch \in 1 .. created
    BY <1>16, Places DEF RemoveMember
  <2>2. /\ joinPartMutex[ch] = NoOne /\ joinPartMutex' = [joinPartMutex EXCEPT ![ch] = g]
        /\ pc' = [pc EXCEPT ![g] = "quitCopy"] /\ on' = on /\ copy' = copy
        /\ membersCache' = membersCache /\ wasPurged' = wasPurged
        /\ \A d \in Channels : d # ch => members'[d] = members[d]
    BY <1>16, <2>1 DEF RemoveMember, Goto, TypeOK, locals
  <2>3. g # NoOne /\ \A h \in Goroutines : h # NoOne
    OBVIOUS
  <2>4. \A h \in Goroutines : pc[h] \in {"joinCopy", "joinStore", "quitCopy", "quitStore"} => on[h] # ch /\ on[h] \in Channels
    BY <2>2, <2>3, Places DEF CacheInv
  <2>5. CacheInv'
    BY <2>1, <2>2, <2>4 DEF CacheInv, TypeOK
  <2>6. CacheIsFresh'
    BY <2>1, <2>2, <2>3 DEF CacheIsFresh, TypeOK
  <2> QED BY <2>5, <2>6
<1>17. ASSUME NEW g \in Goroutines, Cleanup(g)
      PROVE  CacheInv' /\ CacheIsFresh'
  BY <1>17 DEF Cleanup, maybeCleanup, maybeCleanupInternal, IsClean, TypeOK,
        PlaceInv, FreshInv, CacheInv, CacheIsFresh, Channels, manager, chan,
        client, locals, goroutine, Goto
<1>18. ASSUME NEW g \in Goroutines, RemoveChannel(g)
      PROVE  CacheInv' /\ CacheIsFresh'
  BY <1>18 DEF RemoveChannel, TypeOK, PlaceInv, FreshInv, CacheInv,
        CacheIsFresh, Channels, manager, chan, client, locals, goroutine, Goto
<1>19. ASSUME NEW g \in Goroutines, PurgeChannel(g)
      PROVE  CacheInv' /\ CacheIsFresh'
  BY <1>19 DEF PurgeChannel, TypeOK, PlaceInv, FreshInv, CacheInv,
        CacheIsFresh, Channels, manager, chan, client, locals, goroutine, Goto
<1>20. ASSUME NEW g \in Goroutines, PurgeTell(g)
      PROVE  CacheInv' /\ CacheIsFresh'
  <2>1. UNCHANGED <<joinPartMutex, members, membersCache, copy, wasPurged>>
    BY <1>20 DEF PurgeTell, chan
  <2>2. \A h \in Goroutines :
           pc'[h] \in {"joinCopy", "joinStore", "quitCopy", "quitStore"} =>
               pc'[h] = pc[h] /\ on'[h] = on[h]
    BY <1>20 DEF PurgeTell, TypeOK, Goto
  <2> QED BY <2>1, <2>2 DEF CacheInv, CacheIsFresh
<1>21. ASSUME NEW g \in Goroutines, Store(g)
      PROVE  CacheInv' /\ CacheIsFresh'
  BY <1>21 DEF Store, TypeOK, PlaceInv, FreshInv, CacheInv, CacheIsFresh,
        Channels, manager, chan, client, locals, goroutine, Goto
<1>22. ASSUME NEW g \in Goroutines, wakeWriter(g)
      PROVE  CacheInv' /\ CacheIsFresh'
  BY <1>22 DEF wakeWriter, TypeOK, PlaceInv, FreshInv, CacheInv, CacheIsFresh,
        Channels, manager, chan, client, locals, goroutine, Goto
<1>23. ASSUME NEW n \in Names, Unpurge(n)
      PROVE  CacheInv' /\ CacheIsFresh'
  BY <1>23 DEF Unpurge, TypeOK, PlaceInv, FreshInv, CacheInv, CacheIsFresh,
        Channels, manager, chan, client, locals, goroutine, Goto
<1>24. ASSUME NEW n \in Names, NEW a \in Accounts, SetUnregistered(n, a)
      PROVE  CacheInv' /\ CacheIsFresh'
  BY <1>24 DEF SetUnregistered, maybeCleanupInternal, IsClean, TypeOK,
        PlaceInv, FreshInv, CacheInv, CacheIsFresh, Channels, manager, chan,
        client, locals, goroutine, Goto
<1>25. ASSUME NEW n \in Names, NEW m \in Names, Rename(n, m)
      PROVE  CacheInv' /\ CacheIsFresh'
  BY <1>25 DEF Rename, TypeOK, PlaceInv, FreshInv, CacheInv, CacheIsFresh,
        Channels, manager, chan, client, locals, goroutine, Goto
<1>26. ASSUME NEW ch \in Channels, WriteEnd(ch)
      PROVE  CacheInv' /\ CacheIsFresh'
  BY <1>26 DEF WriteEnd, TypeOK, PlaceInv, FreshInv, CacheInv, CacheIsFresh,
        Channels, manager, chan, client, locals, goroutine, Goto
<1>27. ASSUME NEW ch \in Channels, WriteAgain(ch)
      PROVE  CacheInv' /\ CacheIsFresh'
  BY <1>27 DEF WriteAgain, TypeOK, PlaceInv, FreshInv, CacheInv, CacheIsFresh,
        Channels, manager, chan, client, locals, goroutine, Goto
<1>28. ASSUME NEW ch \in Channels, WriteCleanup(ch)
      PROVE  CacheInv' /\ CacheIsFresh'
  BY <1>28 DEF WriteCleanup, maybeCleanup, maybeCleanupInternal, IsClean,
        TypeOK, PlaceInv, FreshInv, CacheInv, CacheIsFresh, Channels, manager,
        chan, client, locals, goroutine, Goto
<1>29. ASSUME UNCHANGED vars PROVE CacheInv' /\ CacheIsFresh'
  BY <1>29 DEF vars, TypeOK, PlaceInv, FreshInv, CacheInv, CacheIsFresh,
        Channels, manager, chan, client, locals, goroutine, Goto
<1> QED BY <1>1, <1>2, <1>3, <1>4, <1>5, <1>6, <1>7, <1>8, <1>9, <1>10, <1>11,
      <1>12,
      <1>13, <1>14, <1>15, <1>16, <1>17, <1>18, <1>19, <1>20, <1>21, <1>22, <1>23,
      <1>24, <1>25, <1>26, <1>27, <1>28, <1>29 DEF Next, Command, Step

(* A channel nobody needs has somebody who will delete it.                 *)
LEMMA NextCleanup ==
    TypeOK /\ PlaceInv /\ FreshInv /\ CountInv /\ OccupiedIsListed /\ CleanupInv /\ [Next]_vars
        => CleanupInv'
<1> SUFFICES ASSUME TypeOK, PlaceInv, FreshInv, CountInv, OccupiedIsListed, CleanupInv, [Next]_vars
             PROVE  CleanupInv'
  OBVIOUS
<1> USE ChannelManagerAssumption
<1>f. ASSUME created' = created,
             \A d \in 1 .. created : Unneeded(d)' => Unneeded(d),
             \A d \in 1 .. created, h \in Goroutines : Cleaning(h, d) => Cleaning(h, d)',
             \A d \in 1 .. created : writing[d] # {} => writing'[d] # {}
      PROVE  CleanupInv'
  BY <1>f DEF CleanupInv
<1>k. 1 .. created \subseteq Channels /\ 0 \notin 1 .. created
  BY DEF TypeOK, Channels
<1>w. ASSUME NEW ch \in Channels, created' = created,
             \A d \in 1 .. created : d # ch /\ Unneeded(d)' => Unneeded(d),
             \A d \in 1 .. created, h \in Goroutines :
                 d # ch /\ Cleaning(h, d) => Cleaning(h, d)',
             \A d \in 1 .. created : d # ch => writing'[d] = writing[d],
             Unneeded(ch)' => writing'[ch] # {} \/ \E h \in Goroutines : Cleaning(h, ch)'
      PROVE  CleanupInv'
  BY <1>w DEF CleanupInv
<1>1. ASSUME NEW g \in Goroutines, NEW c \in Clients, NEW n \in Names,
             JoinExisting(g, c, n)
      PROVE  CleanupInv'
  <2>1. \A d \in 1 .. created : Unneeded(d)' => Unneeded(d)
    BY <1>1, <1>k DEF JoinExisting, Unneeded, Listed, TypeOK, manager, chan
  <2>2. \A d \in 1 .. created, h \in Goroutines : Cleaning(h, d) => Cleaning(h, d)'
    BY <1>1, <1>k DEF JoinExisting, TypeOK, Cleaning, Joining, locals,
          goroutine, Goto
  <2>3. created' = created /\ \A d \in 1 .. created : writing[d] # {} => writing'[d] # {}
    BY <1>1, <1>k DEF JoinExisting, TypeOK, chan
  <2> QED BY <1>f, <2>1, <2>2, <2>3
<1>2. ASSUME NEW g \in Goroutines, NEW c \in Clients, NEW n \in Names,
             JoinNew(g, c, n)
      PROVE  CleanupInv'
  <2>1. \A d \in 1 .. created : Unneeded(d)' => Unneeded(d)
    BY <1>2, <1>k DEF JoinNew, Unneeded, Listed, TypeOK, manager, chan
  <2>2. \A d \in 1 .. created, h \in Goroutines : Cleaning(h, d) => Cleaning(h, d)'
    BY <1>2, <1>k DEF JoinNew, TypeOK, Cleaning, Joining, locals, goroutine,
          Goto
  <2>3. created' = created + 1 /\ writing' = writing /\ created \in Nat
    BY <1>2 DEF JoinNew, TypeOK
  <2>4. on'[g] = created' /\ pc'[g] = "join"
    BY <1>2 DEF JoinNew, Goto, TypeOK
  <2> SUFFICES ASSUME NEW d \in 1 .. created', Unneeded(d)'
               PROVE  writing'[d] # {} \/ \E h \in Goroutines : Cleaning(h, d)'
    BY DEF CleanupInv
  <2>5. CASE d = created'
    BY <2>4, <2>5 DEF Cleaning, Joining
  <2>6. CASE d \in 1 .. created
    BY <2>1, <2>2, <2>3, <2>6 DEF CleanupInv
  <2> QED BY <2>3, <2>5, <2>6
<1>3. ASSUME NEW g \in Goroutines, NEW c \in Clients, NEW n \in Names,
             PartOrKick(g, c, n)
      PROVE  CleanupInv'
  <2>1. \A d \in 1 .. created : Unneeded(d)' => Unneeded(d)
    BY <1>3, <1>k DEF PartOrKick, Unneeded, Listed, TypeOK, manager, chan
  <2>2. \A d \in 1 .. created, h \in Goroutines : Cleaning(h, d) => Cleaning(h, d)'
    BY <1>3, <1>k DEF PartOrKick, TypeOK, Cleaning, Joining, locals, goroutine,
          Goto
  <2>3. created' = created /\ \A d \in 1 .. created : writing[d] # {} => writing'[d] # {}
    BY <1>3, <1>k DEF PartOrKick, TypeOK, chan
  <2> QED BY <1>f, <2>1, <2>2, <2>3
<1>4. ASSUME NEW g \in Goroutines, NEW c \in Clients, Destroy(g, c)
      PROVE  CleanupInv'
  <2>1. \A d \in 1 .. created : Unneeded(d)' => Unneeded(d)
    BY <1>4, <1>k DEF Destroy, Unneeded, Listed, TypeOK, manager, chan
  <2>2. \A d \in 1 .. created, h \in Goroutines : Cleaning(h, d) => Cleaning(h, d)'
    BY <1>4, <1>k DEF Destroy, TypeOK, Cleaning, Joining, locals, goroutine,
          Goto
  <2>3. created' = created /\ \A d \in 1 .. created : writing[d] # {} => writing'[d] # {}
    BY <1>4, <1>k DEF Destroy, TypeOK, chan
  <2> QED BY <1>f, <2>1, <2>2, <2>3
<1>5. ASSUME NEW g \in Goroutines, NEW n \in Names, PurgeMark(g, n)
      PROVE  CleanupInv'
  <2>1. \A d \in 1 .. created : Unneeded(d)' => Unneeded(d)
    BY <1>5, <1>k DEF PurgeMark, Unneeded, Listed, TypeOK, manager, chan
  <2>2. \A d \in 1 .. created, h \in Goroutines : Cleaning(h, d) => Cleaning(h, d)'
    BY <1>5, <1>k DEF PurgeMark, TypeOK, Cleaning, Joining, locals, goroutine,
          Goto
  <2>3. created' = created /\ \A d \in 1 .. created : writing[d] # {} => writing'[d] # {}
    BY <1>5, <1>k DEF PurgeMark, TypeOK, chan
  <2> QED BY <1>f, <2>1, <2>2, <2>3
<1>6. ASSUME NEW g \in Goroutines, NEW n \in Names, NEW a \in Accounts,
             SetRegistered(g, n, a)
      PROVE  CleanupInv'
  <2>1. \A d \in 1 .. created : Unneeded(d)' => Unneeded(d)
    BY <1>6, <1>k DEF SetRegistered, Unneeded, Listed, TypeOK, manager, chan
  <2>2. \A d \in 1 .. created, h \in Goroutines : Cleaning(h, d) => Cleaning(h, d)'
    BY <1>6, <1>k DEF SetRegistered, TypeOK, Cleaning, Joining, locals,
          goroutine, Goto
  <2>3. created' = created /\ \A d \in 1 .. created : writing[d] # {} => writing'[d] # {}
    BY <1>6, <1>k DEF SetRegistered, TypeOK, chan
  <2> QED BY <1>f, <2>1, <2>2, <2>3
<1>7. ASSUME NEW g \in Goroutines, NEW ch \in Channels, MarkDirty(g, ch)
      PROVE  CleanupInv'
  <2>1. \A d \in 1 .. created : Unneeded(d)' => Unneeded(d)
    BY <1>7, <1>k DEF MarkDirty, Unneeded, Listed, TypeOK, manager, chan
  <2>2. \A d \in 1 .. created, h \in Goroutines : Cleaning(h, d) => Cleaning(h, d)'
    BY <1>7, <1>k DEF MarkDirty, TypeOK, Cleaning, Joining, locals, goroutine,
          Goto
  <2>3. created' = created /\ \A d \in 1 .. created : writing[d] # {} => writing'[d] # {}
    BY <1>7, <1>k DEF MarkDirty, TypeOK, chan
  <2> QED BY <1>f, <2>1, <2>2, <2>3
<1>8. ASSUME NEW g \in Goroutines, JoinCheck(g)
      PROVE  CleanupInv'
  <2>1. \A d \in 1 .. created : Unneeded(d)' => Unneeded(d)
    BY <1>8, <1>k DEF JoinCheck, Unneeded, Listed, TypeOK, manager, chan
  <2>2. \A d \in 1 .. created, h \in Goroutines : Cleaning(h, d) => Cleaning(h, d)'
    BY <1>8, <1>k DEF JoinCheck, TypeOK, Cleaning, Joining, locals, goroutine,
          Goto
  <2>3. created' = created /\ \A d \in 1 .. created : writing[d] # {} => writing'[d] # {}
    BY <1>8, <1>k DEF JoinCheck, TypeOK, chan
  <2> QED BY <1>f, <2>1, <2>2, <2>3
<1>9. ASSUME NEW g \in Goroutines, AddChannel(g)
      PROVE  CleanupInv'
  <2>1. \A d \in 1 .. created : Unneeded(d)' => Unneeded(d)
    BY <1>9, <1>k DEF AddChannel, Unneeded, Listed, TypeOK, manager, chan
  <2>2. \A d \in 1 .. created, h \in Goroutines : Cleaning(h, d) => Cleaning(h, d)'
    BY <1>9, <1>k DEF AddChannel, TypeOK, Cleaning, Joining, locals, goroutine,
          Goto
  <2>3. created' = created /\ \A d \in 1 .. created : writing[d] # {} => writing'[d] # {}
    BY <1>9, <1>k DEF AddChannel, TypeOK, chan
  <2> QED BY <1>f, <2>1, <2>2, <2>3
<1>10. ASSUME NEW g \in Goroutines, AddMember(g)
      PROVE  CleanupInv'
  <2>1. \A d \in 1 .. created : Unneeded(d)' => Unneeded(d)
    BY <1>10, <1>k DEF AddMember, Unneeded, Listed, TypeOK, manager, chan
  <2>2. \A d \in 1 .. created, h \in Goroutines : Cleaning(h, d) => Cleaning(h, d)'
    BY <1>10, <1>k DEF AddMember, TypeOK, Cleaning, Joining, locals, goroutine,
          Goto
  <2>3. created' = created /\ \A d \in 1 .. created : writing[d] # {} => writing'[d] # {}
    BY <1>10, <1>k DEF AddMember, TypeOK, chan
  <2> QED BY <1>f, <2>1, <2>2, <2>3
<1>11. ASSUME NEW g \in Goroutines, JoinDone(g)
      PROVE  CleanupInv'
  <2>1. PICK ch \in Channels : ch = on[g] /\ ch \in 1 .. created
    BY <1>11, Places DEF JoinDone
  <2>2. /\ created' = created
        /\ \A d \in 1 .. created : d # ch => writing'[d] = writing[d]
    BY <1>11, <1>k, <2>1 DEF JoinDone, TypeOK, chan
  <2>3. \A d \in 1 .. created : d # ch /\ Unneeded(d)' => Unneeded(d)
    <3>1. \A d \in Channels : Listed(d)' => Listed(d)
      BY <1>11, <2>1, MaybeCleanupLists DEF JoinDone, chan
    <3> QED BY <1>11, <1>k, <3>1 DEF JoinDone, Unneeded, chan
  <2>4. \A d \in 1 .. created, h \in Goroutines :
           d # ch /\ Cleaning(h, d) => Cleaning(h, d)'
    BY <1>11, <1>k, <2>1 DEF JoinDone, Cleaning, Joining, TypeOK, locals,
          goroutine, Goto
  <2>5. Unneeded(ch)' => writing'[ch] # {} \/ \E h \in Goroutines : Cleaning(h, ch)'
    <3> SUFFICES ASSUME Unneeded(ch)', writing[ch] = {}
                 PROVE  \E h \in Goroutines : Cleaning(h, ch)'
      BY <1>11 DEF JoinDone, chan
    <3>1. Listed(ch)' /\ IsClean(ch, founder[ch])
      BY <1>11 DEF JoinDone, Unneeded, IsClean, chan
    <3>2. pendingJoins[ch] - 1 # 0 /\ Listed(ch)
      BY <1>11, <2>1, <3>1, MaybeCleanupLists DEF JoinDone, chan
    <3>3. pendingJoins'[ch] = pendingJoins[ch] - 1
      BY <1>11, <2>1, <3>2 DEF JoinDone, maybeCleanup, maybeCleanupInternal,
            Listed, TypeOK
    <3>4. CountInv'
      BY NextCount
    <3>5. Joiners(ch)' # {}
      BY <3>2, <3>3, <3>4, FS_EmptySet DEF CountInv
    <3> QED BY <3>5 DEF Joiners, Cleaning
  <2> QED BY <1>w, <2>2, <2>3, <2>4, <2>5
<1>12. ASSUME NEW g \in Goroutines, CopyMembers(g)
      PROVE  CleanupInv'
  <2>1. \A d \in 1 .. created : Unneeded(d)' => Unneeded(d)
    BY <1>12, <1>k DEF CopyMembers, Unneeded, Listed, TypeOK, manager, chan
  <2>2. \A d \in 1 .. created, h \in Goroutines : Cleaning(h, d) => Cleaning(h, d)'
    BY <1>12, <1>k DEF CopyMembers, TypeOK, Cleaning, Joining, locals,
          goroutine, Goto
  <2>3. created' = created /\ \A d \in 1 .. created : writing[d] # {} => writing'[d] # {}
    BY <1>12, <1>k DEF CopyMembers, TypeOK, chan
  <2> QED BY <1>f, <2>1, <2>2, <2>3
<1>13. ASSUME NEW g \in Goroutines, StoreCache(g)
      PROVE  CleanupInv'
  <2>1. \A d \in 1 .. created : Unneeded(d)' => Unneeded(d)
    BY <1>13, <1>k DEF StoreCache, Unneeded, Listed, TypeOK, manager, chan
  <2>2. \A d \in 1 .. created, h \in Goroutines : Cleaning(h, d) => Cleaning(h, d)'
    BY <1>13, <1>k DEF StoreCache, TypeOK, Cleaning, Joining, locals,
          goroutine, Goto
  <2>3. created' = created /\ \A d \in 1 .. created : writing[d] # {} => writing'[d] # {}
    BY <1>13, <1>k DEF StoreCache, TypeOK, chan
  <2> QED BY <1>f, <2>1, <2>2, <2>3
<1>14. ASSUME NEW g \in Goroutines, ListChannels(g)
      PROVE  CleanupInv'
  <2>1. \A d \in 1 .. created : Unneeded(d)' => Unneeded(d)
    BY <1>14, <1>k DEF ListChannels, Unneeded, Listed, TypeOK, manager, chan
  <2>2. \A d \in 1 .. created, h \in Goroutines : Cleaning(h, d) => Cleaning(h, d)'
    BY <1>14, <1>k DEF ListChannels, TypeOK, Cleaning, Joining, locals,
          goroutine, Goto
  <2>3. created' = created /\ \A d \in 1 .. created : writing[d] # {} => writing'[d] # {}
    BY <1>14, <1>k DEF ListChannels, TypeOK, chan
  <2> QED BY <1>f, <2>1, <2>2, <2>3
<1>15. ASSUME NEW g \in Goroutines, LeaveNext(g)
      PROVE  CleanupInv'
  <2>1. \A d \in 1 .. created : Unneeded(d)' => Unneeded(d)
    BY <1>15, <1>k DEF LeaveNext, Unneeded, Listed, TypeOK, manager, chan
  <2>2. \A d \in 1 .. created, h \in Goroutines : Cleaning(h, d) => Cleaning(h, d)'
    BY <1>15, <1>k DEF LeaveNext, TypeOK, Cleaning, Joining, locals, goroutine,
          Goto
  <2>3. created' = created /\ \A d \in 1 .. created : writing[d] # {} => writing'[d] # {}
    BY <1>15, <1>k DEF LeaveNext, TypeOK, chan
  <2> QED BY <1>f, <2>1, <2>2, <2>3
<1>16. ASSUME NEW g \in Goroutines, RemoveMember(g)
      PROVE  CleanupInv'
  <2>1. PICK ch \in Channels : ch = on[g] /\ ch \in 1 .. created
    BY <1>16, Places DEF RemoveMember
  <2>2. /\ created' = created
        /\ \A d \in 1 .. created : d # ch => writing'[d] = writing[d]
    BY <1>16, <1>k, <2>1 DEF RemoveMember, TypeOK, chan
  <2>3. \A d \in 1 .. created : d # ch /\ Unneeded(d)' => Unneeded(d)
    BY <1>16, <1>k, <2>1 DEF RemoveMember, Unneeded, Listed, TypeOK, manager,
          chan
  <2>4. \A d \in 1 .. created, h \in Goroutines :
           d # ch /\ Cleaning(h, d) => Cleaning(h, d)'
    BY <1>16, <1>k, <2>1 DEF RemoveMember, Cleaning, Joining, TypeOK, locals,
          goroutine, Goto
  <2>5. Unneeded(ch)' => writing'[ch] # {} \/ \E h \in Goroutines : Cleaning(h, ch)'
    <3>1. members'[ch] = members[ch] \ {who[g]}
      BY <1>16, <2>1 DEF RemoveMember, TypeOK
    <3>2. channelEmpty'[g] = (members[ch] \subseteq {who[g]})
      BY <1>16, <2>1 DEF RemoveMember, TypeOK
    <3>3. pc'[g] = "quitCopy" /\ on'[g] = ch
      BY <1>16, <2>1 DEF RemoveMember, TypeOK, Goto
    <3>4. members'[ch] = {} => channelEmpty'[g]
      BY <3>1, <3>2
    <3> QED BY <3>3, <3>4 DEF Unneeded, Cleaning
  <2> QED BY <1>w, <2>2, <2>3, <2>4, <2>5
<1>17. ASSUME NEW g \in Goroutines, Cleanup(g)
      PROVE  CleanupInv'
  <2>1. PICK ch \in Channels : ch = on[g] /\ ch \in 1 .. created
    BY <1>17, Places DEF Cleanup
  <2>2. /\ created' = created
        /\ \A d \in 1 .. created : d # ch => writing'[d] = writing[d]
    BY <1>17, <1>k, <2>1 DEF Cleanup, TypeOK, chan
  <2>3. \A d \in 1 .. created : d # ch /\ Unneeded(d)' => Unneeded(d)
    <3>1. \A d \in Channels : Listed(d)' => Listed(d)
      BY <1>17, <2>1, MaybeCleanupLists DEF Cleanup, chan
    <3> QED BY <1>17, <1>k, <3>1 DEF Cleanup, Unneeded, chan
  <2>4. \A d \in 1 .. created, h \in Goroutines :
           d # ch /\ Cleaning(h, d) => Cleaning(h, d)'
    BY <1>17, <1>k, <2>1 DEF Cleanup, Cleaning, Joining, TypeOK, locals,
          goroutine, Goto
  <2>5. Unneeded(ch)' => writing'[ch] # {} \/ \E h \in Goroutines : Cleaning(h, ch)'
    <3> SUFFICES ASSUME Unneeded(ch)', writing[ch] = {}
                 PROVE  \E h \in Goroutines : Cleaning(h, ch)'
      BY <1>17 DEF Cleanup, chan
    <3>1. Listed(ch)' /\ IsClean(ch, founder[ch])
      BY <1>17 DEF Cleanup, Unneeded, IsClean, chan
    <3>2. pendingJoins[ch] # 0
      BY <1>17, <2>1, <3>1, MaybeCleanupLists DEF Cleanup, chan
    <3>3. Joiners(ch) # {}
      BY <3>2, JoinerCounted
    <3>4. \A h \in Joiners(ch) : Cleaning(h, ch)'
      BY <1>17 DEF Cleanup, Joiners, Joining, Cleaning, TypeOK, Goto
    <3> QED BY <3>3, <3>4 DEF Joiners
  <2> QED BY <1>w, <2>2, <2>3, <2>4, <2>5
<1>18. ASSUME NEW g \in Goroutines, RemoveChannel(g)
      PROVE  CleanupInv'
  <2>1. \A d \in 1 .. created : Unneeded(d)' => Unneeded(d)
    BY <1>18, <1>k DEF RemoveChannel, Unneeded, Listed, TypeOK, manager, chan
  <2>2. \A d \in 1 .. created, h \in Goroutines : Cleaning(h, d) => Cleaning(h, d)'
    BY <1>18, <1>k DEF RemoveChannel, TypeOK, Cleaning, Joining, locals,
          goroutine, Goto
  <2>3. created' = created /\ \A d \in 1 .. created : writing[d] # {} => writing'[d] # {}
    BY <1>18, <1>k DEF RemoveChannel, TypeOK, chan
  <2> QED BY <1>f, <2>1, <2>2, <2>3
<1>19. ASSUME NEW g \in Goroutines, PurgeChannel(g)
      PROVE  CleanupInv'
  <2>1. \A d \in 1 .. created : Unneeded(d)' => Unneeded(d)
    BY <1>19, <1>k DEF PurgeChannel, Unneeded, Listed, TypeOK, manager, chan
  <2>2. \A d \in 1 .. created, h \in Goroutines : Cleaning(h, d) => Cleaning(h, d)'
    BY <1>19, <1>k DEF PurgeChannel, TypeOK, Cleaning, Joining, locals,
          goroutine, Goto
  <2>3. created' = created /\ \A d \in 1 .. created : writing[d] # {} => writing'[d] # {}
    BY <1>19, <1>k DEF PurgeChannel, TypeOK, chan
  <2> QED BY <1>f, <2>1, <2>2, <2>3
<1>20. ASSUME NEW g \in Goroutines, PurgeTell(g)
      PROVE  CleanupInv'
  <2>1. \A d \in 1 .. created : Unneeded(d)' => Unneeded(d)
    BY <1>20, <1>k DEF PurgeTell, Unneeded, Listed, TypeOK, manager, chan
  <2>2. \A d \in 1 .. created, h \in Goroutines : Cleaning(h, d) => Cleaning(h, d)'
    BY <1>20, <1>k DEF PurgeTell, TypeOK, Cleaning, Joining, locals, goroutine,
          Goto
  <2>3. created' = created /\ \A d \in 1 .. created : writing[d] # {} => writing'[d] # {}
    BY <1>20, <1>k DEF PurgeTell, TypeOK, chan
  <2> QED BY <1>f, <2>1, <2>2, <2>3
<1>21. ASSUME NEW g \in Goroutines, Store(g)
      PROVE  CleanupInv'
  <2>1. PICK ch \in Channels : ch = on[g] /\ ch \in 1 .. created
    BY <1>21, Places DEF Store
  <2>2. /\ created' = created
        /\ \A d \in 1 .. created : d # ch => writing'[d] = writing[d]
    BY <1>21, <1>k, <2>1 DEF Store, TypeOK, chan
  <2>3. \A d \in 1 .. created : d # ch /\ Unneeded(d)' => Unneeded(d)
    BY <1>21, <1>k, <2>1 DEF Store, Unneeded, Listed, TypeOK, manager, chan
  <2>4. \A d \in 1 .. created, h \in Goroutines :
           d # ch /\ Cleaning(h, d) => Cleaning(h, d)'
    BY <1>21, <1>k, <2>1 DEF Store, Cleaning, Joining, TypeOK, locals,
          goroutine, Goto
  <2>5. Unneeded(ch)' => writing'[ch] # {} \/ \E h \in Goroutines : Cleaning(h, ch)'
    <3>1. writing'[ch] = writing[ch] \cup {"locked"}
      BY <1>21, <2>1 DEF Store, TypeOK
    <3> QED BY <3>1
  <2> QED BY <1>w, <2>2, <2>3, <2>4, <2>5
<1>22. ASSUME NEW g \in Goroutines, wakeWriter(g)
      PROVE  CleanupInv'
  <2>1. PICK ch \in Channels : ch = on[g] /\ ch \in 1 .. created
    BY <1>22, Places DEF wakeWriter
  <2>2. /\ created' = created
        /\ \A d \in 1 .. created : d # ch => writing'[d] = writing[d]
    BY <1>22, <1>k, <2>1 DEF wakeWriter, TypeOK, chan
  <2>3. \A d \in 1 .. created : d # ch /\ Unneeded(d)' => Unneeded(d)
    BY <1>22, <1>k, <2>1 DEF wakeWriter, Unneeded, Listed, TypeOK, manager,
          chan
  <2>4. \A d \in 1 .. created, h \in Goroutines :
           d # ch /\ Cleaning(h, d) => Cleaning(h, d)'
    BY <1>22, <1>k, <2>1 DEF wakeWriter, Cleaning, Joining, TypeOK, locals,
          goroutine, Goto
  <2>5. Unneeded(ch)' => writing'[ch] # {} \/ \E h \in Goroutines : Cleaning(h, ch)'
    <3>1. writing'[ch] = writing[ch] \cup {"locked"}
      BY <1>22, <2>1 DEF wakeWriter, TypeOK
    <3> QED BY <3>1
  <2> QED BY <1>w, <2>2, <2>3, <2>4, <2>5
<1>23. ASSUME NEW n \in Names, Unpurge(n)
      PROVE  CleanupInv'
  <2>1. \A d \in 1 .. created : Unneeded(d)' => Unneeded(d)
    BY <1>23, <1>k DEF Unpurge, Unneeded, Listed, TypeOK, manager, chan
  <2>2. \A d \in 1 .. created, h \in Goroutines : Cleaning(h, d) => Cleaning(h, d)'
    BY <1>23, <1>k DEF Unpurge, TypeOK, Cleaning, Joining, locals, goroutine,
          Goto
  <2>3. created' = created /\ \A d \in 1 .. created : writing[d] # {} => writing'[d] # {}
    BY <1>23, <1>k DEF Unpurge, TypeOK, chan
  <2> QED BY <1>f, <2>1, <2>2, <2>3
<1>24. ASSUME NEW n \in Names, NEW a \in Accounts, SetUnregistered(n, a)
      PROVE  CleanupInv'
  <2>1. PICK ch \in Channels : ch = chans[n] /\ Listed(ch)
    BY <1>24, Places DEF SetUnregistered, PlaceInv, Listed
  <2>2. /\ created' = created
        /\ \A d \in 1 .. created : d # ch => writing'[d] = writing[d]
    BY <1>24, <1>k, <2>1 DEF SetUnregistered, TypeOK, chan
  <2>3. \A d \in 1 .. created : d # ch /\ Unneeded(d)' => Unneeded(d)
    <3>1. \A d \in Channels : Listed(d)' => Listed(d)
      BY <1>24, <2>1, CleanupLists DEF SetUnregistered
    <3>2. \A d \in Channels : d # ch => founder'[d] = founder[d]
      BY <1>24, <2>1 DEF SetUnregistered, TypeOK
    <3> QED BY <1>24, <1>k, <3>1, <3>2 DEF SetUnregistered, Unneeded
  <2>4. \A d \in 1 .. created, h \in Goroutines :
           d # ch /\ Cleaning(h, d) => Cleaning(h, d)'
    BY <1>24, <1>k, <2>1 DEF SetUnregistered, Cleaning, Joining, TypeOK,
          locals, goroutine, Goto
  <2>5. Unneeded(ch)' => writing'[ch] # {} \/ \E h \in Goroutines : Cleaning(h, ch)'
    <3> SUFFICES ASSUME Unneeded(ch)', writing[ch] = {}
                 PROVE  \E h \in Goroutines : Cleaning(h, ch)'
      BY <1>24 DEF SetUnregistered
    <3>1. Listed(ch)' /\ IsClean(ch, NoOne)
      BY <1>24 DEF SetUnregistered, Unneeded, IsClean
    <3>2. pendingJoins[ch] # 0
      BY <1>24, <2>1, <3>1, CleanupLists DEF SetUnregistered
    <3>3. Joiners(ch) # {}
      BY <3>2, JoinerCounted
    <3>4. \A h \in Joiners(ch) : Cleaning(h, ch)'
      BY <1>24 DEF SetUnregistered, Joiners, Cleaning, goroutine
    <3> QED BY <3>3, <3>4 DEF Joiners
  <2> QED BY <1>w, <2>2, <2>3, <2>4, <2>5
<1>25. ASSUME NEW n \in Names, NEW m \in Names, Rename(n, m)
      PROVE  CleanupInv'
  <2>1. \A d \in Channels : Listed(d)' => Listed(d)
    <3>1. PICK ch \in 1 .. created : ch = chans[n] /\ name[ch] = n /\ ch \in Channels
      BY <1>25, Places DEF Rename, PlaceInv
    <3>2. /\ chans' = [chans EXCEPT ![n] = 0, ![m] = ch] /\ name' = [name EXCEPT ![ch] = m]
      BY <1>25, <3>1 DEF Rename
    <3> SUFFICES ASSUME NEW d \in Channels, d # ch, Listed(d)' PROVE Listed(d)
      BY <3>1 DEF Listed
    <3>3. d # 0 /\ name'[d] = name[d] /\ name[d] \in Names /\ chans'[name[d]] = d
      BY <3>2 DEF Channels, Listed, TypeOK
    <3>4. name[d] # m /\ name[d] # n
      BY <3>2, <3>3 DEF TypeOK
    <3>5. chans[name[d]] = d
      BY <3>2, <3>3, <3>4 DEF TypeOK
    <3> QED BY <3>3, <3>5 DEF Listed
  <2>2. \A d \in 1 .. created : Unneeded(d)' => Unneeded(d)
    BY <1>25, <1>k, <2>1 DEF Rename, Unneeded
  <2>3. \A d \in 1 .. created, h \in Goroutines : Cleaning(h, d) => Cleaning(h, d)'
    BY <1>25 DEF Rename, Cleaning, locals, goroutine
  <2> QED BY <1>25, <1>f, <2>2, <2>3 DEF Rename
<1>26. ASSUME NEW ch \in Channels, WriteEnd(ch)
      PROVE  CleanupInv'
  <2>1. \A d \in 1 .. created : Unneeded(d)' => Unneeded(d)
    BY <1>26, <1>k DEF WriteEnd, Unneeded, Listed, TypeOK, manager, chan
  <2>2. \A d \in 1 .. created, h \in Goroutines : Cleaning(h, d) => Cleaning(h, d)'
    BY <1>26, <1>k DEF WriteEnd, TypeOK, Cleaning, Joining, locals, goroutine,
          Goto
  <2>3. created' = created /\ \A d \in 1 .. created : writing[d] # {} => writing'[d] # {}
    BY <1>26, <1>k DEF WriteEnd, TypeOK, chan
  <2> QED BY <1>f, <2>1, <2>2, <2>3
<1>27. ASSUME NEW ch \in Channels, WriteAgain(ch)
      PROVE  CleanupInv'
  <2>1. \A d \in 1 .. created : Unneeded(d)' => Unneeded(d)
    BY <1>27, <1>k DEF WriteAgain, Unneeded, Listed, TypeOK, manager, chan
  <2>2. \A d \in 1 .. created, h \in Goroutines : Cleaning(h, d) => Cleaning(h, d)'
    BY <1>27, <1>k DEF WriteAgain, TypeOK, Cleaning, Joining, locals,
          goroutine, Goto
  <2>3. created' = created /\ \A d \in 1 .. created : writing[d] # {} => writing'[d] # {}
    BY <1>27, <1>k DEF WriteAgain, TypeOK, chan
  <2> QED BY <1>f, <2>1, <2>2, <2>3
<1>28. ASSUME NEW ch \in Channels, WriteCleanup(ch)
      PROVE  CleanupInv'
  <2>1. ch \in 1 .. created
    BY <1>28 DEF WriteCleanup, FreshInv, Channels, TypeOK
  <2>2. /\ created' = created
        /\ \A d \in 1 .. created : d # ch => writing'[d] = writing[d]
    BY <1>28, <1>k, <2>1 DEF WriteCleanup, TypeOK, chan
  <2>3. \A d \in 1 .. created : d # ch /\ Unneeded(d)' => Unneeded(d)
    <3>1. CASE UNCHANGED manager
      BY <1>28, <3>1 DEF WriteCleanup, manager, Unneeded, Listed
    <3>2. CASE maybeCleanup(ch, FALSE)
      <4>1. \A d \in Channels : Listed(d)' => Listed(d)
        BY <1>28, <2>1, <3>2, MaybeCleanupLists DEF WriteCleanup
      <4> QED BY <1>28, <1>k, <4>1 DEF WriteCleanup, Unneeded
    <3> QED BY <1>28, <3>1, <3>2 DEF WriteCleanup
  <2>4. \A d \in 1 .. created, h \in Goroutines :
           d # ch /\ Cleaning(h, d) => Cleaning(h, d)'
    BY <1>28, <1>k, <2>1 DEF WriteCleanup, Cleaning, Joining, TypeOK, locals,
          goroutine, Goto
  <2>5. Unneeded(ch)' => writing'[ch] # {} \/ \E h \in Goroutines : Cleaning(h, ch)'
    <3> SUFFICES ASSUME Unneeded(ch)', "locked" \notin writing[ch]
                 PROVE  \E h \in Goroutines : Cleaning(h, ch)'
      BY <1>28 DEF WriteCleanup, TypeOK
    <3>1. Listed(ch)' /\ IsClean(ch, founder[ch]) /\ maybeCleanup(ch, FALSE)
      BY <1>28 DEF WriteCleanup, Unneeded, IsClean
    <3>2. pendingJoins[ch] # 0
      BY <1>28, <2>1, <3>1, MaybeCleanupLists DEF WriteCleanup
    <3>3. Joiners(ch) # {}
      BY <3>2, JoinerCounted
    <3>4. \A h \in Joiners(ch) : Cleaning(h, ch)'
      BY <1>28 DEF WriteCleanup, Joiners, Cleaning, goroutine
    <3> QED BY <3>3, <3>4 DEF Joiners
  <2> QED BY <1>w, <2>2, <2>3, <2>4, <2>5
<1>29. ASSUME UNCHANGED vars PROVE CleanupInv'
  <2>1. \A d \in 1 .. created : Unneeded(d)' => Unneeded(d)
    BY <1>29, <1>k DEF vars, Unneeded, Listed, TypeOK, manager, chan
  <2>2. \A d \in 1 .. created, h \in Goroutines : Cleaning(h, d) => Cleaning(h, d)'
    BY <1>29, <1>k DEF vars, TypeOK, Cleaning, Joining, locals, goroutine, Goto
  <2>3. created' = created /\ \A d \in 1 .. created : writing[d] # {} => writing'[d] # {}
    BY <1>29, <1>k DEF vars, TypeOK, chan
  <2> QED BY <1>f, <2>1, <2>2, <2>3
<1> QED BY <1>1, <1>2, <1>3, <1>4, <1>5, <1>6, <1>7, <1>8, <1>9, <1>10, <1>11,
      <1>12,
      <1>13, <1>14, <1>15, <1>16, <1>17, <1>18, <1>19, <1>20, <1>21, <1>22, <1>23,
      <1>24, <1>25, <1>26, <1>27, <1>28, <1>29 DEF Next, Command, Step

(***************************************************************************)
(* The inductive invariant holds in every behaviour.                       *)
(***************************************************************************)
LEMMA ManagerInvariant == Spec => [](TypeOK /\ ManagerInv)
<1>1. TypeOK /\ ManagerInv /\ [Next]_vars => TypeOK' /\ ManagerInv'
  BY NextType, NextPlace, NextFresh, NextCount, NextOccupied, NextCache,
        NextCleanup DEF ManagerInv
<1> QED BY <1>1, InitInv, PTL DEF Spec

(***************************************************************************)
(* The manager's tables and the channels keep their types, and             *)
(* pendingJoins (channelmanager.go, channelManagerEntry) is never negative.*)
(***************************************************************************)
THEOREM ManagerTypeCorrect == Spec => []TypeOK
BY ManagerInvariant, PTL

(***************************************************************************)
(* maybeCleanupInternal never deletes a channel that has members or that   *)
(* somebody is joining, and Rename never loses one.                        *)
(***************************************************************************)
THEOREM ManagerOccupiedIsListed == Spec => []OccupiedIsListed
<1>1. ManagerInv => OccupiedIsListed
  BY DEF ManagerInv
<1> QED BY <1>1, ManagerInvariant, PTL

(***************************************************************************)
(* A channel that is empty, unregistered and not being used has been       *)
(* deleted: Cleanup, SetUnregistered, Join and the writers leave none.     *)
(***************************************************************************)
THEOREM ManagerNoLeakedChannel == Spec => []NoLeakedChannel
<1>1. ManagerInv => NoLeakedChannel
  BY DEF ManagerInv, CleanupInv, Unneeded, Cleaning, NoLeakedChannel
<1> QED BY <1>1, ManagerInvariant, PTL

(***************************************************************************)
(* The cached member list (regenerateMembersCache) is the member set       *)
(* whenever joinPartMutex is free, unless the channel was purged.          *)
(***************************************************************************)
THEOREM ManagerCacheIsFresh == Spec => []CacheIsFresh
<1>1. ManagerInv => CacheIsFresh
  BY DEF ManagerInv
<1> QED BY <1>1, ManagerInvariant, PTL

-----------------------------------------------------------------------------
(***************************************************************************)
(* The clients' lists of channels.                                         *)
(***************************************************************************)

(* From addChannel to members.Add, and from members.Remove to              *)
(* removeChannel, a goroutine accounts for an entry without a member.      *)
Between == {"addMember", "quitCopy", "quitStore", "cleanup", "removeChannel"}

Handles(g, c, ch) == on[g] = ch /\ who[g] = c /\ pc[g] \in Between

ListInv ==
    \A c \in Clients : \A ch \in channels[c] \ wasPurged :
        c \in members[ch] \/ \E g \in Goroutines : Handles(g, c, ch)

(* One goroutine works; if it handles an entry, it goes on doing so.       *)
GoesOn(g) ==
    /\ \A h \in Goroutines \ {g} :
          pc'[h] = pc[h] /\ on'[h] = on[h] /\ who'[h] = who[h]
    /\ pc[g] \in Between =>
          pc'[g] \in Between /\ on'[g] = on[g] /\ who'[g] = who[g]

(* What adds no entry and removes no member keeps ListInv.                 *)
LEMMA ListFrame ==
    ASSUME TypeOK, ListInv, NEW g \in Goroutines, GoesOn(g),
           \A c \in Clients : channels'[c] \subseteq channels[c],
           \A ch \in Channels \ wasPurged' : members[ch] \subseteq members'[ch],
           wasPurged \subseteq wasPurged'
    PROVE  ListInv'
<1> SUFFICES ASSUME NEW c \in Clients, NEW ch \in channels'[c] \ wasPurged', c \notin members'[ch]
             PROVE  \E h \in Goroutines : Handles(h, c, ch)'
  BY DEF ListInv
<1>1. ch \in channels[c] \ wasPurged /\ ch \in Channels
  BY DEF TypeOK
<1>2. c \notin members[ch]
  BY <1>1
<1>3. PICK h \in Goroutines : Handles(h, c, ch)
  BY <1>1, <1>2 DEF ListInv
<1>4. Handles(h, c, ch)'
  BY <1>3 DEF Handles, GoesOn
<1> QED BY <1>4

(* The same for steps that are nobody's in particular.                     *)
LEMMA ListStill ==
    ASSUME ListInv, UNCHANGED <<pc, on, who, channels, members, wasPurged>>
    PROVE  ListInv'
BY DEF ListInv, Handles

(* Every step keeps it.                                                    *)
LEMMA NextListed ==
    TypeOK /\ PlaceInv /\ ListInv /\ [Next]_vars => ListInv'
<1> SUFFICES ASSUME TypeOK, PlaceInv, ListInv, [Next]_vars PROVE ListInv'
  OBVIOUS
<1> USE ChannelManagerAssumption
<1>1. ASSUME NEW g \in Goroutines, Command(g) PROVE ListInv'
  <2>1. UNCHANGED <<members, channels, wasPurged>> /\ pc[g] = "idle"
    BY <1>1 DEF Command, JoinExisting, JoinNew, PartOrKick, Destroy, PurgeMark, SetRegistered,
          MarkDirty, chan, client, locals
  <2>2. \A h \in Goroutines \ {g} : pc'[h] = pc[h] /\ on'[h] = on[h] /\ who'[h] = who[h]
    BY <1>1 DEF Command, JoinExisting, JoinNew, PartOrKick, Destroy, PurgeMark, SetRegistered,
          MarkDirty, Goto, TypeOK
  <2> QED BY <2>1, <2>2, ListFrame DEF GoesOn, Between
<1>2. ASSUME NEW g \in Goroutines,
             JoinCheck(g) \/ JoinDone(g) \/ CopyMembers(g) \/ StoreCache(g) \/ ListChannels(g)
               \/ LeaveNext(g) \/ Cleanup(g) \/ Store(g) \/ wakeWriter(g)
      PROVE  ListInv'
  <2>1. UNCHANGED <<members, channels, wasPurged>>
    BY <1>2 DEF JoinCheck, JoinDone, CopyMembers, StoreCache, ListChannels, LeaveNext, Cleanup,
          Store, wakeWriter, chan, client
  <2>2. \A h \in Goroutines \ {g} : pc'[h] = pc[h] /\ on'[h] = on[h] /\ who'[h] = who[h]
    <3>1. CASE JoinCheck(g) \/ JoinDone(g) \/ CopyMembers(g) \/ StoreCache(g)
      BY <3>1, ZenonT(60) DEF JoinCheck, JoinDone, CopyMembers, StoreCache, Goto, TypeOK
    <3>2. CASE ListChannels(g) \/ LeaveNext(g) \/ Cleanup(g) \/ Store(g) \/ wakeWriter(g)
      BY <3>2, ZenonT(60) DEF ListChannels, LeaveNext, Cleanup, Store, wakeWriter, Goto, TypeOK
    <3> QED BY <1>2, <3>1, <3>2
  <2>3. pc[g] \in Between => pc'[g] \in Between /\ on'[g] = on[g] /\ who'[g] = who[g]
    <3>1. CASE CopyMembers(g)
      BY <3>1 DEF CopyMembers, Goto, TypeOK, Between
    <3>2. CASE StoreCache(g)
      BY <3>2 DEF StoreCache, Goto, TypeOK, Between
    <3>3. CASE Cleanup(g)
      BY <3>3 DEF Cleanup, Goto, TypeOK, Between
    <3>4. CASE JoinCheck(g) \/ JoinDone(g) \/ ListChannels(g) \/ LeaveNext(g) \/ Store(g) \/ wakeWriter(g)
      BY <3>4 DEF JoinCheck, JoinDone, ListChannels, LeaveNext, Store, wakeWriter, Between
    <3> QED BY <1>2, <3>1, <3>2, <3>3, <3>4
  <2> QED BY <2>1, <2>2, <2>3, ListFrame DEF GoesOn
<1>3. ASSUME NEW g \in Goroutines, AddChannel(g) PROVE ListInv'
  <2>1. /\ UNCHANGED <<members, wasPurged, on, who>> /\ pc[g] = "addChannel" /\ GoesOn(g)
        /\ who[g] \in Clients
    BY <1>3 DEF AddChannel, chan, Goto, TypeOK, GoesOn, Between, PlaceInv, Joining
  <2>2. CASE channels' = channels
    BY <2>1, <2>2, ListFrame
  <2>3. CASE /\ channels' = [channels EXCEPT ![who[g]] = @ \cup {on[g]}]
             /\ pc' = [pc EXCEPT ![g] = "addMember"]
    <3> SUFFICES ASSUME NEW c \in Clients, NEW ch \in channels'[c] \ wasPurged, c \notin members[ch]
                 PROVE  \E h \in Goroutines : Handles(h, c, ch)'
      BY <2>1 DEF ListInv
    <3>1. CASE ch \in channels[c]
      <4>1. PICK h \in Goroutines : Handles(h, c, ch)
        BY <3>1 DEF ListInv
      <4> QED BY <2>1, <4>1 DEF Handles, GoesOn
    <3>2. CASE ch \notin channels[c]
      <4>1. c = who[g] /\ ch = on[g]
        BY <2>1, <2>3, <3>2 DEF TypeOK
      <4>2. Handles(g, c, ch)'
        BY <2>1, <2>3, <4>1 DEF Handles, TypeOK, Between
      <4> QED BY <4>2
    <3> QED BY <3>1, <3>2
  <2> QED BY <1>3, <2>2, <2>3 DEF AddChannel, Goto
<1>4. ASSUME NEW g \in Goroutines, AddMember(g) \/ RemoveMember(g) PROVE ListInv'
  <2>1. PICK ch \in Channels : ch = on[g]
    BY <1>4, Places DEF AddMember, RemoveMember
  <2>2. /\ UNCHANGED <<channels, wasPurged, on, who>> /\ who[g] \in Clients
        /\ pc[g] \in {"addMember", "quit"}
        /\ \A h \in Goroutines \ {g} : pc'[h] = pc[h]
        /\ pc[g] = "addMember" => members' = [members EXCEPT ![ch] = @ \cup {who[g]}]
        /\ pc[g] = "quit" => members' = [members EXCEPT ![ch] = @ \ {who[g]}] /\ pc'[g] = "quitCopy"
    BY <1>4, <2>1 DEF AddMember, RemoveMember, client, Goto, TypeOK, PlaceInv, Joining, Quitting
  <2> SUFFICES ASSUME NEW c \in Clients, NEW d \in channels[c] \ wasPurged, c \notin members'[d]
               PROVE  \E h \in Goroutines : Handles(h, c, d)'
    BY <2>2 DEF ListInv
  <2>3. d \in Channels
    BY DEF TypeOK
  <2>4. CASE c \in members[d]
    <3>1. pc[g] = "quit" /\ d = ch /\ c = who[g]
      BY <2>1, <2>2, <2>3, <2>4 DEF TypeOK
    <3>2. Handles(g, c, d)'
      BY <2>1, <2>2, <3>1 DEF Handles, Between
    <3> QED BY <3>2
  <2>5. CASE c \notin members[d]
    <3>1. PICK h \in Goroutines : Handles(h, c, d)
      BY <2>5 DEF ListInv
    <3>2. h # g
      BY <2>1, <2>2, <2>3, <3>1 DEF Handles, Between, TypeOK
    <3> QED BY <2>2, <3>1, <3>2 DEF Handles
  <2> QED BY <2>4, <2>5
<1>5. ASSUME NEW g \in Goroutines, RemoveChannel(g) PROVE ListInv'
  <2>1. /\ UNCHANGED <<members, wasPurged>> /\ who[g] \in Clients /\ pc[g] = "removeChannel"
        /\ channels' = [channels EXCEPT ![who[g]] = @ \ {on[g]}]
        /\ \A h \in Goroutines \ {g} : pc'[h] = pc[h] /\ on'[h] = on[h] /\ who'[h] = who[h]
    BY <1>5 DEF RemoveChannel, chan, Goto, TypeOK, PlaceInv, Quitting
  <2> SUFFICES ASSUME NEW c \in Clients, NEW d \in channels'[c] \ wasPurged, c \notin members[d]
               PROVE  \E h \in Goroutines : Handles(h, c, d)'
    BY <2>1 DEF ListInv
  <2>2. d \in channels[c] /\ ~(c = who[g] /\ d = on[g])
    BY <2>1 DEF TypeOK
  <2>3. PICK h \in Goroutines : Handles(h, c, d)
    BY <2>2 DEF ListInv
  <2>4. h # g
    BY <2>2, <2>3 DEF Handles
  <2> QED BY <2>1, <2>3, <2>4 DEF Handles
<1>6. ASSUME NEW g \in Goroutines, PurgeChannel(g) PROVE ListInv'
  <2>1. /\ channels' = channels /\ wasPurged' = wasPurged \cup {on[g]}
        /\ members' = [members EXCEPT ![on[g]] = {}] /\ GoesOn(g)
    BY <1>6 DEF PurgeChannel, client, Goto, GoesOn, Between, TypeOK
  <2>2. \A ch \in Channels \ wasPurged' : members[ch] \subseteq members'[ch]
    BY <2>1 DEF TypeOK
  <2> QED BY <2>1, <2>2, ListFrame
<1>7. ASSUME NEW g \in Goroutines, PurgeTell(g) PROVE ListInv'
  <2>1. /\ UNCHANGED <<members, wasPurged>> /\ GoesOn(g)
    BY <1>7 DEF PurgeTell, chan, Goto, GoesOn, Between, TypeOK
  <2>2. \A c \in Clients : channels'[c] \subseteq channels[c]
    BY <1>7 DEF PurgeTell, TypeOK
  <2> QED BY <2>1, <2>2, ListFrame
<1>8. ASSUME \/ \E n \in Names : Unpurge(n)
             \/ \E n \in Names, a \in Accounts : SetUnregistered(n, a)
             \/ \E n, m \in Names : Rename(n, m)
             \/ \E ch \in Channels : WriteEnd(ch) \/ WriteAgain(ch) \/ WriteCleanup(ch)
             \/ UNCHANGED vars
      PROVE  ListInv'
  <2>1. UNCHANGED <<pc, on, who, channels, members, wasPurged>>
    BY <1>8 DEF Unpurge, SetUnregistered, Rename, WriteEnd, WriteAgain, WriteCleanup, vars, chan,
          client, goroutine
  <2> QED BY <2>1, ListStill
<1> QED
  BY <1>1, <1>2, <1>3, <1>4, <1>5, <1>6, <1>7, <1>8 DEF Next, Step

(***************************************************************************)
(* A channel in a client's list has the client among its members unless    *)
(* somebody is at work on it or it was purged: the order of addChannel and *)
(* members.Add in Join, and of Remove and removeChannel in Quit.           *)
(***************************************************************************)
THEOREM ManagerListsAreRight == Spec => []ListedChannelHasMember
<1>1. Init => ListInv
  BY DEF Init, ListInv
<1>2. TypeOK /\ ManagerInv /\ ListInv /\ [Next]_vars => ListInv'
  BY NextListed DEF ManagerInv
<1>3. ListInv => ListedChannelHasMember
  BY DEF ListInv, Handles, Busy, ListedChannelHasMember
<1> QED BY <1>1, <1>2, <1>3, ManagerInvariant, PTL DEF Spec

-----------------------------------------------------------------------------
(***************************************************************************)
(* The table of skeletons, when no registered channel is renamed.          *)
(***************************************************************************)

(* The entry of a channel carries the skeleton of its name, and each taken *)
(* skeleton belongs to one name.                                           *)
SkeletonInv ==
    /\ \A n \in Names : chans[n] # 0 => skeleton[chans[n]] = Skeleton[n]
    /\ ConfusablesEnforced
    /\ SkeletonsExact

(* What deletes one entry with its skeleton, or nothing, keeps that.       *)
LEMMA DeletionKeepsSkeletons ==
    ASSUME TypeOK, SkeletonInv, NEW n \in Names, chans[n] # 0, NEW p, NEW r, name[chans[n]] = n,
           maybeCleanupInternal(chans[n], p, r)
    PROVE  SkeletonInv'
<1> USE ChannelManagerAssumption
<1>1. skeleton' = skeleton /\ skeleton[chans[n]] = Skeleton[n]
  BY DEF maybeCleanupInternal, SkeletonInv
<1>2. CASE UNCHANGED <<chans, chansSkeletons>>
  BY <1>1, <1>2 DEF SkeletonInv, ConfusablesEnforced, SkeletonsExact
<1>3. CASE chans' = [chans EXCEPT ![n] = 0] /\ chansSkeletons' = chansSkeletons \ {Skeleton[n]}
  <2>1. \A m \in Names : chans'[m] # 0 <=> m # n /\ chans[m] # 0
    BY <1>3 DEF TypeOK
  <2>2. \A m \in Names : chans'[m] # 0 => chans'[m] = chans[m]
    BY <1>3 DEF TypeOK
  <2>3. ConfusablesEnforced'
    BY <2>1 DEF SkeletonInv, ConfusablesEnforced
  <2>4. SkeletonsExact'
    BY <1>3, <2>1 DEF SkeletonInv, SkeletonsExact, ConfusablesEnforced
  <2> QED BY <1>1, <2>1, <2>2, <2>3, <2>4 DEF SkeletonInv
<1> QED BY <1>1, <1>2, <1>3 DEF maybeCleanupInternal

(* The same for a cleanup that looks the channel up first.                 *)
LEMMA CleanupKeepsSkeletons ==
    ASSUME TypeOK, PlaceInv, SkeletonInv, NEW ch \in 1 .. created, NEW p, NEW r,
           IF chans[name[ch]] = ch THEN maybeCleanupInternal(ch, p, r) ELSE UNCHANGED manager
    PROVE  SkeletonInv'
<1>1. name[ch] \in Names /\ ch # 0
  BY DEF PlaceInv, TypeOK
<1>2. CASE chans[name[ch]] = ch
  <2>1. maybeCleanupInternal(chans[name[ch]], p, r)
    BY <1>2
  <2> QED BY <1>1, <1>2, <2>1, DeletionKeepsSkeletons
<1>3. CASE chans[name[ch]] # ch
  BY <1>3 DEF manager, SkeletonInv, ConfusablesEnforced, SkeletonsExact
<1> QED BY <1>2, <1>3

(* Every step keeps the table.                                             *)
LEMMA NextSkeletons ==
    ~RenameRegistered /\ TypeOK /\ PlaceInv /\ FreshInv /\ SkeletonInv /\ [Next]_vars
        => SkeletonInv'
<1> SUFFICES ASSUME ~RenameRegistered, TypeOK, PlaceInv, FreshInv, SkeletonInv, [Next]_vars
             PROVE  SkeletonInv'
  OBVIOUS
<1> USE ChannelManagerAssumption
<1>1. CASE UNCHANGED <<chans, chansSkeletons, skeleton>>
  BY <1>1 DEF SkeletonInv, ConfusablesEnforced, SkeletonsExact
<1>2. ASSUME NEW g \in Goroutines, NEW c \in Clients, NEW n \in Names, JoinNew(g, c, n)
      PROVE  SkeletonInv'
  <2>1. PICK ch \in Channels : ch = created + 1
    BY <1>2 DEF JoinNew, TypeOK, Channels
  <2>2. /\ chans[n] = 0 /\ chans' = [chans EXCEPT ![n] = ch]
        /\ skeleton' = [skeleton EXCEPT ![ch] = Skeleton[n]]
        /\ Skeleton[n] \notin chansSkeletons /\ chansSkeletons' = chansSkeletons \cup {Skeleton[n]}
    BY <1>2, <2>1 DEF JoinNew
  <2>3. ch # 0 /\ \A m \in Names : chans[m] # ch
    BY <2>1 DEF PlaceInv, TypeOK, Channels
  <2>4. \A m \in Names : chans'[m] # 0 <=> m = n \/ chans[m] # 0
    BY <2>2, <2>3 DEF TypeOK
  <2>5. \A m \in Names : chans'[m] # 0 => skeleton'[chans'[m]] = Skeleton[m]
    BY <2>2, <2>3 DEF TypeOK, SkeletonInv, Channels
  <2>6. ConfusablesEnforced'
    BY <2>2, <2>4 DEF SkeletonInv, ConfusablesEnforced, SkeletonsExact
  <2>7. SkeletonsExact'
    BY <2>2, <2>4 DEF SkeletonInv, SkeletonsExact
  <2> QED BY <2>5, <2>6, <2>7 DEF SkeletonInv
<1>3. ASSUME NEW n \in Names, NEW m \in Names, Rename(n, m) PROVE SkeletonInv'
  <2>1. PICK ch \in Channels : ch = chans[n] /\ ch # 0
    BY <1>3 DEF Rename, TypeOK, Channels
  <2>2. /\ n # m /\ chans[m] = 0 /\ chans' = [chans EXCEPT ![n] = 0, ![m] = ch]
        /\ skeleton' = [skeleton EXCEPT ![ch] = Skeleton[m]]
        /\ Skeleton[m] = Skeleton[n] \/ Skeleton[m] \notin chansSkeletons
        /\ chansSkeletons' = (chansSkeletons \ {Skeleton[n]}) \cup {Skeleton[m]}
    BY <1>3, <2>1 DEF Rename
  <2>3. \A k \in Names : chans[k] = ch => k = n
    BY <2>1 DEF PlaceInv
  <2>4. \A k \in Names : chans'[k] # 0 <=> k = m \/ (k # n /\ chans[k] # 0)
    BY <2>1, <2>2 DEF TypeOK
  <2>5. \A k \in Names : chans'[k] # 0 => skeleton'[chans'[k]] = Skeleton[k]
    BY <2>1, <2>2, <2>3 DEF TypeOK, SkeletonInv, Channels
  <2>6. \A k \in Names : k # n /\ chans[k] # 0 => Skeleton[k] # Skeleton[n] /\ Skeleton[k] # Skeleton[m]
    BY <2>1, <2>2 DEF SkeletonInv, ConfusablesEnforced, SkeletonsExact
  <2>7. ConfusablesEnforced'
    BY <2>4, <2>6 DEF SkeletonInv, ConfusablesEnforced
  <2>8. SkeletonsExact'
    <3>1. ASSUME NEW x \in chansSkeletons' PROVE \E k \in Names : chans'[k] # 0 /\ x = Skeleton[k]
      <4>1. CASE x = Skeleton[m]
        BY <2>4, <4>1
      <4>2. CASE x # Skeleton[m]
        <5>1. x \in chansSkeletons /\ x # Skeleton[n]
          BY <2>2, <3>1, <4>2
        <5>2. PICK k \in Names : chans[k] # 0 /\ x = Skeleton[k]
          BY <5>1 DEF SkeletonInv, SkeletonsExact
        <5> QED BY <2>4, <5>1, <5>2
      <4> QED BY <4>1, <4>2
    <3>2. ASSUME NEW k \in Names, chans'[k] # 0 PROVE Skeleton[k] \in chansSkeletons'
      <4>1. CASE k = m
        BY <2>2, <4>1
      <4>2. CASE k # n /\ chans[k] # 0
        BY <2>2, <2>6, <4>2 DEF SkeletonInv, SkeletonsExact
      <4> QED BY <2>4, <3>2, <4>1, <4>2
    <3> QED BY <3>1, <3>2 DEF SkeletonsExact
  <2> QED BY <2>5, <2>7, <2>8 DEF SkeletonInv
<1>4. ASSUME NEW n \in Names, NEW a \in Accounts, SetUnregistered(n, a) PROVE SkeletonInv'
  <2>1. /\ chans[n] # 0 /\ name[chans[n]] = n
        /\ maybeCleanupInternal(chans[n], pendingJoins[chans[n]], NoOne)
    BY <1>4 DEF SetUnregistered, PlaceInv
  <2> QED BY <2>1, DeletionKeepsSkeletons
<1>5. ASSUME NEW g \in Goroutines, JoinDone(g) \/ Cleanup(g) PROVE SkeletonInv'
  <2>1. on[g] \in 1 .. created
    BY <1>5, Places DEF JoinDone, Cleanup
  <2>2. CASE JoinDone(g)
    BY <2>1, <2>2, CleanupKeepsSkeletons DEF JoinDone, maybeCleanup
  <2>3. CASE Cleanup(g)
    BY <2>1, <2>3, CleanupKeepsSkeletons DEF Cleanup, maybeCleanup
  <2> QED BY <1>5, <2>2, <2>3
<1>6. ASSUME NEW ch \in Channels, WriteCleanup(ch) PROVE SkeletonInv'
  <2>1. ch \in 1 .. created
    BY <1>6 DEF WriteCleanup, FreshInv, TypeOK, Channels
  <2>2. CASE members[ch] = {}
    BY <1>6, <2>1, <2>2, CleanupKeepsSkeletons DEF WriteCleanup, maybeCleanup
  <2>3. CASE members[ch] # {}
    BY <1>1, <1>6, <2>3 DEF WriteCleanup, manager
  <2> QED BY <2>2, <2>3
<1>7. ASSUME NEW g \in Goroutines,
             \/ Command(g) /\ ~\E c \in Clients, n \in Names : JoinNew(g, c, n)
             \/ Step(g) /\ ~JoinDone(g) /\ ~Cleanup(g)
      PROVE  UNCHANGED <<chans, chansSkeletons, skeleton>>
  BY <1>7 DEF Command, Step, JoinExisting, PartOrKick, Destroy, PurgeMark, SetRegistered, MarkDirty,
        JoinCheck, AddChannel, AddMember, CopyMembers, StoreCache, ListChannels, LeaveNext, RemoveMember,
        RemoveChannel, PurgeChannel, PurgeTell, Store, wakeWriter, manager
<1>8. ASSUME \/ \E n \in Names : Unpurge(n)
             \/ \E ch \in Channels : WriteEnd(ch) \/ WriteAgain(ch)
             \/ UNCHANGED vars
      PROVE  UNCHANGED <<chans, chansSkeletons, skeleton>>
  BY <1>8 DEF Unpurge, WriteEnd, WriteAgain, vars, manager
<1> QED
  BY <1>1, <1>2, <1>3, <1>4, <1>5, <1>6, <1>7, <1>8 DEF Next

(* The table's invariant.                                                  *)
LEMMA SkeletonInvariant == ASSUME ~RenameRegistered PROVE Spec => []SkeletonInv
<1>1. Init => SkeletonInv
  BY DEF Init, SkeletonInv, ConfusablesEnforced, SkeletonsExact
<1>2. TypeOK /\ ManagerInv /\ SkeletonInv /\ [Next]_vars => SkeletonInv'
  BY NextSkeletons DEF ManagerInv
<1> QED BY <1>1, <1>2, ManagerInvariant, PTL DEF Spec

(***************************************************************************)
(* When registered channels keep their names, no two channels have         *)
(* confusable names: Join and Rename check the table under the manager's   *)
(* lock, and maybeCleanupInternal frees the right skeleton.                *)
(***************************************************************************)
THEOREM ManagerConfusables ==
    ASSUME ~RenameRegistered PROVE Spec => []ConfusablesEnforced
<1>1. SkeletonInv => ConfusablesEnforced
  BY DEF SkeletonInv
<1> QED BY <1>1, SkeletonInvariant, PTL

(***************************************************************************)
(* ... and the table of skeletons holds those of the channels that exist:  *)
(* none is missing, and none is stuck when its channel is gone.            *)
(***************************************************************************)
THEOREM ManagerSkeletons ==
    ASSUME ~RenameRegistered PROVE Spec => []SkeletonsExact
<1>1. SkeletonInv => SkeletonsExact
  BY DEF SkeletonInv
<1> QED BY <1>1, SkeletonInvariant, PTL

=============================================================================
