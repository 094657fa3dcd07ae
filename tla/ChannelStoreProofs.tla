------------------------- MODULE ChannelStoreProofs -------------------------
(***************************************************************************)
(* Theorems about ChannelStore, for any number of callers, writers,        *)
(* accounts, changes and UUIDs, with and without faults.                   *)
(***************************************************************************)
EXTENDS ChannelStore, TLAPS

(* A channel that was just created is in the invariant.                    *)
LEMMA InitInv == Init => TypeOK /\ StoreInv
<1> SUFFICES ASSUME Init PROVE TypeOK /\ StoreInv
  OBVIOUS
<1> USE ChannelStoreAssumption DEF Init, Goroutines
<1>1. TypeOK
  <2>1. uuid \in UUIDs /\ contents \in 0 .. MaxChanges /\ 0 \in 0 .. MaxUUIDs
    BY DEF UUIDs
  <2>2. db \in [UUIDs -> Row \cup {NoRow}]
    OBVIOUS
  <2>3. /\ pc \in [Goroutines -> Locations]
        /\ info \in [Goroutines -> Snapshot \cup {NoRow}]
    BY DEF Locations
  <2>4. /\ old \in [Callers -> 0 .. MaxUUIDs]
        /\ target \in [Callers -> Accounts \cup {NoOne}]
    BY <2>1
  <2> QED BY <2>1, <2>2, <2>3, <2>4 DEF TypeOK
<1>2. PlaceInv /\ LockInv
  BY DEF PlaceInv, LockInv, OneWriter, Writing, Cleaning
<1>3. SnapshotInv /\ UnsavedIsDirtyUnlessLost /\ WriterIsComingUnlessMissed
  BY DEF SnapshotInv, UnsavedIsDirtyUnlessLost, UnsavedIsDirty,
         WriterIsComingUnlessMissed, WriterIsComing, isRegistered
<1> QED BY <1>1, <1>2, <1>3 DEF StoreInv

(* Every step keeps the types and the places where goroutines can be.      *)
LEMMA NextType ==
    TypeOK /\ PlaceInv /\ [Next]_vars => TypeOK' /\ PlaceInv'
<1> SUFFICES ASSUME TypeOK, PlaceInv, [Next]_vars PROVE TypeOK' /\ PlaceInv'
  OBVIOUS
<1> USE ChannelStoreAssumption DEF Goroutines
<1>1. ASSUME NEW c \in Callers, ChangeContents(c) PROVE TypeOK' /\ PlaceInv'
  BY <1>1 DEF ChangeContents, TypeOK, PlaceInv, Locations, Writing, Cleaning,
        registration, ghosts, Goto
<1>2. ASSUME NEW c \in Callers, MarkDirty(c) PROVE TypeOK' /\ PlaceInv'
  BY <1>2 DEF MarkDirty, TypeOK, PlaceInv, Locations, Writing, Cleaning, registration,
        ghosts, Goto
<1>3. ASSUME NEW c \in Callers, wakeWriter(c) PROVE TypeOK' /\ PlaceInv'
  <2>1. missed' \in BOOLEAN
    BY <1>3, Zenon DEF wakeWriter, TypeOK, Looking
  <2>2. writebackLock' \in BOOLEAN /\ pc' \in [Goroutines -> Locations]
    BY <1>3 DEF wakeWriter, TypeOK, Locations, Writing, Cleaning, Goto
  <2>3. TypeOK'
    BY <1>3, <2>1, <2>2 DEF wakeWriter, TypeOK, registration, ghosts
  <2>4. PlaceInv'
    BY <1>3 DEF wakeWriter, TypeOK, PlaceInv, Locations, Writing, Cleaning, registration,
          ghosts, Goto
  <2> QED BY <2>3, <2>4
<1>4. ASSUME NEW c \in Callers, SetUnregistered(c) PROVE TypeOK' /\ PlaceInv'
  <2>1. uuid' \in UUIDs
    BY <1>4 DEF SetUnregistered, TypeOK, UUIDs
  <2> QED BY <1>4, <2>1 DEF SetUnregistered, TypeOK, PlaceInv, Locations, Writing,
        Cleaning, registration, ghosts, Goto
<1>5. ASSUME NEW c \in Callers, Unregistered(c) PROVE TypeOK' /\ PlaceInv'
  BY <1>5 DEF Unregistered, TypeOK, PlaceInv, Locations, Writing, Cleaning, registration,
        ghosts, Goto
<1>6. ASSUME NEW c \in Callers, DeleteRow(c) PROVE TypeOK' /\ PlaceInv'
  <2>1. lost' \in BOOLEAN
    BY <1>6, Zenon DEF DeleteRow, TypeOK
  <2>2. 0 \in 0 .. MaxUUIDs
    OBVIOUS
  <2> QED BY <1>6, <2>1, <2>2 DEF DeleteRow, TypeOK, PlaceInv, Locations, Writing,
        Cleaning, registration, ghosts, Goto
<1>7. ASSUME NEW c \in Callers, IsClean(c) PROVE TypeOK' /\ PlaceInv'
  BY <1>7 DEF IsClean, TypeOK, PlaceInv, Locations, Writing, Cleaning, registration,
        ghosts, Goto
<1>8. ASSUME NEW c \in Callers, IsCleanUnlock(c) PROVE TypeOK' /\ PlaceInv'
  BY <1>8 DEF IsCleanUnlock, TypeOK, PlaceInv, Locations, Writing, Cleaning,
        registration, ghosts, Goto
<1>9. ASSUME NEW c \in Callers, LockStore(c) PROVE TypeOK' /\ PlaceInv'
  BY <1>9 DEF LockStore, TypeOK, PlaceInv, Locations, Writing, Cleaning, registration,
        ghosts, Goto
<1>10. ASSUME NEW c \in Callers, NEW a \in Accounts, SetRegistered(c,
      a) PROVE TypeOK' /\ PlaceInv'
  BY <1>10 DEF SetRegistered, TypeOK, PlaceInv, Locations, Writing, Cleaning,
        registration, ghosts, Goto
<1>11. ASSUME NEW c \in Callers, NEW a \in Accounts, TransferComplete(c,
      a) PROVE TypeOK' /\ PlaceInv'
  BY <1>11 DEF TransferComplete, TypeOK, PlaceInv, Locations, Writing, Cleaning,
        registration, ghosts, Goto
<1>12. ASSUME NEW c \in Callers, NEW a \in Accounts, TransferOffer(c,
      a) PROVE TypeOK' /\ PlaceInv'
  BY <1>12 DEF TransferOffer, TypeOK, PlaceInv, Locations, Writing, Cleaning,
        registration, ghosts, Goto
<1>13. ASSUME NEW c \in Callers, NEW a \in Accounts, AcceptTransfer(c,
      a) PROVE TypeOK' /\ PlaceInv'
  BY <1>13 DEF AcceptTransfer, TypeOK, PlaceInv, Locations, Writing, Cleaning,
        registration, ghosts, Goto
<1>14. ASSUME NEW c \in Callers, NEW a \in Accounts, UnregisterCheck(c,
      a) PROVE TypeOK' /\ PlaceInv'
  <2>1. uuid \in 0 .. MaxUUIDs
    BY DEF TypeOK, UUIDs
  <2> QED BY <1>14, <2>1 DEF UnregisterCheck, TypeOK, PlaceInv, Locations, Writing,
        Cleaning, registration, ghosts, Goto
<1>15. ASSUME NEW p \in Goroutines, TakeDirty(p) PROVE TypeOK' /\ PlaceInv'
  BY <1>15 DEF TakeDirty, TypeOK, PlaceInv, Locations, Writing, Cleaning, registration,
        ghosts, Goto
<1>16. ASSUME NEW p \in Goroutines, ExportRegistration(p) PROVE TypeOK' /\ PlaceInv'
  <2>1. [uuid |-> uuid, row |-> current] \in Snapshot
    BY DEF TypeOK, Snapshot, Row, current
  <2> QED BY <1>16, <2>1 DEF ExportRegistration, TypeOK, PlaceInv, Locations, Writing,
        Cleaning, registration, ghosts, Goto
<1>17. ASSUME NEW p \in Goroutines, SetRow(p) PROVE TypeOK' /\ PlaceInv'
  <2>1. lost' \in BOOLEAN
    BY <1>17, Zenon DEF SetRow, TypeOK
  <2>2. info[p].row \in Row
    BY <1>17 DEF SetRow, PlaceInv, Snapshot
  <2>3. db' \in [UUIDs -> Row \cup {NoRow}]
    BY <1>17, <2>2 DEF SetRow, TypeOK
  <2>4. pc' \in [Goroutines -> Locations] /\ info' \in [Goroutines -> Snapshot \cup {NoRow}]
    BY <1>17 DEF SetRow, TypeOK, Locations, Writing, Goto
  <2>5. TypeOK'
    BY <1>17, <2>1, <2>3, <2>4 DEF SetRow, TypeOK, registration
  <2>6. PlaceInv'
    BY <1>17 DEF SetRow, TypeOK, PlaceInv, Locations, Writing, Cleaning, registration,
          ghosts, Goto
  <2> QED BY <2>5, <2>6
<1>18. ASSUME NEW p \in Goroutines, RestoreDirty(p) PROVE TypeOK' /\ PlaceInv'
  BY <1>18 DEF RestoreDirty, TypeOK, PlaceInv, Locations, Writing, Cleaning,
        registration, ghosts, Goto
<1>19. ASSUME NEW p \in Goroutines, Unlock(p) PROVE TypeOK' /\ PlaceInv'
  BY <1>19 DEF Unlock, TypeOK, PlaceInv, Locations, Writing, Cleaning, registration,
        ghosts, Goto
<1>20. ASSUME NEW p \in Goroutines, CheckDirty(p) PROVE TypeOK' /\ PlaceInv'
  BY <1>20 DEF CheckDirty, TypeOK, PlaceInv, Locations, Writing, Cleaning, registration,
        ghosts, Goto
<1>21. ASSUME NEW w \in Writers, RetryLock(w) PROVE TypeOK' /\ PlaceInv'
  <2>1. missed' \in BOOLEAN
    BY <1>21, Zenon DEF RetryLock, TypeOK, Looking
  <2>2. writebackLock' \in BOOLEAN /\ pc' \in [Goroutines -> Locations]
    BY <1>21 DEF RetryLock, TypeOK, Locations, Writing, Cleaning, Goto
  <2>3. TypeOK'
    BY <1>21, <2>1, <2>2 DEF RetryLock, TypeOK, registration, ghosts
  <2>4. PlaceInv'
    BY <1>21 DEF RetryLock, TypeOK, PlaceInv, Locations, Writing, Cleaning, registration,
          ghosts, Goto
  <2> QED BY <2>3, <2>4
<1>22. ASSUME Restart PROVE TypeOK' /\ PlaceInv'
  <2>1. ASSUME NEW u \in UUIDs, db[u] # NoRow
        PROVE  db[u] \in Row
    BY <2>1 DEF TypeOK
  <2>2. /\ founder' \in Accounts \cup {NoOne}
        /\ uuid' \in UUIDs
        /\ contents' \in 0 .. MaxChanges
    BY <1>22, <2>1 DEF Restart, TypeOK, Row
  <2>3. /\ pc' \in [Goroutines -> Locations]
        /\ info' \in [Goroutines -> Snapshot \cup {NoRow}]
        /\ old' \in [Callers -> 0 .. MaxUUIDs]
        /\ target' \in [Callers -> Accounts \cup {NoOne}]
    BY <1>22 DEF Restart, Locations
  <2>4. TypeOK'
    BY <1>22, <2>2, <2>3 DEF Restart, TypeOK
  <2>5. PlaceInv'
    BY <1>22 DEF Restart, PlaceInv
  <2> QED BY <2>4, <2>5
<1>23. ASSUME UNCHANGED vars PROVE TypeOK' /\ PlaceInv'
  BY <1>23 DEF vars, TypeOK, PlaceInv, Locations, Writing, Cleaning, registration, ghosts, Goto
<1> QED BY <1>1, <1>2, <1>3, <1>4, <1>5, <1>6, <1>7, <1>8, <1>9, <1>10, <1>11, <1>12,
      <1>13, <1>14, <1>15, <1>16, <1>17, <1>18, <1>19, <1>20, <1>21, <1>22,
      <1>23 DEF Next, Command, Write

(* Every step keeps one goroutine at most inside writebackLock.  The lock  *)
(* is handed from wakeWriter to the writeLoop it starts.                   *)
LEMMA NextLock ==
    TypeOK /\ PlaceInv /\ LockInv /\ [Next]_vars => LockInv'
<1> SUFFICES ASSUME TypeOK, PlaceInv, LockInv, [Next]_vars PROVE LockInv'
  OBVIOUS
<1> USE ChannelStoreAssumption DEF Goroutines
<1>1. ASSUME NEW c \in Callers, ChangeContents(c) PROVE LockInv'
  BY <1>1 DEF ChangeContents, TypeOK, PlaceInv, LockInv, OneWriter, Writing, Cleaning,
        registration, ghosts, Goto
<1>2. ASSUME NEW c \in Callers, MarkDirty(c) PROVE LockInv'
  BY <1>2 DEF MarkDirty, TypeOK, PlaceInv, LockInv, OneWriter, Writing, Cleaning,
        registration, ghosts, Goto
<1>3. ASSUME NEW c \in Callers, wakeWriter(c) PROVE LockInv'
  BY <1>3 DEF wakeWriter, TypeOK, PlaceInv, LockInv, OneWriter, Writing, Cleaning,
        registration, ghosts, Goto
<1>4. ASSUME NEW c \in Callers, SetUnregistered(c) PROVE LockInv'
  BY <1>4 DEF SetUnregistered, TypeOK, PlaceInv, LockInv, OneWriter, Writing, Cleaning,
        registration, ghosts, Goto
<1>5. ASSUME NEW c \in Callers, Unregistered(c) PROVE LockInv'
  BY <1>5 DEF Unregistered, TypeOK, PlaceInv, LockInv, OneWriter, Writing, Cleaning,
        registration, ghosts, Goto
<1>6. ASSUME NEW c \in Callers, DeleteRow(c) PROVE LockInv'
  BY <1>6 DEF DeleteRow, TypeOK, PlaceInv, LockInv, OneWriter, Writing, Cleaning,
        registration, ghosts, Goto
<1>7. ASSUME NEW c \in Callers, IsClean(c) PROVE LockInv'
  BY <1>7 DEF IsClean, TypeOK, PlaceInv, LockInv, OneWriter, Writing, Cleaning,
        registration, ghosts, Goto
<1>8. ASSUME NEW c \in Callers, IsCleanUnlock(c) PROVE LockInv'
  BY <1>8 DEF IsCleanUnlock, TypeOK, PlaceInv, LockInv, OneWriter, Writing, Cleaning,
        registration, ghosts, Goto
<1>9. ASSUME NEW c \in Callers, LockStore(c) PROVE LockInv'
  BY <1>9 DEF LockStore, TypeOK, PlaceInv, LockInv, OneWriter, Writing, Cleaning,
        registration, ghosts, Goto
<1>10. ASSUME NEW c \in Callers, NEW a \in Accounts, SetRegistered(c, a) PROVE LockInv'
  BY <1>10 DEF SetRegistered, TypeOK, PlaceInv, LockInv, OneWriter, Writing, Cleaning,
        registration, ghosts, Goto
<1>11. ASSUME NEW c \in Callers, NEW a \in Accounts, TransferComplete(c, a) PROVE LockInv'
  BY <1>11 DEF TransferComplete, TypeOK, PlaceInv, LockInv, OneWriter, Writing, Cleaning,
        registration, ghosts, Goto
<1>12. ASSUME NEW c \in Callers, NEW a \in Accounts, TransferOffer(c, a) PROVE LockInv'
  BY <1>12 DEF TransferOffer, TypeOK, PlaceInv, LockInv, OneWriter, Writing, Cleaning,
        registration, ghosts, Goto
<1>13. ASSUME NEW c \in Callers, NEW a \in Accounts, AcceptTransfer(c, a) PROVE LockInv'
  BY <1>13 DEF AcceptTransfer, TypeOK, PlaceInv, LockInv, OneWriter, Writing, Cleaning,
        registration, ghosts, Goto
<1>14. ASSUME NEW c \in Callers, NEW a \in Accounts, UnregisterCheck(c, a) PROVE LockInv'
  BY <1>14 DEF UnregisterCheck, TypeOK, PlaceInv, LockInv, OneWriter, Writing, Cleaning,
        registration, ghosts, Goto
<1>15. ASSUME NEW p \in Goroutines, TakeDirty(p) PROVE LockInv'
  BY <1>15 DEF TakeDirty, TypeOK, PlaceInv, LockInv, OneWriter, Writing, Cleaning,
        registration, ghosts, Goto
<1>16. ASSUME NEW p \in Goroutines, ExportRegistration(p) PROVE LockInv'
  BY <1>16 DEF ExportRegistration, TypeOK, PlaceInv, LockInv, OneWriter, Writing,
        Cleaning, registration, ghosts, Goto
<1>17. ASSUME NEW p \in Goroutines, SetRow(p) PROVE LockInv'
  BY <1>17 DEF SetRow, TypeOK, PlaceInv, LockInv, OneWriter, Writing, Cleaning,
        registration, ghosts, Goto
<1>18. ASSUME NEW p \in Goroutines, RestoreDirty(p) PROVE LockInv'
  BY <1>18 DEF RestoreDirty, TypeOK, PlaceInv, LockInv, OneWriter, Writing, Cleaning,
        registration, ghosts, Goto
<1>19. ASSUME NEW p \in Goroutines, Unlock(p) PROVE LockInv'
  BY <1>19 DEF Unlock, TypeOK, PlaceInv, LockInv, OneWriter, Writing, Cleaning,
        registration, ghosts, Goto
<1>20. ASSUME NEW p \in Goroutines, CheckDirty(p) PROVE LockInv'
  BY <1>20 DEF CheckDirty, TypeOK, PlaceInv, LockInv, OneWriter, Writing, Cleaning,
        registration, ghosts, Goto
<1>21. ASSUME NEW w \in Writers, RetryLock(w) PROVE LockInv'
  BY <1>21 DEF RetryLock, TypeOK, PlaceInv, LockInv, OneWriter, Writing, Cleaning,
        registration, ghosts, Goto
<1>22. ASSUME Restart PROVE LockInv'
  BY <1>22 DEF Restart, TypeOK, PlaceInv, LockInv, OneWriter, Writing, Cleaning,
        registration, ghosts, Goto
<1>23. ASSUME UNCHANGED vars PROVE LockInv'
  BY <1>23 DEF vars, TypeOK, PlaceInv, LockInv, OneWriter, Writing, Cleaning,
        registration, ghosts, Goto
<1> QED BY <1>1, <1>2, <1>3, <1>4, <1>5, <1>6, <1>7, <1>8, <1>9, <1>10, <1>11, <1>12,
      <1>13, <1>14, <1>15, <1>16, <1>17, <1>18, <1>19, <1>20, <1>21, <1>22,
      <1>23 DEF Next, Command, Write

(* Whatever makes a snapshot stale while it is being written is followed   *)
(* by a write of its own; nobody takes the dirty bits in between.          *)
LEMMA NextSnapshot ==
    TypeOK /\ PlaceInv /\ LockInv /\ SnapshotInv /\ [Next]_vars => SnapshotInv'
<1> SUFFICES ASSUME TypeOK, PlaceInv, LockInv, SnapshotInv, [Next]_vars PROVE SnapshotInv'
  OBVIOUS
<1> USE ChannelStoreAssumption DEF Goroutines
<1>1. ASSUME NEW c \in Callers, ChangeContents(c) PROVE SnapshotInv'
  BY <1>1 DEF ChangeContents, TypeOK, LockInv, OneWriter, SnapshotInv, Announced,
        isRegistered, current, Writing, Cleaning, registration, ghosts, Goto
<1>2. ASSUME NEW c \in Callers, MarkDirty(c) PROVE SnapshotInv'
  BY <1>2 DEF MarkDirty, TypeOK, LockInv, OneWriter, SnapshotInv, Announced,
        isRegistered, current, Writing, Cleaning, registration, ghosts, Goto
<1>3. ASSUME NEW c \in Callers, wakeWriter(c) PROVE SnapshotInv'
  BY <1>3 DEF wakeWriter, TypeOK, LockInv, OneWriter, SnapshotInv, Announced,
        isRegistered, current, Writing, Cleaning, registration, ghosts, Goto
<1>4. ASSUME NEW c \in Callers, SetUnregistered(c) PROVE SnapshotInv'
  BY <1>4 DEF SetUnregistered, TypeOK, LockInv, OneWriter, SnapshotInv, Announced,
        isRegistered, current, Writing, Cleaning, registration, ghosts, Goto
<1>5. ASSUME NEW c \in Callers, Unregistered(c) PROVE SnapshotInv'
  BY <1>5 DEF Unregistered, TypeOK, LockInv, OneWriter, SnapshotInv, Announced,
        isRegistered, current, Writing, Cleaning, registration, ghosts, Goto
<1>6. ASSUME NEW c \in Callers, DeleteRow(c) PROVE SnapshotInv'
  BY <1>6 DEF DeleteRow, TypeOK, LockInv, OneWriter, SnapshotInv, Announced,
        isRegistered, current, Writing, Cleaning, registration, ghosts, Goto
<1>7. ASSUME NEW c \in Callers, IsClean(c) PROVE SnapshotInv'
  BY <1>7 DEF IsClean, TypeOK, LockInv, OneWriter, SnapshotInv, Announced, isRegistered,
        current, Writing, Cleaning, registration, ghosts, Goto
<1>8. ASSUME NEW c \in Callers, IsCleanUnlock(c) PROVE SnapshotInv'
  BY <1>8 DEF IsCleanUnlock, TypeOK, LockInv, OneWriter, SnapshotInv, Announced,
        isRegistered, current, Writing, Cleaning, registration, ghosts, Goto
<1>9. ASSUME NEW c \in Callers, LockStore(c) PROVE SnapshotInv'
  BY <1>9 DEF LockStore, TypeOK, LockInv, OneWriter, SnapshotInv, Announced,
        isRegistered, current, Writing, Cleaning, registration, ghosts, Goto
<1>10. ASSUME NEW c \in Callers, NEW a \in Accounts, SetRegistered(c, a) PROVE SnapshotInv'
  BY <1>10 DEF SetRegistered, TypeOK, LockInv, OneWriter, SnapshotInv, Announced,
        isRegistered, current, Writing, Cleaning, registration, ghosts, Goto
<1>11. ASSUME NEW c \in Callers, NEW a \in Accounts, TransferComplete(c, a) PROVE SnapshotInv'
  BY <1>11 DEF TransferComplete, TypeOK, LockInv, OneWriter, SnapshotInv, Announced,
        isRegistered, current, Writing, Cleaning, registration, ghosts, Goto
<1>12. ASSUME NEW c \in Callers, NEW a \in Accounts, TransferOffer(c, a) PROVE SnapshotInv'
  BY <1>12 DEF TransferOffer, TypeOK, LockInv, OneWriter, SnapshotInv, Announced,
        isRegistered, current, Writing, Cleaning, registration, ghosts, Goto
<1>13. ASSUME NEW c \in Callers, NEW a \in Accounts, AcceptTransfer(c, a) PROVE SnapshotInv'
  BY <1>13 DEF AcceptTransfer, TypeOK, LockInv, OneWriter, SnapshotInv, Announced,
        isRegistered, current, Writing, Cleaning, registration, ghosts, Goto
<1>14. ASSUME NEW c \in Callers, NEW a \in Accounts, UnregisterCheck(c, a) PROVE SnapshotInv'
  BY <1>14 DEF UnregisterCheck, TypeOK, LockInv, OneWriter, SnapshotInv, Announced,
        isRegistered, current, Writing, Cleaning, registration, ghosts, Goto
<1>15. ASSUME NEW p \in Goroutines, TakeDirty(p) PROVE SnapshotInv'
  BY <1>15 DEF TakeDirty, TypeOK, LockInv, OneWriter, SnapshotInv, Announced,
        isRegistered, current, Writing, Cleaning, registration, ghosts, Goto
<1>16. ASSUME NEW p \in Goroutines, ExportRegistration(p) PROVE SnapshotInv'
  BY <1>16 DEF ExportRegistration, TypeOK, LockInv, OneWriter, SnapshotInv, Announced,
        isRegistered, current, Writing, Cleaning, registration, ghosts, Goto
<1>17. ASSUME NEW p \in Goroutines, SetRow(p) PROVE SnapshotInv'
  BY <1>17 DEF SetRow, TypeOK, LockInv, OneWriter, SnapshotInv, Announced, isRegistered,
        current, Writing, Cleaning, registration, ghosts, Goto
<1>18. ASSUME NEW p \in Goroutines, RestoreDirty(p) PROVE SnapshotInv'
  BY <1>18 DEF RestoreDirty, TypeOK, LockInv, OneWriter, SnapshotInv, Announced,
        isRegistered, current, Writing, Cleaning, registration, ghosts, Goto
<1>19. ASSUME NEW p \in Goroutines, Unlock(p) PROVE SnapshotInv'
  BY <1>19 DEF Unlock, TypeOK, LockInv, OneWriter, SnapshotInv, Announced, isRegistered,
        current, Writing, Cleaning, registration, ghosts, Goto
<1>20. ASSUME NEW p \in Goroutines, CheckDirty(p) PROVE SnapshotInv'
  BY <1>20 DEF CheckDirty, TypeOK, LockInv, OneWriter, SnapshotInv, Announced,
        isRegistered, current, Writing, Cleaning, registration, ghosts, Goto
<1>21. ASSUME NEW w \in Writers, RetryLock(w) PROVE SnapshotInv'
  BY <1>21 DEF RetryLock, TypeOK, LockInv, OneWriter, SnapshotInv, Announced,
        isRegistered, current, Writing, Cleaning, registration, ghosts, Goto
<1>22. ASSUME Restart PROVE SnapshotInv'
  BY <1>22 DEF Restart, TypeOK, LockInv, OneWriter, SnapshotInv, Announced, isRegistered,
        current, Writing, Cleaning, registration, ghosts, Goto
<1>23. ASSUME UNCHANGED vars PROVE SnapshotInv'
  BY <1>23 DEF vars, TypeOK, LockInv, OneWriter, SnapshotInv, Announced, isRegistered,
        current, Writing, Cleaning, registration, ghosts, Goto
<1> QED BY <1>1, <1>2, <1>3, <1>4, <1>5, <1>6, <1>7, <1>8, <1>9, <1>10, <1>11, <1>12,
      <1>13, <1>14, <1>15, <1>16, <1>17, <1>18, <1>19, <1>20, <1>21, <1>22,
      <1>23 DEF Next, Command, Write

(* No step makes the channel look clean when it is not saved: the stale    *)
(* snapshots (SnapshotInv) and the failed writes are the cases to argue.   *)
LEMMA NextUnsaved ==
    TypeOK /\ PlaceInv /\ LockInv /\ SnapshotInv /\ UnsavedIsDirtyUnlessLost /\ [Next]_vars => UnsavedIsDirtyUnlessLost'
<1> SUFFICES ASSUME TypeOK, PlaceInv, LockInv, SnapshotInv, UnsavedIsDirtyUnlessLost,
      [Next]_vars PROVE UnsavedIsDirtyUnlessLost'
  OBVIOUS
<1> USE ChannelStoreAssumption DEF Goroutines
<1>1. ASSUME NEW c \in Callers, ChangeContents(c) PROVE UnsavedIsDirtyUnlessLost'
  BY <1>1 DEF ChangeContents, TypeOK, PlaceInv, LockInv, OneWriter, SnapshotInv,
        Announced, UnsavedIsDirtyUnlessLost, UnsavedIsDirty, isRegistered, current,
        Writing, Cleaning, registration, ghosts, Goto
<1>2. ASSUME NEW c \in Callers, MarkDirty(c) PROVE UnsavedIsDirtyUnlessLost'
  BY <1>2 DEF MarkDirty, TypeOK, PlaceInv, LockInv, OneWriter, SnapshotInv, Announced,
        UnsavedIsDirtyUnlessLost, UnsavedIsDirty, isRegistered, current, Writing,
        Cleaning, registration, ghosts, Goto
<1>3. ASSUME NEW c \in Callers, wakeWriter(c) PROVE UnsavedIsDirtyUnlessLost'
  BY <1>3 DEF wakeWriter, TypeOK, PlaceInv, LockInv, OneWriter, SnapshotInv, Announced,
        UnsavedIsDirtyUnlessLost, UnsavedIsDirty, isRegistered, current, Writing,
        Cleaning, registration, ghosts, Goto
<1>4. ASSUME NEW c \in Callers, SetUnregistered(c) PROVE UnsavedIsDirtyUnlessLost'
  BY <1>4 DEF SetUnregistered, TypeOK, PlaceInv, LockInv, OneWriter, SnapshotInv,
        Announced, UnsavedIsDirtyUnlessLost, UnsavedIsDirty, isRegistered, current,
        Writing, Cleaning, registration, ghosts, Goto
<1>5. ASSUME NEW c \in Callers, Unregistered(c) PROVE UnsavedIsDirtyUnlessLost'
  BY <1>5 DEF Unregistered, TypeOK, PlaceInv, LockInv, OneWriter, SnapshotInv, Announced,
        UnsavedIsDirtyUnlessLost, UnsavedIsDirty, isRegistered, current, Writing,
        Cleaning, registration, ghosts, Goto
<1>6. ASSUME NEW c \in Callers, DeleteRow(c) PROVE UnsavedIsDirtyUnlessLost'
  BY <1>6 DEF DeleteRow, TypeOK, PlaceInv, LockInv, OneWriter, SnapshotInv, Announced,
        UnsavedIsDirtyUnlessLost, UnsavedIsDirty, isRegistered, current, Writing,
        Cleaning, registration, ghosts, Goto
<1>7. ASSUME NEW c \in Callers, IsClean(c) PROVE UnsavedIsDirtyUnlessLost'
  BY <1>7 DEF IsClean, TypeOK, PlaceInv, LockInv, OneWriter, SnapshotInv, Announced,
        UnsavedIsDirtyUnlessLost, UnsavedIsDirty, isRegistered, current, Writing,
        Cleaning, registration, ghosts, Goto
<1>8. ASSUME NEW c \in Callers, IsCleanUnlock(c) PROVE UnsavedIsDirtyUnlessLost'
  BY <1>8 DEF IsCleanUnlock, TypeOK, PlaceInv, LockInv, OneWriter, SnapshotInv,
        Announced, UnsavedIsDirtyUnlessLost, UnsavedIsDirty, isRegistered, current,
        Writing, Cleaning, registration, ghosts, Goto
<1>9. ASSUME NEW c \in Callers, LockStore(c) PROVE UnsavedIsDirtyUnlessLost'
  BY <1>9 DEF LockStore, TypeOK, PlaceInv, LockInv, OneWriter, SnapshotInv, Announced,
        UnsavedIsDirtyUnlessLost, UnsavedIsDirty, isRegistered, current, Writing,
        Cleaning, registration, ghosts, Goto
<1>10. ASSUME NEW c \in Callers, NEW a \in Accounts, SetRegistered(c,
      a) PROVE UnsavedIsDirtyUnlessLost'
  BY <1>10 DEF SetRegistered, TypeOK, PlaceInv, LockInv, OneWriter, SnapshotInv,
        Announced, UnsavedIsDirtyUnlessLost, UnsavedIsDirty, isRegistered, current,
        Writing, Cleaning, registration, ghosts, Goto
<1>11. ASSUME NEW c \in Callers, NEW a \in Accounts, TransferComplete(c,
      a) PROVE UnsavedIsDirtyUnlessLost'
  BY <1>11 DEF TransferComplete, TypeOK, PlaceInv, LockInv, OneWriter, SnapshotInv,
        Announced, UnsavedIsDirtyUnlessLost, UnsavedIsDirty, isRegistered, current,
        Writing, Cleaning, registration, ghosts, Goto
<1>12. ASSUME NEW c \in Callers, NEW a \in Accounts, TransferOffer(c,
      a) PROVE UnsavedIsDirtyUnlessLost'
  BY <1>12 DEF TransferOffer, TypeOK, PlaceInv, LockInv, OneWriter, SnapshotInv,
        Announced, UnsavedIsDirtyUnlessLost, UnsavedIsDirty, isRegistered, current,
        Writing, Cleaning, registration, ghosts, Goto
<1>13. ASSUME NEW c \in Callers, NEW a \in Accounts, AcceptTransfer(c,
      a) PROVE UnsavedIsDirtyUnlessLost'
  BY <1>13 DEF AcceptTransfer, TypeOK, PlaceInv, LockInv, OneWriter, SnapshotInv,
        Announced, UnsavedIsDirtyUnlessLost, UnsavedIsDirty, isRegistered, current,
        Writing, Cleaning, registration, ghosts, Goto
<1>14. ASSUME NEW c \in Callers, NEW a \in Accounts, UnregisterCheck(c,
      a) PROVE UnsavedIsDirtyUnlessLost'
  BY <1>14 DEF UnregisterCheck, TypeOK, PlaceInv, LockInv, OneWriter, SnapshotInv,
        Announced, UnsavedIsDirtyUnlessLost, UnsavedIsDirty, isRegistered, current,
        Writing, Cleaning, registration, ghosts, Goto
<1>15. ASSUME NEW p \in Goroutines, TakeDirty(p) PROVE UnsavedIsDirtyUnlessLost'
  BY <1>15 DEF TakeDirty, TypeOK, PlaceInv, LockInv, OneWriter, SnapshotInv, Announced,
        UnsavedIsDirtyUnlessLost, UnsavedIsDirty, isRegistered, current, Writing,
        Cleaning, registration, ghosts, Goto
<1>16. ASSUME NEW p \in Goroutines, ExportRegistration(p) PROVE UnsavedIsDirtyUnlessLost'
  BY <1>16 DEF ExportRegistration, TypeOK, PlaceInv, LockInv, OneWriter, SnapshotInv,
        Announced, UnsavedIsDirtyUnlessLost, UnsavedIsDirty, isRegistered, current,
        Writing, Cleaning, registration, ghosts, Goto
<1>17. ASSUME NEW p \in Goroutines, SetRow(p) PROVE UnsavedIsDirtyUnlessLost'
  BY <1>17 DEF SetRow, TypeOK, PlaceInv, LockInv, OneWriter, SnapshotInv, Announced,
        UnsavedIsDirtyUnlessLost, UnsavedIsDirty, isRegistered, current, Writing,
        Cleaning, registration, ghosts, Goto
<1>18. ASSUME NEW p \in Goroutines, RestoreDirty(p) PROVE UnsavedIsDirtyUnlessLost'
  BY <1>18 DEF RestoreDirty, TypeOK, PlaceInv, LockInv, OneWriter, SnapshotInv,
        Announced, UnsavedIsDirtyUnlessLost, UnsavedIsDirty, isRegistered, current,
        Writing, Cleaning, registration, ghosts, Goto
<1>19. ASSUME NEW p \in Goroutines, Unlock(p) PROVE UnsavedIsDirtyUnlessLost'
  BY <1>19 DEF Unlock, TypeOK, PlaceInv, LockInv, OneWriter, SnapshotInv, Announced,
        UnsavedIsDirtyUnlessLost, UnsavedIsDirty, isRegistered, current, Writing,
        Cleaning, registration, ghosts, Goto
<1>20. ASSUME NEW p \in Goroutines, CheckDirty(p) PROVE UnsavedIsDirtyUnlessLost'
  BY <1>20 DEF CheckDirty, TypeOK, PlaceInv, LockInv, OneWriter, SnapshotInv, Announced,
        UnsavedIsDirtyUnlessLost, UnsavedIsDirty, isRegistered, current, Writing,
        Cleaning, registration, ghosts, Goto
<1>21. ASSUME NEW w \in Writers, RetryLock(w) PROVE UnsavedIsDirtyUnlessLost'
  BY <1>21 DEF RetryLock, TypeOK, PlaceInv, LockInv, OneWriter, SnapshotInv, Announced,
        UnsavedIsDirtyUnlessLost, UnsavedIsDirty, isRegistered, current, Writing,
        Cleaning, registration, ghosts, Goto
<1>22. ASSUME Restart PROVE UnsavedIsDirtyUnlessLost'
  <2>1. ASSUME NEW u \in UUIDs, db[u] # NoRow
        PROVE  db[u] \in Row
    BY <2>1 DEF TypeOK
  <2>2. isRegistered' => db'[uuid'] = current'
    BY <1>22, <2>1 DEF Restart, Row, isRegistered, current
  <2> QED BY <2>2 DEF UnsavedIsDirtyUnlessLost, UnsavedIsDirty
<1>23. ASSUME UNCHANGED vars PROVE UnsavedIsDirtyUnlessLost'
  BY <1>23 DEF vars, TypeOK, PlaceInv, LockInv, OneWriter, SnapshotInv, Announced,
        UnsavedIsDirtyUnlessLost, UnsavedIsDirty, isRegistered, current, Writing,
        Cleaning, registration, ghosts, Goto
<1> QED BY <1>1, <1>2, <1>3, <1>4, <1>5, <1>6, <1>7, <1>8, <1>9, <1>10, <1>11, <1>12,
      <1>13, <1>14, <1>15, <1>16, <1>17, <1>18, <1>19, <1>20, <1>21, <1>22,
      <1>23 DEF Next, Command, Write

(* A TryLock may fail only because somebody holds the lock: a writer, who  *)
(* will look again after the release, or IsClean.                          *)
LEMMA NextComing ==
    TypeOK /\ PlaceInv /\ LockInv /\ WriterIsComingUnlessMissed /\ [Next]_vars => WriterIsComingUnlessMissed'
<1> SUFFICES ASSUME TypeOK, PlaceInv, LockInv, WriterIsComingUnlessMissed,
      [Next]_vars PROVE WriterIsComingUnlessMissed'
  OBVIOUS
<1> USE ChannelStoreAssumption DEF Goroutines
<1>1. ASSUME NEW c \in Callers, ChangeContents(c) PROVE WriterIsComingUnlessMissed'
  BY <1>1 DEF ChangeContents, TypeOK, PlaceInv, LockInv, OneWriter,
        WriterIsComingUnlessMissed, WriterIsComing, Looking, isRegistered, Writing,
        Cleaning, registration, ghosts, Goto
<1>2. ASSUME NEW c \in Callers, MarkDirty(c) PROVE WriterIsComingUnlessMissed'
  BY <1>2 DEF MarkDirty, TypeOK, PlaceInv, LockInv, OneWriter,
        WriterIsComingUnlessMissed, WriterIsComing, Looking, isRegistered, Writing,
        Cleaning, registration, ghosts, Goto
<1>3. ASSUME NEW c \in Callers, wakeWriter(c) PROVE WriterIsComingUnlessMissed'
  BY <1>3, ZenonT(60) DEF wakeWriter, TypeOK, PlaceInv, LockInv, OneWriter,
        WriterIsComingUnlessMissed, WriterIsComing, Looking, isRegistered, Writing,
        Cleaning, registration, ghosts, Goto
<1>4. ASSUME NEW c \in Callers, SetUnregistered(c) PROVE WriterIsComingUnlessMissed'
  BY <1>4 DEF SetUnregistered, TypeOK, PlaceInv, LockInv, OneWriter,
        WriterIsComingUnlessMissed, WriterIsComing, Looking, isRegistered, Writing,
        Cleaning, registration, ghosts, Goto
<1>5. ASSUME NEW c \in Callers, Unregistered(c) PROVE WriterIsComingUnlessMissed'
  BY <1>5 DEF Unregistered, TypeOK, PlaceInv, LockInv, OneWriter,
        WriterIsComingUnlessMissed, WriterIsComing, Looking, isRegistered, Writing,
        Cleaning, registration, ghosts, Goto
<1>6. ASSUME NEW c \in Callers, DeleteRow(c) PROVE WriterIsComingUnlessMissed'
  BY <1>6 DEF DeleteRow, TypeOK, PlaceInv, LockInv, OneWriter,
        WriterIsComingUnlessMissed, WriterIsComing, Looking, isRegistered, Writing,
        Cleaning, registration, ghosts, Goto
<1>7. ASSUME NEW c \in Callers, IsClean(c) PROVE WriterIsComingUnlessMissed'
  BY <1>7 DEF IsClean, TypeOK, PlaceInv, LockInv, OneWriter, WriterIsComingUnlessMissed,
        WriterIsComing, Looking, isRegistered, Writing, Cleaning, registration, ghosts,
        Goto
<1>8. ASSUME NEW c \in Callers, IsCleanUnlock(c) PROVE WriterIsComingUnlessMissed'
  BY <1>8 DEF IsCleanUnlock, TypeOK, PlaceInv, LockInv, OneWriter,
        WriterIsComingUnlessMissed, WriterIsComing, Looking, isRegistered, Writing,
        Cleaning, registration, ghosts, Goto
<1>9. ASSUME NEW c \in Callers, LockStore(c) PROVE WriterIsComingUnlessMissed'
  BY <1>9 DEF LockStore, TypeOK, PlaceInv, LockInv, OneWriter,
        WriterIsComingUnlessMissed, WriterIsComing, Looking, isRegistered, Writing,
        Cleaning, registration, ghosts, Goto
<1>10. ASSUME NEW c \in Callers, NEW a \in Accounts, SetRegistered(c,
      a) PROVE WriterIsComingUnlessMissed'
  BY <1>10 DEF SetRegistered, TypeOK, PlaceInv, LockInv, OneWriter,
        WriterIsComingUnlessMissed, WriterIsComing, Looking, isRegistered, Writing,
        Cleaning, registration, ghosts, Goto
<1>11. ASSUME NEW c \in Callers, NEW a \in Accounts, TransferComplete(c,
      a) PROVE WriterIsComingUnlessMissed'
  BY <1>11 DEF TransferComplete, TypeOK, PlaceInv, LockInv, OneWriter,
        WriterIsComingUnlessMissed, WriterIsComing, Looking, isRegistered, Writing,
        Cleaning, registration, ghosts, Goto
<1>12. ASSUME NEW c \in Callers, NEW a \in Accounts, TransferOffer(c,
      a) PROVE WriterIsComingUnlessMissed'
  BY <1>12 DEF TransferOffer, TypeOK, PlaceInv, LockInv, OneWriter,
        WriterIsComingUnlessMissed, WriterIsComing, Looking, isRegistered, Writing,
        Cleaning, registration, ghosts, Goto
<1>13. ASSUME NEW c \in Callers, NEW a \in Accounts, AcceptTransfer(c,
      a) PROVE WriterIsComingUnlessMissed'
  BY <1>13 DEF AcceptTransfer, TypeOK, PlaceInv, LockInv, OneWriter,
        WriterIsComingUnlessMissed, WriterIsComing, Looking, isRegistered, Writing,
        Cleaning, registration, ghosts, Goto
<1>14. ASSUME NEW c \in Callers, NEW a \in Accounts, UnregisterCheck(c,
      a) PROVE WriterIsComingUnlessMissed'
  BY <1>14 DEF UnregisterCheck, TypeOK, PlaceInv, LockInv, OneWriter,
        WriterIsComingUnlessMissed, WriterIsComing, Looking, isRegistered, Writing,
        Cleaning, registration, ghosts, Goto
<1>15. ASSUME NEW p \in Goroutines, TakeDirty(p) PROVE WriterIsComingUnlessMissed'
  BY <1>15 DEF TakeDirty, TypeOK, PlaceInv, LockInv, OneWriter,
        WriterIsComingUnlessMissed, WriterIsComing, Looking, isRegistered, Writing,
        Cleaning, registration, ghosts, Goto
<1>16. ASSUME NEW p \in Goroutines, ExportRegistration(p) PROVE WriterIsComingUnlessMissed'
  BY <1>16 DEF ExportRegistration, TypeOK, PlaceInv, LockInv, OneWriter,
        WriterIsComingUnlessMissed, WriterIsComing, Looking, isRegistered, Writing,
        Cleaning, registration, ghosts, Goto
<1>17. ASSUME NEW p \in Goroutines, SetRow(p) PROVE WriterIsComingUnlessMissed'
  BY <1>17 DEF SetRow, TypeOK, PlaceInv, LockInv, OneWriter, WriterIsComingUnlessMissed,
        WriterIsComing, Looking, isRegistered, Writing, Cleaning, registration, ghosts,
        Goto
<1>18. ASSUME NEW p \in Goroutines, RestoreDirty(p) PROVE WriterIsComingUnlessMissed'
  BY <1>18 DEF RestoreDirty, TypeOK, PlaceInv, LockInv, OneWriter,
        WriterIsComingUnlessMissed, WriterIsComing, Looking, isRegistered, Writing,
        Cleaning, registration, ghosts, Goto
<1>19. ASSUME NEW p \in Goroutines, Unlock(p) PROVE WriterIsComingUnlessMissed'
  BY <1>19 DEF Unlock, TypeOK, PlaceInv, LockInv, OneWriter, WriterIsComingUnlessMissed,
        WriterIsComing, Looking, isRegistered, Writing, Cleaning, registration, ghosts,
        Goto
<1>20. ASSUME NEW p \in Goroutines, CheckDirty(p) PROVE WriterIsComingUnlessMissed'
  BY <1>20 DEF CheckDirty, TypeOK, PlaceInv, LockInv, OneWriter,
        WriterIsComingUnlessMissed, WriterIsComing, Looking, isRegistered, Writing,
        Cleaning, registration, ghosts, Goto
<1>21. ASSUME NEW w \in Writers, RetryLock(w) PROVE WriterIsComingUnlessMissed'
  BY <1>21 DEF RetryLock, TypeOK, PlaceInv, LockInv, OneWriter,
        WriterIsComingUnlessMissed, WriterIsComing, Looking, isRegistered, Writing,
        Cleaning, registration, ghosts, Goto
<1>22. ASSUME Restart PROVE WriterIsComingUnlessMissed'
  BY <1>22 DEF Restart, TypeOK, PlaceInv, LockInv, OneWriter, WriterIsComingUnlessMissed,
        WriterIsComing, Looking, isRegistered, Writing, Cleaning, registration, ghosts,
        Goto
<1>23. ASSUME UNCHANGED vars PROVE WriterIsComingUnlessMissed'
  BY <1>23 DEF vars, TypeOK, PlaceInv, LockInv, OneWriter, WriterIsComingUnlessMissed,
        WriterIsComing, Looking, isRegistered, Writing, Cleaning, registration, ghosts,
        Goto
<1> QED BY <1>1, <1>2, <1>3, <1>4, <1>5, <1>6, <1>7, <1>8, <1>9, <1>10, <1>11, <1>12,
      <1>13, <1>14, <1>15, <1>16, <1>17, <1>18, <1>19, <1>20, <1>21, <1>22,
      <1>23 DEF Next, Command, Write

(***************************************************************************)
(* The inductive invariant holds in every behaviour.                       *)
(***************************************************************************)
LEMMA StoreInvariant == Spec => [](TypeOK /\ StoreInv)
<1>1. TypeOK /\ StoreInv /\ [Next]_vars => TypeOK' /\ StoreInv'
  BY NextType, NextLock, NextSnapshot, NextUnsaved, NextComing DEF StoreInv
<1> QED BY <1>1, InitInv, PTL DEF Spec

(***************************************************************************)
(* The variables of a channel's registration (channel.go, Channel) keep    *)
(* their types; a goroutine that calls dstore.Set has a snapshot to store. *)
(***************************************************************************)
THEOREM StoreTypeCorrect == Spec => [](TypeOK /\ PlaceInv)
<1>1. TypeOK /\ StoreInv => TypeOK /\ PlaceInv
  BY DEF StoreInv
<1> QED BY <1>1, StoreInvariant, PTL

(***************************************************************************)
(* A channel never looks clean when it is not saved (channel.go, MarkDirty *)
(* to performWrite), however many commands, writers, failures and restarts *)
(* overlap, except after an unregistration that raced with a transfer.     *)
(***************************************************************************)
THEOREM StoreUnsavedIsDirty == Spec => []UnsavedIsDirtyUnlessLost
<1>1. StoreInv => UnsavedIsDirtyUnlessLost
  BY DEF StoreInv
<1> QED BY <1>1, StoreInvariant, PTL

(***************************************************************************)
(* A dirty registered channel always has somebody who will write it or see *)
(* that it is dirty (wakeWriter, writeLoop, Store), except after a TryLock *)
(* that failed against IsClean.                                            *)
(***************************************************************************)
THEOREM StoreWriterIsComing == Spec => []WriterIsComingUnlessMissed
<1>1. StoreInv => WriterIsComingUnlessMissed
  BY DEF StoreInv
<1> QED BY <1>1, StoreInvariant, PTL

(***************************************************************************)
(* writebackLock serializes the writes of a channel.                       *)
(***************************************************************************)
THEOREM StoreOneWriter == Spec => []OneWriter
<1>1. StoreInv => OneWriter
  BY DEF StoreInv, LockInv
<1> QED BY <1>1, StoreInvariant, PTL
=============================================================================
