----------------------------- MODULE RestartProofs -----------------------------
(***************************************************************************)
(* What survives crashes: the types, the order of the fallback storage,    *)
(* what a crash may lose and which events it leaves waiting, for every     *)
(* number of crashes and snapshots.                                        *)
(***************************************************************************)
EXTENDS Restart, LossProofs

\* A snapshot is a storage of earlier, and CrashAndRestart makes it the storage again.
SnapshotInv ==
  /\ snapshot \in [DB -> Seq(Message)]
  /\ \A d \in DB : OrderedBefore(snapshot[d], d, events + 1)
  /\ crashes \in Nat

\* HeartbeatIsScheduled does not survive a crash; OnlyRestoredEventsWait takes its place.
RestartInv == NodeInv /\ StorageInv /\ SnapshotInv /\ OnlyRestoredEventsWait

-----------------------------------------------------------------------------

LEMMA RestartInvInit == RestartInit => RestartInv
<1> SUFFICES ASSUME RestartInit PROVE RestartInv
  OBVIOUS
<1>1. NodeInv /\ StorageInv
  BY HandlerInvInit, StorageInvInit DEF RestartInit, HandlerInv
<1>2. SnapshotInv
  <2>1. snapshot \in [DB -> Seq(Message)] /\ crashes \in Nat
    BY <1>1 DEF NodeInv, TypeOK, StorageTypeOK, RestartInit
  <2>2. pc = "idle"
    BY DEF RestartInit, Init
  <2> QED
    BY <1>1, <2>1, <2>2 DEF RestartInit, StorageInv, SnapshotInv
<1>3. OnlyRestoredEventsWait
  BY DEF RestartInit, Init, AmqpInit, OnlyRestoredEventsWait
<1> QED
  BY <1>1, <1>2, <1>3 DEF RestartInv

\* Events are only ever added.
LEMMA EventsGrow ==
  ASSUME TypeOK, [Next]_vars
  PROVE  events' = events \/ events' = events + 1
<1>1. CASE \E d \in DB, k \in Key : OnKeyspaceEvent(d, k)
  BY <1>1 DEF OnKeyspaceEvent
<1>2. CASE CallbackStep
  BY <1>2
  DEF CallbackStep, PublishEventOk, PublishEventFails, PublishStoredOk, PublishStoredFails,
      PublishStoredDone, TimerReconnects, TimerReconnectFails
<1>3. CASE \E t \in Timer : CheckFramesAndHeartbeat(t)
  BY <1>3
  DEF CheckFramesAndHeartbeat, TimerDies, TimerFindsConnection, TimerFindsNoConnection,
      TimerFires
<1>4. CASE Command
  BY <1>4
  DEF Command, ConnectCommandFails, ConnectCommandOk, SetupConfigCommand,
      FallbackStorageSizeCommand, KeymaskAddCommand, KeymaskSetCommand, KeymaskCleanCommand,
      KeymaskUnchanged, DisconnectCommand
<1>5. CASE RoleChange \/ Environment \/ UNCHANGED vars
  BY <1>5 DEF RoleChange, Environment, nodeVars, vars
<1> QED
  BY <1>1, <1>2, <1>3, <1>4, <1>5 DEF Next

\* A node that runs keeps the snapshot it has.
LEMMA SnapshotInvKept ==
  ASSUME TypeOK, SnapshotInv, [Next]_vars, UNCHANGED <<snapshot, crashes>>
  PROVE  SnapshotInv'
<1>1. CASE events' = events
  BY <1>1 DEF SnapshotInv
<1>2. CASE events' = events + 1
  <2>1. events + 1 \in Nat
    BY DEF TypeOK
  <2> QED
    BY <1>2, <2>1, OrderedWeaker DEF SnapshotInv
<1> QED
  BY <1>1, <1>2, EventsGrow

-----------------------------------------------------------------------------
(***************************************************************************)
(* Events that wait.                                                       *)
(***************************************************************************)

\* A running node: the handle is only given up for the heartbeat itself or with the
\* module disabled, and without it nothing touches storage or connection.
LEMMA OnlyRestoredEventsWaitStep ==
  ASSUME NodeInv, OnlyRestoredEventsWait, [Next]_vars, UNCHANGED snapshot
  PROVE  OnlyRestoredEventsWait'
<1> USE DEF OnlyRestoredEventsWait
<1>0. TypeOK /\ CallbackInv /\ TimerHandleIsPending
  BY DEF NodeInv
<1>1. CASE \E d \in DB, k \in Key : OnKeyspaceEvent(d, k)
  <2>1. heardBeatTimerId' # 0
    BY <1>1, CreateTimerHandle DEF OnKeyspaceEvent, LazyConnect, timerVars
  <2> QED
    BY <2>1
<1>2. CASE CallbackStep
  <2>1. heardBeatTimerId # 0 \/ inTimer
    BY <1>0, <1>2
    DEF CallbackInv, CallbackStep, PublishEventOk, PublishEventFails, PublishStoredOk,
        PublishStoredFails, PublishStoredDone, TimerReconnects, TimerReconnectFails
  <2>2. CASE Return
    BY <1>0, <2>1, <2>2, ReturnHandle DEF TypeOK
  <2>3. CASE UNCHANGED timerVars /\ UNCHANGED inTimer
    BY <2>1, <2>3 DEF timerVars
  <2> QED
    BY <1>2, <2>2, <2>3
    DEF CallbackStep, PublishEventOk, PublishEventFails, PublishStoredOk,
        PublishStoredFails, PublishStoredDone, TimerReconnects, TimerReconnectFails,
        Continue, callVars
<1>3. CASE \E t \in Timer : CheckFramesAndHeartbeat(t)
  BY <1>3, CreateTimerHandle
  DEF CheckFramesAndHeartbeat, TimerDies, TimerFindsConnection, TimerFindsNoConnection,
      TimerFires
<1>4. CASE /\ UNCHANGED <<amqpConnectionEnabled, heardBeatTimerId, inTimer, storage>>
           /\ conn \in {"null", "nosocket"} => conn' \in {"null", "nosocket"}
  BY <1>4
<1>5. CASE Command
  <2>1. ASSUME NEW d \in DB, NEW a \in ConfigArgs, SetupConfig(d, a)
        PROVE  UNCHANGED storage
    BY <2>1 DEF SetupConfig, SetupFallbackStorage, storageVars
  <2>2. CASE \E d \in DB, a \in ConfigArgs : ConnectCommandFails(d, a) \/ SetupConfigCommand(d, a)
    BY <1>4, <2>1, <2>2
    DEF ConnectCommandFails, SetupConfigCommand, AmqpConnectFails, amqpVars, timerVars,
        callVars
  <2>3. CASE \E d \in DB, a \in ConfigArgs : ConnectCommandOk(d, a)
    BY <2>3, CreateTimerHandle DEF ConnectCommandOk
  <2>4. CASE \E d \in DB, size \in SizeArgs : FallbackStorageSizeCommand(d, size)
    BY <1>4, <2>4
    DEF FallbackStorageSizeCommand, SetupFallbackStorage, amqpVars, timerVars, callVars
  <2>5. CASE KeymaskUnchanged
    BY <1>4, <2>5 DEF KeymaskUnchanged, storageVars, amqpVars, timerVars, callVars
  <2>6. CASE DisconnectCommand
    BY <2>6 DEF DisconnectCommand
  <2> QED
    BY <1>5, <2>2, <2>3, <2>4, <2>5, <2>6
    DEF Command, KeymaskAddCommand, KeymaskSetCommand, KeymaskCleanCommand
<1>6. CASE RoleChange \/ UNCHANGED vars
  BY <1>4, <1>6 DEF RoleChange, vars, nodeVars, storageVars, amqpVars, timerVars, callVars
<1>7. CASE Environment
  BY <1>4, <1>7
  DEF Environment, AmqpEnvironment, BrokerConsumes, BrokerStarts, BrokerStops,
      ConnectionFails, PeerLossDetected, nodeVars, storageVars, timerVars, callVars
<1> QED
  BY <1>1, <1>2, <1>3, <1>5, <1>6, <1>7 DEF Next

-----------------------------------------------------------------------------
(***************************************************************************)
(* Snapshot and crash.                                                     *)
(***************************************************************************)

LEMMA SaveSnapshotStep ==
  ASSUME RestartInv, SaveSnapshot
  PROVE  RestartInv'
<1>1. NodeInv' /\ StorageInv'
  <2>1. UNCHANGED vars
    BY DEF SaveSnapshot
  <2> QED
    BY <2>1, NodeInvStep, StorageInvStep DEF RestartInv
<1>2. SnapshotInv'
  BY DEF SaveSnapshot, RestartInv, SnapshotInv, StorageInv, NodeInv, TypeOK, StorageTypeOK,
         vars, nodeVars, storageVars
<1>3. OnlyRestoredEventsWait'
  BY DEF SaveSnapshot, RestartInv, OnlyRestoredEventsWait, vars, nodeVars, storageVars,
         amqpVars, timerVars, callVars
<1> QED
  BY <1>1, <1>2, <1>3 DEF RestartInv

LEMMA CrashAndRestartStep ==
  ASSUME RestartInv, CrashAndRestart
  PROVE  RestartInv'
<1>0. TypeOK /\ SnapshotInv
  BY DEF RestartInv, NodeInv
<1>1. TypeOK'
  <2>1. StorageTypeOK'
    <3>1. fallbackStorageMaxSize' \in SizeT
      BY ForwarderAssumption, ToSizeTType DEF CrashAndRestart
    <3>2. 0 \in SizeT
      BY SizeModAssumption DEF SizeT
    <3> QED
      BY <1>0, <3>1, <3>2 DEF CrashAndRestart, SnapshotInv, StorageTypeOK
  <2>2. AmqpTypeOK'
    BY <1>0, LeaveOpenType DEF CrashAndRestart, ConnState, TypeOK, AmqpTypeOK
  <2>3. keyMaskArr' \in Seq(Mask)
    <3>1. PICK args \in InitialMasks : keyMaskArr' = AddMasks(<<>>, args)
      BY DEF CrashAndRestart
    <3> QED
      BY <3>1, ForwarderAssumption, AddMasksType, EmptySeq
  <2> QED
    BY <1>0, <2>1, <2>2, <2>3 DEF CrashAndRestart, TypeOK
<1>2. CallbackInv' /\ TimerHandleIsPending' /\ DisconnectSticks'
  BY DEF CrashAndRestart, CallbackInv, TimerHandleIsPending, DisconnectSticks, LeaveOpen
<1>3. StorageInv'
  BY <1>0 DEF CrashAndRestart, SnapshotInv, StorageInv
<1>4. SnapshotInv'
  BY <1>0 DEF CrashAndRestart, SnapshotInv
<1>5. OnlyRestoredEventsWait'
  BY DEF CrashAndRestart, OnlyRestoredEventsWait, LeaveOpen
<1> QED
  BY <1>1, <1>2, <1>3, <1>4, <1>5 DEF RestartInv, NodeInv

LEMMA RestartInvStep == RestartInv /\ [RestartNext]_restartVars => RestartInv'
<1> SUFFICES ASSUME RestartInv, [RestartNext]_restartVars PROVE RestartInv'
  OBVIOUS
<1>1. CASE [Next]_vars /\ UNCHANGED <<snapshot, crashes>>
  <2>1. NodeInv' /\ StorageInv'
    BY <1>1, NodeInvStep, StorageInvStep DEF RestartInv
  <2>2. SnapshotInv'
    BY <1>1, SnapshotInvKept DEF RestartInv, NodeInv
  <2>3. OnlyRestoredEventsWait'
    BY <1>1, OnlyRestoredEventsWaitStep DEF RestartInv
  <2> QED
    BY <2>1, <2>2, <2>3 DEF RestartInv
<1>2. CASE SaveSnapshot
  BY <1>2, SaveSnapshotStep
<1>3. CASE CrashAndRestart
  BY <1>3, CrashAndRestartStep
<1> QED
  BY <1>1, <1>2, <1>3 DEF RestartNext, restartVars

LEMMA RestartInvHolds == RestartSpec => []RestartInv
BY RestartInvInit, RestartInvStep, PTL DEF RestartSpec

-----------------------------------------------------------------------------
(***************************************************************************)
(* Theorems.                                                               *)
(***************************************************************************)

\* A restored list is in order like any other, and what is stored after the restart
\* comes behind it.
THEOREM StorageInOrderOverCrashes == RestartSpec => []StorageInOrder
<1>1. RestartInv => StorageInOrder
  BY DEF RestartInv, StorageInv, OrderedBefore, StorageInOrder
<1> QED
  BY <1>1, RestartInvHolds, PTL

\* Without a heartbeat wait exactly the events a restart brought back: every other
\* stored event of an enabled module has a timer that will send it.
THEOREM OnlyRestoredEventsEverWait == RestartSpec => []OnlyRestoredEventsWait
<1>1. RestartInv => OnlyRestoredEventsWait
  BY DEF RestartInv
<1> QED
  BY <1>1, RestartInvHolds, PTL

\* CrashAndRestart loses what was not saved, and nothing that was.
LEMMA CrashLoses ==
  ASSUME NodeInv, CrashAndRestart
  PROVE  Held \ Held' \subseteq Exposed \cup ((Stored \cup {message}) \ Saved)
<1>1. Range(delivered) \subseteq Range(delivered')
  BY LeaveOpenDelivers DEF NodeInv, CrashAndRestart
<1>2. Stored' = Saved
  BY DEF CrashAndRestart, Stored, Saved
<1> QED
  BY <1>1, <1>2 DEF Held, Exposed

\* LossOnlyOnTheWireOrUnsaved: with unlimited storage an event is lost on the wire,
\* or in a crash before it was saved, and nowhere else.
THEOREM LossAlwaysOnTheWireOrUnsaved == RestartSpec => LossOnlyOnTheWireOrUnsaved
<1> DEFINE Unsaved == IF crashes' > crashes THEN (Stored \cup {message}) \ Saved ELSE {}
<1>1. RestartInv /\ [RestartNext]_restartVars
        => [fallbackStorageMaxSize = 0
              => Held \ Held' \subseteq Range(inflight) \cup Unheard \cup Unsaved]_restartVars
  <2> SUFFICES ASSUME RestartInv, RestartNext, fallbackStorageMaxSize = 0
               PROVE  Held \ Held' \subseteq Exposed \cup Unsaved
    BY DEF Exposed
  <2>1. CASE Next
    BY <2>1, NextLoses DEF RestartInv
  <2>2. CASE SaveSnapshot
    BY <2>2
    DEF SaveSnapshot, Held, Stored, vars, nodeVars, storageVars, amqpVars, callVars
  <2>3. CASE CrashAndRestart
    <3>1. crashes' > crashes
      BY <2>3 DEF CrashAndRestart, RestartInv, SnapshotInv
    <3> QED
      BY <2>3, <3>1, CrashLoses DEF RestartInv
  <2> QED
    BY <2>1, <2>2, <2>3 DEF RestartNext
<1> QED
  BY <1>1, RestartInvHolds, PTL DEF RestartSpec, LossOnlyOnTheWireOrUnsaved
=============================================================================
