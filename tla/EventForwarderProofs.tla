------------------------ MODULE EventForwarderProofs -------------------------
(***************************************************************************)
(* Theorems about EventForwarder for every value of the constants: types,  *)
(* the heartbeat timer, the disconnect command, the key filter and the     *)
(* order of the fallback storage.                                          *)
(*                                                                         *)
(* The first sections are lemmas about the operators the actions are built *)
(* from; each invariant follows with one proof step per action.            *)
(***************************************************************************)
EXTENDS EventForwarderProperties, SequenceTheorems, TLAPS

-----------------------------------------------------------------------------
(***************************************************************************)
(* Operators.                                                              *)
(***************************************************************************)

\* The cast to size_t, and the decrement of a size_t, stay within size_t.
LEMMA ToSizeTType == \A n \in Int : ToSizeT(n) \in SizeT
BY SizeModAssumption DEF ToSizeT, SizeT

\* The removal of the head leaves a list of messages, also of the empty list.
LEMMA DropHeadType ==
  ASSUME NEW list \in Seq(Message)
  PROVE  DropHead(list) \in Seq(Message)
BY HeadTailProperties DEF DropHead

\* What was popped and pushed back at the same end leaves the list as it was.
LEMMA PutBackHead ==
  ASSUME NEW list \in Seq(Message), list # <<>>
  PROVE  PutBack(Head(list), Tail(list)) = list
<1>1. /\ Head(list) \in Message
      /\ Tail(list) \in Seq(Message)
      /\ Len(Tail(list)) = Len(list) - 1
      /\ \A i \in 1 .. Len(Tail(list)) : Tail(list)[i] = list[i + 1]
  BY HeadTailProperties
<1> DEFINE back == PutBack(Head(list), Tail(list))
<1>2. <<Head(list)>> \in Seq(Message) /\ Len(<<Head(list)>>) = 1
  BY <1>1
<1>3. /\ back \in Seq(Message)
      /\ Len(back) = Len(list)
      /\ \A i \in 1 .. Len(list) :
           back[i] = IF i <= 1 THEN <<Head(list)>>[i] ELSE Tail(list)[i - 1]
  BY <1>1, <1>2, LenProperties, ConcatProperties DEF PutBack
<1>4. \A i \in 1 .. Len(list) : back[i] = list[i]
  BY <1>1, <1>3, LenProperties
<1> QED
  BY <1>3, <1>4, SeqEqual

\* Types of the sub-operators; each lemma covers the variables they assign.
LEMMA LeaveOpenType ==
  ASSUME TypeOK, NEW c \in ConnState, LeaveOpen(c)
  PROVE  conn' \in ConnState /\ inflight' \in Seq(Message) /\ delivered' \in Seq(Message)
<1>1. PICK k \in 0 .. Len(inflight) : delivered' = delivered \o SubSeq(inflight, 1, k)
  BY DEF LeaveOpen
<1>2. SubSeq(inflight, 1, k) \in Seq(Message)
  <2>1. \A i \in 1 .. k : inflight[i] \in Message
    BY LenProperties DEF TypeOK, AmqpTypeOK
  <2> QED
    BY <2>1, SubSeqProperties, LenProperties DEF TypeOK, AmqpTypeOK
<1>3. delivered' \in Seq(Message)
  BY <1>1, <1>2, ConcatProperties DEF TypeOK, AmqpTypeOK
<1> QED
  BY <1>3, EmptySeq DEF LeaveOpen

LEMMA FaultType == TypeOK /\ Fault => faults' \in Nat
BY DEF TypeOK, AmqpTypeOK, Fault

LEMMA AmqpConnectType ==
  ASSUME TypeOK, AmqpConnectOk \/ AmqpConnectFails
  PROVE  AmqpTypeOK'
BY DEF TypeOK, AmqpTypeOK, AmqpConnectOk, AmqpConnectFails, Fault, ConnState

LEMMA WaitFrameFailsType ==
  ASSUME TypeOK, WaitFrameFails
  PROVE  AmqpTypeOK'
BY LeaveOpenType, FaultType DEF TypeOK, AmqpTypeOK, WaitFrameFails, ConnState

LEMMA AmqpPublishOkType ==
  ASSUME TypeOK, NEW m \in Message, AmqpPublishOk(m)
  PROVE  AmqpTypeOK'
BY AppendProperties DEF TypeOK, AmqpTypeOK, AmqpPublishOk

LEMMA AmqpPublishFailsType ==
  ASSUME TypeOK, AmqpPublishFails
  PROVE  AmqpTypeOK'
<1>1. CASE conn = "null" /\ UNCHANGED amqpVars
  BY <1>1 DEF TypeOK, AmqpTypeOK, amqpVars
<1>2. CASE WaitFrameFails
  BY <1>2, WaitFrameFailsType
<1>3. CASE BasicPublishFails
  BY <1>3, LeaveOpenType, FaultType DEF TypeOK, AmqpTypeOK, BasicPublishFails, ConnState
<1> QED
  BY <1>1, <1>2, <1>3 DEF AmqpPublishFails

LEMMA AmqpEnvironmentType ==
  ASSUME TypeOK, AmqpEnvironment
  PROVE  AmqpTypeOK'
<1>1. CASE BrokerConsumes
  BY <1>1, HeadTailProperties, AppendProperties DEF TypeOK, AmqpTypeOK, BrokerConsumes
<1>2. CASE BrokerStarts
  BY <1>2 DEF TypeOK, AmqpTypeOK, BrokerStarts
<1>3. CASE BrokerStops
  BY <1>3, LeaveOpenType, FaultType DEF TypeOK, AmqpTypeOK, BrokerStops, ConnState
<1>4. CASE ConnectionFails
  BY <1>4, LeaveOpenType, FaultType DEF TypeOK, AmqpTypeOK, ConnectionFails, ConnState
<1>5. CASE PeerLossDetected
  BY <1>5 DEF TypeOK, AmqpTypeOK, PeerLossDetected, ConnState
<1> QED
  BY <1>1, <1>2, <1>3, <1>4, <1>5 DEF AmqpEnvironment

LEMMA CreateTimerType ==
  ASSUME TypeOK, NEW pending, pending \subseteq Timer, NEW d \in DB, CreateTimer(pending, d)
  PROVE  timers' \in SUBSET Timer /\ heardBeatTimerId' \in TimerId
BY DEF CreateTimer, Timer

LEMMA ReturnType ==
  ASSUME TypeOK, Return
  PROVE  /\ pc' = "idle" /\ inTimer' = FALSE
         /\ timers' \in SUBSET Timer
         /\ heardBeatTimerId' \in TimerId \cup {0}
BY CreateTimerType DEF TypeOK, Return, Continue, timerVars

LEMMA PushEventType ==
  ASSUME TypeOK, NEW d \in DB, NEW m \in Message, PushEventToStorage(d, m)
  PROVE  StorageTypeOK'
BY DropHeadType, AppendProperties DEF TypeOK, StorageTypeOK, PushEventToStorage

LEMMA SetupFallbackStorageType ==
  ASSUME TypeOK, NEW d \in DB, NEW max \in SizeT, SetupFallbackStorage(d, max)
  PROVE  StorageTypeOK'
BY LenProperties, ToSizeTType DEF TypeOK, StorageTypeOK, SetupFallbackStorage, SyncFallbackStorageLen

\* "ALL" alone, or the masks so far and the new ones: a list of masks.
LEMMA AddMasksType ==
  ASSUME NEW arr \in Seq(Mask), NEW args \in Seq(Mask)
  PROVE  AddMasks(arr, args) \in Seq(Mask)
BY MaskAssumption, ConcatProperties DEF AddMasks

\* The arguments of a mask command, with its name before them.
LEMMA CommandAndMasksType ==
  ASSUME NEW args \in MaskArgs
  PROVE  /\ <<REDIS_COMMAND_KEYMASK_ADD>> \o args \in Seq(Mask)
         /\ <<REDIS_COMMAND_KEYMASK_SET>> \o args \in Seq(Mask)
<1>1. args \in Seq(Mask)
  BY ForwarderAssumption
<1>2. <<REDIS_COMMAND_KEYMASK_ADD>> \in Seq(Mask) /\ <<REDIS_COMMAND_KEYMASK_SET>> \in Seq(Mask)
  BY MaskAssumption
<1> QED
  BY <1>1, <1>2, ConcatProperties

LEMMA SetupConfigType ==
  ASSUME TypeOK, NEW d \in DB, NEW a \in ConfigArgs, SetupConfig(d, a)
  PROVE  StorageTypeOK' /\ keyMaskArr' \in Seq(Mask)
<1>1. a \in ConfigArg
  BY ForwarderAssumption
<1>2. keyMaskArr' \in Seq(Mask)
  <2>1. AddMasks(<<>>, a.masks) \in Seq(Mask)
    BY <1>1, AddMasksType, EmptySeq DEF ConfigArg
  <2> QED
    BY <2>1, EmptySeq DEF TypeOK, SetupConfig, SetMasks
<1>3. ToSizeT(a.size) \in SizeT
  BY <1>1, ToSizeTType DEF ConfigArg
<1>4. StorageTypeOK'
  BY <1>3, SetupFallbackStorageType DEF TypeOK, StorageTypeOK, SetupConfig, storageVars
<1> QED
  BY <1>2, <1>4

-----------------------------------------------------------------------------
(***************************************************************************)
(* Types.                                                                  *)
(***************************************************************************)

LEMMA StoredMessageType ==
  ASSUME TypeOK, NEW d \in DB, storage[d] # <<>>
  PROVE  Head(storage[d]) \in Message
BY HeadTailProperties DEF TypeOK, StorageTypeOK

LEMMA StoredEventPublishedType ==
  ASSUME TypeOK, NEW d \in DB, storage[d] # <<>>, StoredEventPublished(d)
  PROVE  StorageTypeOK'
<1>1. Tail(storage[d]) \in Seq(Message)
  BY HeadTailProperties DEF TypeOK, StorageTypeOK
<1>2. fallbackStorageLen' \in SizeT
  <2>1. fallbackStorageLen - 1 \in Int
    BY SizeModAssumption DEF TypeOK, StorageTypeOK, SizeT
  <2> QED
    BY <2>1, ToSizeTType DEF StoredEventPublished
<1> QED
  BY <1>1, <1>2 DEF TypeOK, StorageTypeOK, StoredEventPublished

\* The failed round of publishStoredEvents changes nothing at all.
LEMMA StoredEventKeptUnchanged ==
  ASSUME TypeOK, NEW d \in DB, storage[d] # <<>>, StoredEventKept(d)
  PROVE  UNCHANGED storageVars
<1>1. PutBack(Head(storage[d]), Tail(storage[d])) = storage[d]
  BY PutBackHead DEF TypeOK, StorageTypeOK
<1> QED
  BY <1>1 DEF TypeOK, StorageTypeOK, StoredEventKept, storageVars

LEMMA CommandType ==
  ASSUME TypeOK, Command
  PROVE  TypeOK'
<1>1. CASE \E d \in DB, a \in ConfigArgs :
             ConnectCommandFails(d, a) \/ ConnectCommandOk(d, a) \/ SetupConfigCommand(d, a)
  <2> PICK d \in DB, a \in ConfigArgs :
        ConnectCommandFails(d, a) \/ ConnectCommandOk(d, a) \/ SetupConfigCommand(d, a)
    BY <1>1
  <2>1. SetupConfig(d, a)
    BY DEF ConnectCommandFails, ConnectCommandOk, SetupConfigCommand
  <2>2. StorageTypeOK' /\ keyMaskArr' \in Seq(Mask)
    BY <2>1, SetupConfigType
  <2>3. CASE ConnectCommandFails(d, a)
    <3>1. AmqpTypeOK'
      BY <2>3, AmqpConnectType DEF ConnectCommandFails, TypeOK, AmqpTypeOK, amqpVars
    <3> QED
      BY <2>2, <2>3, <3>1 DEF ConnectCommandFails, TypeOK, timerVars, callVars
  <2>4. CASE ConnectCommandOk(d, a)
    <3>1. AmqpTypeOK' /\ timers' \in SUBSET Timer /\ heardBeatTimerId' \in TimerId
      BY <2>4, AmqpConnectType, CreateTimerType DEF ConnectCommandOk, TypeOK
    <3> QED
      BY <2>2, <2>4, <3>1 DEF ConnectCommandOk, TypeOK, callVars
  <2>5. CASE SetupConfigCommand(d, a)
    BY <2>2, <2>5 DEF SetupConfigCommand, TypeOK, AmqpTypeOK, amqpVars, timerVars, callVars
  <2> QED
    BY <2>3, <2>4, <2>5
<1>2. CASE \E d \in DB, size \in SizeArgs : FallbackStorageSizeCommand(d, size)
  <2> PICK d \in DB, size \in SizeArgs : FallbackStorageSizeCommand(d, size)
    BY <1>2
  <2>1. ToSizeT(size) \in SizeT
    BY ForwarderAssumption, ToSizeTType
  <2>2. StorageTypeOK'
    BY <2>1, SetupFallbackStorageType DEF FallbackStorageSizeCommand
  <2> QED
    BY <2>2 DEF FallbackStorageSizeCommand, TypeOK, AmqpTypeOK, amqpVars, timerVars, callVars
<1>3. ASSUME NEW args \in MaskArgs, KeymaskAddCommand(args) \/ KeymaskSetCommand(args)
      PROVE  TypeOK'
  <2>1. /\ <<REDIS_COMMAND_KEYMASK_ADD>> \o args \in Seq(Mask)
        /\ <<REDIS_COMMAND_KEYMASK_SET>> \o args \in Seq(Mask)
    BY CommandAndMasksType
  <2>2. keyMaskArr' \in Seq(Mask)
    BY <1>3, <2>1, AddMasksType, EmptySeq
    DEF KeymaskAddCommand, KeymaskSetCommand, KeymaskAdd, KeymaskSet, SetMasks, TypeOK
  <2> QED
    BY <1>3, <2>2
    DEF KeymaskAddCommand, KeymaskSetCommand, KeymaskUnchanged, TypeOK, StorageTypeOK,
        AmqpTypeOK, storageVars, amqpVars, timerVars, callVars
<1>4. CASE KeymaskCleanCommand
  BY <1>4, EmptySeq
  DEF KeymaskCleanCommand, KeymaskClean, SetMasks, KeymaskUnchanged, TypeOK, StorageTypeOK,
      AmqpTypeOK, storageVars, amqpVars, timerVars, callVars
<1>5. CASE DisconnectCommand
  <2>1. AmqpTypeOK'
    BY <1>5, LeaveOpenType DEF DisconnectCommand, AmqpDisconnect, TypeOK, AmqpTypeOK, ConnState
  <2> QED
    BY <1>5, <2>1 DEF DisconnectCommand, TypeOK, StorageTypeOK, storageVars, callVars
<1> QED
  BY <1>1, <1>2, <1>3, <1>4, <1>5 DEF Command

LEMMA OnKeyspaceEventType ==
  ASSUME TypeOK, NEW d \in DB, NEW k \in Key, OnKeyspaceEvent(d, k)
  PROVE  TypeOK'
<1>1. AmqpTypeOK' /\ timers' \in SUBSET Timer /\ heardBeatTimerId' \in TimerId \cup {0}
  <2>1. CASE heardBeatTimerId = 0
    BY <2>1, AmqpConnectType, CreateTimerType DEF OnKeyspaceEvent, LazyConnect, TypeOK
  <2>2. CASE heardBeatTimerId # 0
    BY <2>2 DEF OnKeyspaceEvent, LazyConnect, TypeOK, AmqpTypeOK, amqpVars, timerVars
  <2> QED
    BY <2>1, <2>2
<1>2. CASE KeyIsSelected(k)
  <2>1. message' \in Message /\ ctxDb' \in DB /\ pc' = "publish" /\ inTimer' \in BOOLEAN /\ events' \in Nat
    BY <1>2 DEF OnKeyspaceEvent, Continue, TypeOK, Message
  <2> QED
    BY <1>1, <2>1 DEF OnKeyspaceEvent, TypeOK, StorageTypeOK, storageVars
<1>3. CASE ~KeyIsSelected(k)
  BY <1>1, <1>3 DEF OnKeyspaceEvent, TypeOK, StorageTypeOK, storageVars, callVars
<1> QED
  BY <1>2, <1>3

LEMMA CallbackStepType ==
  ASSUME TypeOK, pc = "publish" => message \in Message, CallbackStep
  PROVE  TypeOK'
<1>1. CASE PublishEventOk
  <2>1. AmqpTypeOK'
    BY <1>1, AmqpPublishOkType DEF PublishEventOk
  <2> QED
    BY <1>1, <2>1 DEF PublishEventOk, Continue, TypeOK, StorageTypeOK, storageVars, timerVars
<1>2. CASE PublishEventFails
  <2>1. AmqpTypeOK' /\ StorageTypeOK'
    BY <1>2, AmqpPublishFailsType, PushEventType DEF PublishEventFails, TypeOK
  <2> QED
    BY <1>2, <2>1, ReturnType DEF PublishEventFails, TypeOK
<1>3. CASE PublishStoredOk
  <2>1. AmqpTypeOK' /\ StorageTypeOK'
    BY <1>3, StoredMessageType, AmqpPublishOkType, StoredEventPublishedType
    DEF PublishStoredOk, TypeOK
  <2> QED
    BY <1>3, <2>1 DEF PublishStoredOk, TypeOK, timerVars, callVars
<1>4. CASE PublishStoredFails
  <2>1. AmqpTypeOK' /\ StorageTypeOK'
    BY <1>4, AmqpPublishFailsType, StoredEventKeptUnchanged
    DEF PublishStoredFails, TypeOK, StorageTypeOK, storageVars
  <2> QED
    BY <1>4, <2>1, ReturnType DEF PublishStoredFails, TypeOK
<1>5. CASE PublishStoredDone
  BY <1>5, ReturnType
  DEF PublishStoredDone, TypeOK, AmqpTypeOK, StorageTypeOK, storageVars, amqpVars
<1>6. CASE TimerReconnects
  <2>1. AmqpTypeOK'
    BY <1>6, AmqpConnectType DEF TimerReconnects
  <2> QED
    BY <1>6, <2>1 DEF TimerReconnects, Continue, TypeOK, StorageTypeOK, storageVars, timerVars
<1>7. CASE TimerReconnectFails
  <2>1. AmqpTypeOK'
    BY <1>7, LeaveOpenType, FaultType DEF TimerReconnectFails, TypeOK, AmqpTypeOK, ConnState
  <2> QED
    BY <1>7, <2>1, ReturnType DEF TimerReconnectFails, TypeOK, StorageTypeOK, storageVars
<1> QED
  BY <1>1, <1>2, <1>3, <1>4, <1>5, <1>6, <1>7 DEF CallbackStep

LEMMA CheckFramesAndHeartbeatType ==
  ASSUME TypeOK, NEW t \in Timer, CheckFramesAndHeartbeat(t)
  PROVE  TypeOK'
<1>1. t.db \in DB /\ timers \ {t} \subseteq Timer
  BY DEF TypeOK, Timer
<1>2. CASE TimerDies(t)
  BY <1>1, <1>2
  DEF TimerDies, TimerFires, TypeOK, AmqpTypeOK, StorageTypeOK, storageVars, amqpVars
<1>3. CASE TimerFindsConnection(t)
  <2>1. timers' \in SUBSET Timer /\ heardBeatTimerId' \in TimerId
    BY <1>1, <1>3, CreateTimerType DEF TimerFindsConnection
  <2> QED
    BY <1>3, <2>1
    DEF TimerFindsConnection, TimerFires, TypeOK, AmqpTypeOK, StorageTypeOK, storageVars, amqpVars
<1>4. CASE TimerFindsNoConnection(t)
  <2>1. AmqpTypeOK'
    BY <1>4, WaitFrameFailsType DEF TimerFindsNoConnection, TypeOK, AmqpTypeOK, amqpVars
  <2> QED
    BY <1>1, <1>4, <2>1
    DEF TimerFindsNoConnection, TimerFires, TypeOK, StorageTypeOK, storageVars
<1> QED
  BY <1>2, <1>3, <1>4 DEF CheckFramesAndHeartbeat

-----------------------------------------------------------------------------
(***************************************************************************)
(* The steps of a callback.                                                *)
(***************************************************************************)

\* What holds between the steps of a callback: where it may be, and that it only
\* runs, and a handle only exists, while the module is enabled.
CallbackInv ==
  /\ pc = "publish" <=> message # NoMessage
  /\ pc = "idle" => ~inTimer
  /\ pc = "connect" => inTimer
  /\ pc = "publish" => ~inTimer /\ heardBeatTimerId # 0
  /\ pc = "drain" => inTimer \/ heardBeatTimerId # 0
  /\ pc # "idle" => amqpConnectionEnabled
  /\ heardBeatTimerId # 0 => amqpConnectionEnabled

\* A timer just created has a handle, and the handle names it.
LEMMA CreateTimerHandle ==
  ASSUME NEW pending, NEW d, CreateTimer(pending, d)
  PROVE  heardBeatTimerId' # 0 /\ TimerHandleIsPending'
<1> PICK id \in TimerId : /\ timers' = pending \cup {[id |-> id, db |-> d]}
                         /\ heardBeatTimerId' = id
  BY DEF CreateTimer
<1>1. [id |-> id, db |-> d].id = heardBeatTimerId'
  OBVIOUS
<1> QED
  BY <1>1, ForwarderAssumption DEF TimerHandleIsPending

\* A callback that returns leaves a timer behind if it was the heartbeat itself.
LEMMA ReturnHandle ==
  ASSUME TimerHandleIsPending, Return
  PROVE  /\ pc' = "idle" /\ inTimer' = FALSE
         /\ TimerHandleIsPending'
         /\ inTimer => heardBeatTimerId' # 0
         /\ ~inTimer => heardBeatTimerId' = heardBeatTimerId
BY CreateTimerHandle DEF Return, Continue, timerVars, TimerHandleIsPending

LEMMA CallbackInvStep ==
  ASSUME TypeOK, CallbackInv, TimerHandleIsPending, [Next]_vars
  PROVE  CallbackInv'
<1>1. CASE \E d \in DB, k \in Key : OnKeyspaceEvent(d, k)
  <2> PICK d \in DB, k \in Key : OnKeyspaceEvent(d, k)
    BY <1>1
  <2>1. heardBeatTimerId' # 0
    BY CreateTimerHandle DEF OnKeyspaceEvent, LazyConnect, timerVars
  <2>2. CASE KeyIsSelected(k)
    <3>1. message' \in Message
      BY <2>2 DEF OnKeyspaceEvent, Message, TypeOK
    <3> QED
      BY <2>1, <2>2, <3>1, ForwarderAssumption DEF OnKeyspaceEvent, Continue, CallbackInv
  <2>3. CASE ~KeyIsSelected(k)
    BY <2>1, <2>3 DEF OnKeyspaceEvent, callVars, CallbackInv
  <2> QED
    BY <2>2, <2>3
<1>2. CASE CallbackStep
  <2>1. CASE PublishEventOk
    BY <2>1 DEF PublishEventOk, Continue, timerVars, CallbackInv
  <2>2. CASE PublishEventFails
    BY <2>2, ReturnHandle DEF PublishEventFails, CallbackInv
  <2>3. CASE PublishStoredOk
    BY <2>3 DEF PublishStoredOk, timerVars, callVars, CallbackInv
  <2>4. CASE PublishStoredFails
    BY <2>4, ReturnHandle DEF PublishStoredFails, CallbackInv
  <2>5. CASE PublishStoredDone
    BY <2>5, ReturnHandle DEF PublishStoredDone, CallbackInv
  <2>6. CASE TimerReconnects
    BY <2>6 DEF TimerReconnects, Continue, timerVars, CallbackInv
  <2>7. CASE TimerReconnectFails
    BY <2>7, ReturnHandle DEF TimerReconnectFails, CallbackInv
  <2> QED
    BY <1>2, <2>1, <2>2, <2>3, <2>4, <2>5, <2>6, <2>7 DEF CallbackStep
<1>3. CASE \E t \in Timer : CheckFramesAndHeartbeat(t)
  BY <1>3
  DEF CheckFramesAndHeartbeat, TimerDies, TimerFindsConnection, TimerFindsNoConnection,
      TimerFires, CallbackInv
<1>4. CASE Command
  <2>1. pc = "idle" /\ UNCHANGED callVars
    BY <1>4
    DEF Command, Issued, ConnectCommandFails, ConnectCommandOk, SetupConfigCommand,
        FallbackStorageSizeCommand, KeymaskAddCommand, KeymaskSetCommand,
        KeymaskCleanCommand, KeymaskUnchanged, DisconnectCommand
  <2>2. \/ amqpConnectionEnabled'
        \/ heardBeatTimerId' = 0
        \/ UNCHANGED <<amqpConnectionEnabled, heardBeatTimerId>>
    BY <1>4
    DEF Command, ConnectCommandFails, ConnectCommandOk, SetupConfigCommand,
        FallbackStorageSizeCommand, KeymaskAddCommand, KeymaskSetCommand,
        KeymaskCleanCommand, KeymaskUnchanged, DisconnectCommand, timerVars
  <2> QED
    BY <2>1, <2>2 DEF CallbackInv, callVars
<1>5. CASE RoleChange
  BY <1>5 DEF RoleChange, timerVars, callVars, CallbackInv
<1>6. CASE Environment
  BY <1>6 DEF Environment, nodeVars, timerVars, callVars, CallbackInv
<1>7. CASE UNCHANGED vars
  BY <1>7 DEF vars, nodeVars, timerVars, callVars, CallbackInv
<1> QED
  BY <1>1, <1>2, <1>3, <1>4, <1>5, <1>6, <1>7 DEF Next

-----------------------------------------------------------------------------
(***************************************************************************)
(* The heartbeat timer.                                                    *)
(***************************************************************************)

LEMMA TimerHandleIsPendingStep ==
  ASSUME TypeOK, CallbackInv, TimerHandleIsPending, [Next]_vars
  PROVE  TimerHandleIsPending'
<1>1. CASE \E d \in DB, k \in Key : OnKeyspaceEvent(d, k)
  BY <1>1, CreateTimerHandle DEF OnKeyspaceEvent, LazyConnect, timerVars, TimerHandleIsPending
<1>2. CASE CallbackStep
  <2>1. CASE Return
    BY <2>1, ReturnHandle
  <2>2. CASE UNCHANGED timerVars
    BY <2>2 DEF timerVars, TimerHandleIsPending
  <2> QED
    BY <1>2, <2>1, <2>2
    DEF CallbackStep, PublishEventOk, PublishEventFails, PublishStoredOk,
        PublishStoredFails, PublishStoredDone, TimerReconnects, TimerReconnectFails
<1>3. CASE \E t \in Timer : CheckFramesAndHeartbeat(t)
  BY <1>3, CreateTimerHandle
  DEF CheckFramesAndHeartbeat, TimerDies, TimerFindsConnection, TimerFindsNoConnection,
      TimerHandleIsPending
<1>4. CASE Command
  <2>1. CASE heardBeatTimerId' = 0
    BY <2>1 DEF TimerHandleIsPending
  <2>2. CASE \E d \in DB : CreateTimer(timers, d)
    BY <2>2, CreateTimerHandle
  <2>3. CASE UNCHANGED timerVars
    BY <2>3 DEF timerVars, TimerHandleIsPending
  <2> QED
    BY <1>4, <2>1, <2>2, <2>3
    DEF Command, ConnectCommandFails, ConnectCommandOk, SetupConfigCommand,
        FallbackStorageSizeCommand, KeymaskAddCommand, KeymaskSetCommand,
        KeymaskCleanCommand, KeymaskUnchanged, DisconnectCommand
<1>5. CASE RoleChange \/ Environment \/ UNCHANGED vars
  BY <1>5 DEF RoleChange, Environment, vars, nodeVars, timerVars, TimerHandleIsPending
<1> QED
  BY <1>1, <1>2, <1>3, <1>4, <1>5 DEF Next

\* There is something the heartbeat is for: a connection, or a stored event.
LEMMA HeartbeatIsScheduledStep ==
  ASSUME TypeOK, CallbackInv, TimerHandleIsPending, DisconnectSticks, HeartbeatIsScheduled,
         [Next]_vars
  PROVE  HeartbeatIsScheduled'
<1> USE DEF HeartbeatIsScheduled
<1>1. CASE \E d \in DB, k \in Key : OnKeyspaceEvent(d, k)
  <2>1. heardBeatTimerId' # 0
    BY <1>1, CreateTimerHandle DEF OnKeyspaceEvent, LazyConnect, timerVars
  <2> QED
    BY <2>1
<1>2. CASE CallbackStep
  <2>1. heardBeatTimerId' # 0 \/ inTimer'
    <3>1. heardBeatTimerId # 0 \/ inTimer
      BY <1>2
      DEF CallbackInv, CallbackStep, PublishEventOk, PublishEventFails, PublishStoredOk,
          PublishStoredFails, PublishStoredDone, TimerReconnects, TimerReconnectFails
    <3>2. CASE Return
      BY <3>1, <3>2, ReturnHandle DEF TypeOK
    <3>3. CASE UNCHANGED timerVars /\ UNCHANGED inTimer
      BY <3>1, <3>3 DEF timerVars
    <3> QED
      BY <1>2, <3>2, <3>3
      DEF CallbackStep, PublishEventOk, PublishEventFails, PublishStoredOk,
          PublishStoredFails, PublishStoredDone, TimerReconnects, TimerReconnectFails,
          Continue, callVars
  <2> QED
    BY <2>1
<1>3. CASE \E t \in Timer : CheckFramesAndHeartbeat(t)
  BY <1>3, CreateTimerHandle
  DEF CheckFramesAndHeartbeat, TimerDies, TimerFindsConnection, TimerFindsNoConnection,
      TimerFires
<1>4. CASE Command
  <2>1. CASE heardBeatTimerId' # 0 \/ ~amqpConnectionEnabled'
    BY <2>1
  <2>2. CASE /\ UNCHANGED <<amqpConnectionEnabled, heardBeatTimerId, inTimer, storage>>
             /\ UNCHANGED amqpVars \/ AmqpConnectFails
    <3>1. conn \in {"null", "nosocket"} => conn' \in {"null", "nosocket"}
      BY <2>2 DEF amqpVars, AmqpConnectFails
    <3> QED
      BY <2>2, <3>1 DEF Stored
  <2>3. ASSUME NEW d \in DB, NEW a \in ConfigArgs, SetupConfig(d, a)
        PROVE  UNCHANGED storage
    BY <2>3 DEF SetupConfig, SetupFallbackStorage, storageVars
  <2>4. CASE \E d \in DB, a \in ConfigArgs : ConnectCommandFails(d, a) \/ SetupConfigCommand(d, a)
    BY <2>2, <2>3, <2>4 DEF ConnectCommandFails, SetupConfigCommand, timerVars, callVars
  <2>5. CASE \E d \in DB, a \in ConfigArgs : ConnectCommandOk(d, a)
    BY <2>1, <2>5, CreateTimerHandle DEF ConnectCommandOk
  <2>6. CASE \E d \in DB, size \in SizeArgs : FallbackStorageSizeCommand(d, size)
    BY <2>2, <2>6 DEF FallbackStorageSizeCommand, SetupFallbackStorage, timerVars, callVars
  <2>7. CASE KeymaskUnchanged
    BY <2>2, <2>7 DEF KeymaskUnchanged, storageVars, timerVars, callVars
  <2>8. CASE DisconnectCommand
    BY <2>1, <2>8 DEF DisconnectCommand
  <2> QED
    BY <1>4, <2>4, <2>5, <2>6, <2>7, <2>8
    DEF Command, KeymaskAddCommand, KeymaskSetCommand, KeymaskCleanCommand
<1>5. CASE RoleChange \/ UNCHANGED vars
  BY <1>5 DEF RoleChange, vars, nodeVars, storageVars, amqpVars, timerVars, callVars, Stored
<1>6. CASE Environment
  <2>1. conn \in {"null", "nosocket"} => conn' \in {"null", "nosocket"}
    BY <1>6
    DEF Environment, AmqpEnvironment, BrokerConsumes, BrokerStarts, BrokerStops,
        ConnectionFails, PeerLossDetected
  <2> QED
    BY <1>6, <2>1 DEF Environment, nodeVars, storageVars, timerVars, callVars, Stored
<1> QED
  BY <1>1, <1>2, <1>3, <1>4, <1>5, <1>6 DEF Next

-----------------------------------------------------------------------------
(***************************************************************************)
(* The disconnect command.                                                 *)
(***************************************************************************)

LEMMA DisconnectSticksStep ==
  ASSUME TypeOK, CallbackInv, DisconnectSticks, [Next]_vars
  PROVE  DisconnectSticks'
<1> USE DEF DisconnectSticks
<1>1. CASE \E d \in DB, k \in Key : OnKeyspaceEvent(d, k)
  BY <1>1 DEF OnKeyspaceEvent
<1>2. CASE CallbackStep
  BY <1>2
  DEF CallbackInv, CallbackStep, PublishEventOk, PublishEventFails, PublishStoredOk,
      PublishStoredFails, PublishStoredDone, TimerReconnects, TimerReconnectFails
<1>3. CASE \E t \in Timer : CheckFramesAndHeartbeat(t)
  BY <1>3
  DEF CheckFramesAndHeartbeat, TimerDies, TimerFindsConnection, TimerFindsNoConnection,
      TimerFires, amqpVars
<1>4. CASE Command
  <2>1. CASE \E d \in DB, a \in ConfigArgs : ConnectCommandFails(d, a)
    BY <2>1 DEF ConnectCommandFails, AmqpConnectFails, amqpVars
  <2>2. CASE \E d \in DB, a \in ConfigArgs : ConnectCommandOk(d, a)
    BY <2>2 DEF ConnectCommandOk
  <2>3. CASE UNCHANGED <<amqpVars, amqpConnectionEnabled>>
    BY <2>3 DEF amqpVars
  <2>4. CASE DisconnectCommand
    BY <2>4 DEF DisconnectCommand, AmqpDisconnect, LeaveOpen
  <2> QED
    BY <1>4, <2>1, <2>2, <2>3, <2>4
    DEF Command, SetupConfigCommand, FallbackStorageSizeCommand, KeymaskAddCommand,
        KeymaskSetCommand, KeymaskCleanCommand, KeymaskUnchanged
<1>5. CASE RoleChange \/ UNCHANGED vars
  BY <1>5 DEF RoleChange, vars, nodeVars, amqpVars
<1>6. CASE Environment
  BY <1>6
  DEF Environment, nodeVars, AmqpEnvironment, BrokerConsumes, BrokerStarts, BrokerStops,
      ConnectionFails, PeerLossDetected
<1> QED
  BY <1>1, <1>2, <1>3, <1>4, <1>5, <1>6 DEF Next

-----------------------------------------------------------------------------
(***************************************************************************)
(* Theorems: types, timer and disconnect.                                  *)
(***************************************************************************)

\* What every step of a handler keeps, however the module was started.
NodeInv ==
  /\ TypeOK
  /\ CallbackInv
  /\ TimerHandleIsPending
  /\ DisconnectSticks

\* The inductive invariant of the handlers without the contents of the storage.
HandlerInv == NodeInv /\ HeartbeatIsScheduled

LEMMA HandlerInvInit == Init => HandlerInv
<1> SUFFICES ASSUME Init PROVE HandlerInv
  OBVIOUS
<1>1. StorageTypeOK
  BY ForwarderAssumption, SizeModAssumption, ToSizeTType, EmptySeq
  DEF Init, StorageInit, StorageTypeOK, SizeT
<1>2. keyMaskArr \in Seq(Mask)
  <2>1. PICK args \in InitialMasks : keyMaskArr = AddMasks(<<>>, args)
    BY DEF Init
  <2> QED
    BY <2>1, ForwarderAssumption, AddMasksType, EmptySeq
<1>3. AmqpTypeOK
  BY MaxFaultsAssumption, EmptySeq DEF Init, AmqpInit, AmqpTypeOK, ConnState
<1>4. TypeOK
  BY <1>1, <1>2, <1>3 DEF Init, TypeOK
<1>5. CallbackInv /\ TimerHandleIsPending
  BY DEF Init, CallbackInv, TimerHandleIsPending
<1>6. DisconnectSticks /\ HeartbeatIsScheduled
  <2>1. Stored = {}
    BY DEF Init, StorageInit, Stored, Range
  <2> QED
    BY <2>1 DEF Init, AmqpInit, DisconnectSticks, HeartbeatIsScheduled
<1> QED
  BY <1>4, <1>5, <1>6 DEF HandlerInv, NodeInv

LEMMA NodeInvStep == NodeInv /\ [Next]_vars => NodeInv'
<1> SUFFICES ASSUME NodeInv, [Next]_vars PROVE NodeInv'
  OBVIOUS
<1> USE DEF NodeInv
<1>1. TypeOK'
  <2>1. CASE \E d \in DB, k \in Key : OnKeyspaceEvent(d, k)
    BY <2>1, OnKeyspaceEventType
  <2>2. CASE CallbackStep
    <3>1. pc = "publish" => message \in Message
      BY DEF CallbackInv, TypeOK
    <3> QED
      BY <2>2, <3>1, CallbackStepType
  <2>3. CASE \E t \in Timer : CheckFramesAndHeartbeat(t)
    BY <2>3, CheckFramesAndHeartbeatType
  <2>4. CASE Command
    BY <2>4, CommandType
  <2>5. CASE RoleChange
    BY <2>5 DEF RoleChange, TypeOK, StorageTypeOK, AmqpTypeOK, storageVars, amqpVars,
                timerVars, callVars
  <2>6. CASE Environment
    BY <2>6, AmqpEnvironmentType
    DEF Environment, TypeOK, StorageTypeOK, nodeVars, storageVars, timerVars, callVars
  <2>7. CASE UNCHANGED vars
    BY <2>7 DEF vars, nodeVars, TypeOK, StorageTypeOK, AmqpTypeOK, storageVars, amqpVars,
                timerVars, callVars
  <2> QED
    BY <2>1, <2>2, <2>3, <2>4, <2>5, <2>6, <2>7 DEF Next
<1>2. CallbackInv'
  BY CallbackInvStep
<1>3. TimerHandleIsPending'
  BY TimerHandleIsPendingStep
<1>4. DisconnectSticks'
  BY DisconnectSticksStep
<1> QED
  BY <1>1, <1>2, <1>3, <1>4

LEMMA HandlerInvStep == HandlerInv /\ [Next]_vars => HandlerInv'
BY NodeInvStep, HeartbeatIsScheduledStep DEF HandlerInv, NodeInv

LEMMA HandlerInvHolds == Spec => []HandlerInv
BY HandlerInvInit, HandlerInvStep, PTL DEF Spec

\* Every variable keeps its type, whatever is configured and however calls and
\* faults interleave.
THEOREM TypesCorrect == Spec => []TypeOK
<1>1. HandlerInv => TypeOK
  BY DEF HandlerInv, NodeInv
<1> QED
  BY <1>1, HandlerInvHolds, PTL

\* heardBeatTimerId always names a pending timer, although connectAmqpCommand
\* overwrites it and every timer that fires resets it.
THEOREM TimerHandleAlwaysPending == Spec => []TimerHandleIsPending
<1>1. HandlerInv => TimerHandleIsPending
  BY DEF HandlerInv, NodeInv
<1> QED
  BY <1>1, HandlerInvHolds, PTL

\* An enabled module with a connection or a stored event has its heartbeat.
THEOREM HeartbeatAlwaysScheduled == Spec => []HeartbeatIsScheduled
<1>1. HandlerInv => HeartbeatIsScheduled
  BY DEF HandlerInv
<1> QED
  BY <1>1, HandlerInvHolds, PTL

\* After disconnectAmqpCommand no callback reconnects, not even a timer that the
\* command could not stop.
THEOREM DisconnectAlwaysSticks == Spec => []DisconnectSticks
<1>1. HandlerInv => DisconnectSticks
  BY DEF HandlerInv, NodeInv
<1> QED
  BY <1>1, HandlerInvHolds, PTL

-----------------------------------------------------------------------------
(***************************************************************************)
(* The order of the fallback storage.                                      *)
(***************************************************************************)

\* The list holds events of database d only, oldest first, all before event n.
OrderedBefore(list, d, n) ==
  \A i, j \in DOMAIN list :
    /\ list[i].db = d
    /\ list[i].id < n
    /\ i < j => list[i].id < list[j].id

\* An event being published is newer than every stored one.
StorageInv ==
  /\ \A d \in DB : OrderedBefore(storage[d], d, IF pc = "publish" THEN events ELSE events + 1)
  /\ pc = "publish" => message = [db |-> ctxDb, id |-> events]

\* Popping the head keeps the order.
LEMMA OrderedDropHead ==
  ASSUME NEW list \in Seq(Message), NEW d, NEW n, OrderedBefore(list, d, n)
  PROVE  OrderedBefore(DropHead(list), d, n)
<1>1. CASE list = <<>>
  BY <1>1 DEF DropHead
<1>2. CASE list # <<>>
  <2> DEFINE tail == Tail(list)
  <2>1. /\ DropHead(list) = tail
        /\ tail \in Seq(Message)
        /\ Len(tail) = Len(list) - 1
        /\ \A i \in 1 .. Len(tail) : tail[i] = list[i + 1]
    BY <1>2, HeadTailProperties DEF DropHead
  <2>2. DOMAIN tail = 1 .. Len(tail) /\ DOMAIN list = 1 .. Len(list) /\ Len(list) \in Nat
    BY <2>1, LenProperties
  <2>3. \A i \in DOMAIN tail : i + 1 \in DOMAIN list
    BY <2>1, <2>2
  <2> HIDE DEF tail
  <2> QED
    BY <2>1, <2>2, <2>3 DEF OrderedBefore
<1> QED
  BY <1>1, <1>2

\* Events are numbered.
LEMMA EventNumbers ==
  ASSUME NEW list \in Seq(Message)
  PROVE  \A i \in DOMAIN list : list[i].id \in Nat
<1>1. \A i \in DOMAIN list : list[i] \in Message
  BY LenProperties
<1>2. \A m \in Message : m.id \in Nat
  BY DEF Message
<1> QED
  BY <1>1, <1>2

\* A newer event of the same database goes to the end.
LEMMA OrderedAppend ==
  ASSUME NEW list \in Seq(Message), NEW d \in DB, NEW n \in Nat \ {0},
         OrderedBefore(list, d, n)
  PROVE  OrderedBefore(Append(list, [db |-> d, id |-> n]), d, n + 1)
<1> DEFINE m == [db |-> d, id |-> n]
           longer == Append(list, m)
<1>1. m \in Message /\ m.db = d /\ m.id = n
  BY DEF Message
<1>2. /\ longer \in Seq(Message)
      /\ Len(longer) = Len(list) + 1
      /\ \A i \in 1 .. Len(list) : longer[i] = list[i]
      /\ longer[Len(list) + 1] = m
  BY <1>1, AppendProperties
<1>3. DOMAIN longer = 1 .. Len(list) + 1 /\ DOMAIN list = 1 .. Len(list) /\ Len(list) \in Nat
  BY <1>2, LenProperties
<1>4. \A i \in DOMAIN list : list[i].id \in Nat
  BY EventNumbers
<1> HIDE DEF m, longer
<1> QED
  <2> SUFFICES ASSUME NEW i \in DOMAIN longer, NEW j \in DOMAIN longer
               PROVE  /\ longer[i].db = d
                      /\ longer[i].id < n + 1
                      /\ i < j => longer[i].id < longer[j].id
    BY DEF OrderedBefore, longer, m
  <2>1. CASE i = Len(list) + 1
    BY <1>1, <1>2, <1>3, <2>1
  <2>2. CASE i \in DOMAIN list /\ j = Len(list) + 1
    BY <1>1, <1>2, <1>3, <1>4, <2>2 DEF OrderedBefore
  <2>3. CASE i \in DOMAIN list /\ j \in DOMAIN list
    BY <1>2, <1>3, <1>4, <2>3 DEF OrderedBefore
  <2> QED
    BY <1>3, <2>1, <2>2, <2>3

\* A later bound holds as well.
LEMMA OrderedWeaker ==
  ASSUME NEW list \in Seq(Message), NEW d, NEW n \in Nat, OrderedBefore(list, d, n)
  PROVE  OrderedBefore(list, d, n + 1)
BY EventNumbers DEF OrderedBefore

LEMMA StorageInvInit == Init => StorageInv
BY DEF Init, StorageInit, StorageInv, OrderedBefore

LEMMA StorageInvStep == NodeInv /\ StorageInv /\ [Next]_vars => StorageInv'
<1> SUFFICES ASSUME NodeInv, StorageInv, [Next]_vars PROVE StorageInv'
  OBVIOUS
<1>1. TypeOK /\ events \in Nat /\ ctxDb \in DB /\ storage \in [DB -> Seq(Message)]
  BY DEF NodeInv, TypeOK, StorageTypeOK
<1>2. CASE \E d \in DB, k \in Key : OnKeyspaceEvent(d, k)
  <2> PICK d \in DB, k \in Key : OnKeyspaceEvent(d, k)
    BY <1>2
  <2>1. pc = "idle" /\ UNCHANGED storage
    BY DEF OnKeyspaceEvent, storageVars
  <2>2. CASE KeyIsSelected(k)
    BY <1>1, <2>1, <2>2 DEF OnKeyspaceEvent, Continue, StorageInv
  <2>3. CASE ~KeyIsSelected(k)
    BY <2>1, <2>3 DEF OnKeyspaceEvent, callVars, StorageInv
  <2> QED
    BY <2>2, <2>3
<1>3. CASE PublishEventOk
  <2>1. pc = "publish" /\ pc' = "drain" /\ UNCHANGED <<storage, events>>
    BY <1>3 DEF PublishEventOk, Continue, storageVars
  <2> QED
    BY <1>1, <2>1, OrderedWeaker DEF StorageInv
<1>4. CASE PublishEventFails
  <2>1. pc = "publish" /\ pc' = "idle" /\ UNCHANGED events
    BY <1>4 DEF PublishEventFails, Return, Continue
  <2>2. /\ message = [db |-> ctxDb, id |-> events]
        /\ events \in Nat \ {0}
    <3>1. message \in Message
      BY <2>1 DEF NodeInv, CallbackInv, TypeOK
    <3>2. message = [db |-> ctxDb, id |-> events]
      BY <2>1 DEF StorageInv
    <3>3. message.id \in Nat \ {0}
      BY <3>1 DEF Message
    <3> QED
      BY <3>2, <3>3
  <2>3. \A d \in DB : OrderedBefore(storage[d], d, events)
    BY <2>1 DEF StorageInv
  <2>4. PICK list \in Seq(Message) :
          /\ OrderedBefore(list, ctxDb, events)
          /\ storage' = [storage EXCEPT ![ctxDb] = Append(list, message)]
    <3>1. DropHead(storage[ctxDb]) \in Seq(Message)
      BY <1>1, DropHeadType
    <3>2. OrderedBefore(DropHead(storage[ctxDb]), ctxDb, events)
      BY <1>1, <2>3, OrderedDropHead
    <3>3. CASE StorageIsFull
      BY <1>1, <1>4, <3>1, <3>2, <3>3 DEF PublishEventFails, PushEventToStorage
    <3>4. CASE ~StorageIsFull
      BY <1>1, <1>4, <2>3, <3>4 DEF PublishEventFails, PushEventToStorage
    <3> QED
      BY <3>3, <3>4
  <2>5. OrderedBefore(storage'[ctxDb], ctxDb, events + 1)
    BY <1>1, <2>2, <2>4, OrderedAppend
  <2>6. \A d \in DB \ {ctxDb} : OrderedBefore(storage'[d], d, events + 1)
    BY <1>1, <2>3, <2>4, OrderedWeaker
  <2> QED
    BY <2>1, <2>5, <2>6 DEF StorageInv
<1>5. CASE PublishStoredOk
  <2>1. pc = "drain" /\ pc' = "drain" /\ UNCHANGED <<events, message>>
    BY <1>5 DEF PublishStoredOk, callVars
  <2>2. storage' = [storage EXCEPT ![ctxDb] = DropHead(@)]
    BY <1>1, <1>5 DEF PublishStoredOk, StoredEventPublished, DropHead
  <2> QED
    BY <1>1, <2>1, <2>2, OrderedDropHead DEF StorageInv
<1>6. CASE UNCHANGED storage /\ UNCHANGED events /\ pc # "publish" /\ pc' # "publish"
  BY <1>6 DEF StorageInv
<1>7. CASE PublishStoredFails
  <2>1. UNCHANGED storage
    BY <1>1, <1>7, StoredEventKeptUnchanged DEF PublishStoredFails, storageVars
  <2> QED
    BY <1>6, <1>7, <2>1 DEF PublishStoredFails, Return, Continue
<1>8. CASE PublishStoredDone \/ TimerReconnects \/ TimerReconnectFails
  BY <1>6, <1>8
  DEF PublishStoredDone, TimerReconnects, TimerReconnectFails, Return, Continue, storageVars
<1>9. CASE \E t \in Timer : CheckFramesAndHeartbeat(t)
  BY <1>6, <1>9
  DEF CheckFramesAndHeartbeat, TimerDies, TimerFindsConnection, TimerFindsNoConnection,
      TimerFires, storageVars
<1>10. CASE Command
  <2>1. ASSUME NEW d \in DB, NEW a \in ConfigArgs, SetupConfig(d, a)
        PROVE  UNCHANGED storage
    BY <2>1 DEF SetupConfig, SetupFallbackStorage, storageVars
  <2> QED
    BY <1>6, <1>10, <2>1
    DEF Command, Issued, ConnectCommandFails, ConnectCommandOk, SetupConfigCommand,
        FallbackStorageSizeCommand, SetupFallbackStorage, KeymaskAddCommand,
        KeymaskSetCommand, KeymaskCleanCommand, KeymaskUnchanged, DisconnectCommand,
        storageVars, callVars
<1>11. CASE RoleChange \/ Environment \/ UNCHANGED vars
  BY <1>11 DEF RoleChange, Environment, vars, nodeVars, storageVars, callVars, StorageInv
<1> QED
  BY <1>2, <1>3, <1>4, <1>5, <1>7, <1>8, <1>9, <1>10, <1>11 DEF Next, CallbackStep

\* Every list holds the events of its database in the order they occurred, over
\* evictions, put-backs and changes of the limit: the events of one database
\* that were stored are sent and dropped oldest first.
THEOREM StorageAlwaysInOrder == Spec => []StorageInOrder
<1>1. StorageInv => StorageInOrder
  BY DEF StorageInv, OrderedBefore, StorageInOrder
<1>2. HandlerInv => NodeInv
  BY DEF HandlerInv
<1> QED
  BY <1>1, <1>2, HandlerInvHolds, StorageInvInit, StorageInvStep, PTL DEF Spec

-----------------------------------------------------------------------------
(***************************************************************************)
(* The key filter.                                                         *)
(***************************************************************************)

\* Whatever is added, and to whatever array that has it first, "ALL" is first.
LEMMA AddMasksAllFirst ==
  ASSUME NEW arr \in Seq(Mask), NEW args \in Seq(Mask),
         AllMask \in Range(arr) => arr[1] = AllMask
  PROVE  AllMask \in Range(AddMasks(arr, args)) => AddMasks(arr, args)[1] = AllMask
<1>1. CASE AllMask \in Range(args)
  BY <1>1 DEF AddMasks
<1>2. CASE AllMask \notin Range(args)
  <2>1. AddMasks(arr, args) = arr \o args
    BY <1>2 DEF AddMasks
  <2>2. /\ Len(arr) \in Nat /\ Len(args) \in Nat
        /\ DOMAIN arr = 1 .. Len(arr) /\ DOMAIN args = 1 .. Len(args)
        /\ DOMAIN (arr \o args) = 1 .. Len(arr) + Len(args)
        /\ \A i \in 1 .. Len(arr) + Len(args) :
             (arr \o args)[i] = IF i <= Len(arr) THEN arr[i] ELSE args[i - Len(arr)]
    BY LenProperties, ConcatProperties
  <2>3. ASSUME AllMask \in Range(arr \o args)
        PROVE  AllMask \in Range(arr)
    <3>1. PICK i \in DOMAIN (arr \o args) : (arr \o args)[i] = AllMask
      BY <2>3 DEF Range
    <3>2. i <= Len(arr)
      <4>1. SUFFICES ASSUME i > Len(arr) PROVE FALSE
        BY <2>2
      <4>2. i - Len(arr) \in DOMAIN args /\ args[i - Len(arr)] = AllMask
        BY <2>2, <3>1, <4>1
      <4> QED
        BY <1>2, <4>2 DEF Range
    <3> QED
      BY <2>2, <3>1, <3>2 DEF Range
  <2>4. AllMask \in Range(arr) => (arr \o args)[1] = arr[1]
    BY <2>2 DEF Range
  <2> QED
    BY <2>1, <2>3, <2>4
<1> QED
  BY <1>1, <1>2

\* A filter built from nothing.
LEMMA NewMasksAllFirst ==
  ASSUME NEW args \in Seq(Mask)
  PROVE  AllMask \in Range(AddMasks(<<>>, args)) => AddMasks(<<>>, args)[1] = AllMask
<1>1. <<>> \in Seq(Mask) /\ AllMask \notin Range(<<>>)
  BY EmptySeq DEF Range
<1> QED
  BY <1>1, AddMasksAllFirst

LEMMA AllMaskComesFirstStep == TypeOK /\ AllMaskComesFirst /\ [Next]_vars => AllMaskComesFirst'
<1> SUFFICES ASSUME TypeOK, AllMaskComesFirst, [Next]_vars PROVE AllMaskComesFirst'
  OBVIOUS
<1> USE DEF AllMaskComesFirst
<1>1. CASE UNCHANGED keyMaskArr
  BY <1>1
<1>2. CASE keyMaskArr' = <<>>
  BY <1>2 DEF Range
<1>3. ASSUME NEW args \in Seq(Mask), keyMaskArr' = AddMasks(<<>>, args)
      PROVE  AllMaskComesFirst'
  BY <1>3, NewMasksAllFirst
<1>4. ASSUME NEW args \in Seq(Mask), keyMaskArr' = AddMasks(keyMaskArr, args)
      PROVE  AllMaskComesFirst'
  BY <1>4, AddMasksAllFirst DEF TypeOK
<1>5. ASSUME NEW d \in DB, NEW a \in ConfigArgs, SetupConfig(d, a)
      PROVE  AllMaskComesFirst'
  <2>1. a.masks \in Seq(Mask)
    BY ForwarderAssumption DEF ConfigArg
  <2>2. \/ UNCHANGED keyMaskArr
        \/ keyMaskArr' = <<>>
        \/ keyMaskArr' = AddMasks(<<>>, a.masks)
    BY <1>5 DEF SetupConfig, SetMasks
  <2> QED
    BY <1>1, <1>2, <1>3, <2>1, <2>2
<1>6. ASSUME NEW args \in MaskArgs, KeymaskAddCommand(args) \/ KeymaskSetCommand(args)
      PROVE  AllMaskComesFirst'
  <2>1. /\ <<REDIS_COMMAND_KEYMASK_ADD>> \o args \in Seq(Mask)
        /\ <<REDIS_COMMAND_KEYMASK_SET>> \o args \in Seq(Mask)
    BY CommandAndMasksType
  <2>2. CASE KeymaskAddCommand(args)
    BY <1>4, <2>1, <2>2 DEF KeymaskAddCommand, KeymaskAdd, SetMasks
  <2>3. CASE KeymaskSetCommand(args)
    BY <1>3, <2>1, <2>3 DEF KeymaskSetCommand, KeymaskSet, SetMasks
  <2> QED
    BY <1>6, <2>2, <2>3
<1>7. CASE Command
  <2>1. CASE \E d \in DB, a \in ConfigArgs : SetupConfig(d, a)
    BY <1>5, <2>1
  <2>2. CASE \E args \in MaskArgs : KeymaskAddCommand(args) \/ KeymaskSetCommand(args)
    BY <1>6, <2>2
  <2>3. CASE UNCHANGED keyMaskArr \/ KeymaskClean
    BY <1>1, <1>2, <2>3 DEF KeymaskClean, SetMasks
  <2> QED
    BY <1>7, <2>1, <2>2, <2>3
    DEF Command, ConnectCommandFails, ConnectCommandOk, SetupConfigCommand,
        FallbackStorageSizeCommand, KeymaskCleanCommand, DisconnectCommand
<1>8. CASE \E d \in DB, k \in Key : OnKeyspaceEvent(d, k)
  BY <1>1, <1>8 DEF OnKeyspaceEvent
<1>9. CASE CallbackStep
  BY <1>1, <1>9
  DEF CallbackStep, PublishEventOk, PublishEventFails, PublishStoredOk,
      PublishStoredFails, PublishStoredDone, TimerReconnects, TimerReconnectFails
<1>10. CASE \E t \in Timer : CheckFramesAndHeartbeat(t)
  BY <1>1, <1>10
  DEF CheckFramesAndHeartbeat, TimerDies, TimerFindsConnection, TimerFindsNoConnection,
      TimerFires
<1>11. CASE RoleChange \/ Environment \/ UNCHANGED vars
  BY <1>1, <1>11 DEF RoleChange, Environment, vars, nodeVars
<1> QED
  BY <1>7, <1>8, <1>9, <1>10, <1>11 DEF Next

\* "ALL" is the first mask of every filter that has it, however the commands that
\* build filters are mixed.
THEOREM AllMaskAlwaysFirst == Spec => []AllMaskComesFirst
<1>1. Init => AllMaskComesFirst
  BY ForwarderAssumption, NewMasksAllFirst DEF Init, AllMaskComesFirst
<1> QED
  BY <1>1, AllMaskComesFirstStep, TypesCorrect, PTL DEF Spec
=============================================================================
