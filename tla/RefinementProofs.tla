--------------------------- MODULE RefinementProofs ---------------------------
(***************************************************************************)
(* EventForwarder implements StoreAndForward for every value of the        *)
(* constants, and therefore handles every event at most once.              *)
(***************************************************************************)
EXTENDS EventForwarderRefinement, EventForwarderProofs

-----------------------------------------------------------------------------
(***************************************************************************)
(* The operations of storage and connection, as steps of StoreAndForward.  *)
(***************************************************************************)

\* Leaving "open" breaks the wire.
LEMMA LeaveOpenBreaks ==
  ASSUME NEW c, LeaveOpen(c)
  PROVE  Abstract!WireBreaks
BY DEF LeaveOpen, Abstract!WireBreaks

\* A failed publication breaks the wire or finds it broken.
LEMMA PublishFailsBreaks ==
  ASSUME AmqpPublishFails
  PROVE  Abstract!WireBreaks \/ UNCHANGED <<inflight, delivered>>
BY LeaveOpenBreaks DEF AmqpPublishFails, WaitFrameFails, BasicPublishFails, amqpVars

\* A successful one sends its message.
LEMMA PublishOkSends ==
  ASSUME NEW m, AmqpPublishOk(m)
  PROVE  Abstract!Send(m)
BY DEF AmqpPublishOk, Abstract!Send

\* Without a step of the broker or the network connecting leaves the wire alone.
LEMMA ConnectKeepsWire ==
  ASSUME AmqpConnectOk \/ AmqpConnectFails
  PROVE  UNCHANGED <<inflight, delivered>>
BY DEF AmqpConnectOk, AmqpConnectFails

\* The list of the new event, with or without its oldest event.
LEMMA PushKeeps ==
  ASSUME TypeOK, NEW m \in Message, PushEventToStorage(m.db, m)
  PROVE  \E kept \in {storage[m.db]}
               \cup (IF fallbackStorageMaxSize # 0 /\ storage[m.db] # <<>>
                       THEN {Tail(storage[m.db])} ELSE {}) :
           storage' = [storage EXCEPT ![m.db] = Append(kept, m)]
<1>1. m.db \in DB /\ storage \in [DB -> Seq(Message)]
  BY DEF Message, TypeOK, StorageTypeOK
<1>2. CASE StorageIsFull /\ storage[m.db] # <<>>
  <2>1. fallbackStorageMaxSize # 0
    BY <1>2 DEF StorageIsFull, TypeOK, StorageTypeOK, SizeT
  <2>2. storage' = [storage EXCEPT ![m.db] = Append(Tail(storage[m.db]), m)]
    BY <1>1, <1>2 DEF PushEventToStorage, DropHead
  <2> QED
    BY <1>2, <2>1, <2>2
<1>3. CASE ~(StorageIsFull /\ storage[m.db] # <<>>)
  <2>1. storage' = [storage EXCEPT ![m.db] = Append(storage[m.db], m)]
    BY <1>1, <1>3 DEF PushEventToStorage, DropHead
  <2> QED
    BY <2>1
<1> QED
  BY <1>2, <1>3

-----------------------------------------------------------------------------
(***************************************************************************)
(* The refinement.                                                         *)
(***************************************************************************)

\* Steps that do not touch the events: at most the limit changes.
LEMMA OtherStep ==
  ASSUME UNCHANGED <<events, message, storage, inflight, delivered>>
  PROVE  Abstract!SetLimit
BY DEF Abstract!SetLimit

\* Steps that end the connection and do nothing else to the events.
LEMMA BreakStep ==
  ASSUME NEW c, LeaveOpen(c), UNCHANGED <<events, message, storage, fallbackStorageMaxSize>>
  PROVE  Abstract!Break
BY LeaveOpenBreaks DEF Abstract!Break

LEMMA InitImplements == Init => Abstract!Init
BY DEF Init, StorageInit, AmqpInit, Abstract!Init

LEMMA OnKeyspaceEventImplements ==
  ASSUME NodeInv, NEW d \in DB, NEW k \in Key, OnKeyspaceEvent(d, k)
  PROVE  [Abstract!Next]_Abstract!vars
<1>1. UNCHANGED <<inflight, delivered, storage, fallbackStorageMaxSize>>
  BY ConnectKeepsWire DEF OnKeyspaceEvent, LazyConnect, storageVars, amqpVars
<1>2. CASE KeyIsSelected(k)
  <2>1. message = NoMessage
    BY DEF NodeInv, CallbackInv, OnKeyspaceEvent
  <2>2. Abstract!Occur(d)
    BY <1>1, <1>2, <2>1 DEF OnKeyspaceEvent, Abstract!Occur
  <2> QED
    BY <2>2 DEF Abstract!Next
<1>3. CASE ~KeyIsSelected(k)
  BY <1>1, <1>3, OtherStep DEF OnKeyspaceEvent, callVars, Abstract!Next
<1> QED
  BY <1>2, <1>3

LEMMA CallbackStepImplements ==
  ASSUME NodeInv, StorageInv, CallbackStep
  PROVE  [Abstract!Next]_Abstract!vars
<1>1. CASE PublishEventOk
  <2>1. Abstract!SendFresh
    BY <1>1, PublishOkSends
    DEF PublishEventOk, NodeInv, CallbackInv, storageVars, Abstract!SendFresh
  <2> QED
    BY <2>1 DEF Abstract!Next
<1>2. CASE PublishEventFails
  <2>1. message \in Message /\ message.db = ctxDb /\ message # NoMessage
    BY <1>2 DEF PublishEventFails, NodeInv, CallbackInv, TypeOK, StorageInv
  <2>2. Abstract!KeepFresh
    BY <1>2, <2>1, PushKeeps, PublishFailsBreaks
    DEF PublishEventFails, PushEventToStorage, NodeInv, Abstract!KeepFresh
  <2> QED
    BY <2>2 DEF Abstract!Next
<1>3. CASE PublishStoredOk
  <2>1. Abstract!SendOldest(ctxDb)
    BY <1>3, PublishOkSends
    DEF PublishStoredOk, StoredEventPublished, callVars, Abstract!SendOldest
  <2>2. ctxDb \in DB
    BY DEF NodeInv, TypeOK
  <2> QED
    BY <2>1, <2>2 DEF Abstract!Next
<1>4. CASE PublishStoredFails
  <2>0. TypeOK /\ ctxDb \in DB
    BY DEF NodeInv, TypeOK
  <2>1. storage' = storage
    BY <1>4, <2>0, StoredEventKeptUnchanged DEF PublishStoredFails, storageVars
  <2>2. CASE Abstract!WireBreaks
    BY <1>4, <2>1, <2>2
    DEF PublishStoredFails, StoredEventKept, Abstract!Break, Abstract!Next
  <2>3. CASE UNCHANGED <<inflight, delivered>>
    BY <1>4, <2>1, <2>3, OtherStep DEF PublishStoredFails, Abstract!Next
  <2> QED
    BY <1>4, <2>2, <2>3, PublishFailsBreaks DEF PublishStoredFails
<1>5. CASE PublishStoredDone
  BY <1>5, OtherStep DEF PublishStoredDone, storageVars, amqpVars, Abstract!Next
<1>6. CASE TimerReconnects
  BY <1>6, OtherStep, ConnectKeepsWire DEF TimerReconnects, storageVars, Abstract!Next
<1>7. CASE TimerReconnectFails
  BY <1>7, BreakStep DEF TimerReconnectFails, storageVars, Abstract!Next
<1> QED
  BY <1>1, <1>2, <1>3, <1>4, <1>5, <1>6, <1>7 DEF CallbackStep

LEMMA CheckFramesImplements ==
  ASSUME NEW t \in Timer, CheckFramesAndHeartbeat(t)
  PROVE  [Abstract!Next]_Abstract!vars
<1>1. UNCHANGED <<events, message, storage, fallbackStorageMaxSize>>
  BY DEF CheckFramesAndHeartbeat, TimerDies, TimerFindsConnection, TimerFindsNoConnection,
         TimerFires, storageVars
<1>2. CASE UNCHANGED amqpVars
  BY <1>1, <1>2, OtherStep DEF amqpVars, Abstract!Next
<1>3. CASE WaitFrameFails
  BY <1>1, <1>3, BreakStep DEF WaitFrameFails, Abstract!Next
<1> QED
  BY <1>2, <1>3
  DEF CheckFramesAndHeartbeat, TimerDies, TimerFindsConnection, TimerFindsNoConnection

LEMMA CommandImplements ==
  ASSUME Command
  PROVE  [Abstract!Next]_Abstract!vars
<1>1. ASSUME NEW d \in DB, NEW a \in ConfigArgs,
             ConnectCommandFails(d, a) \/ ConnectCommandOk(d, a) \/ SetupConfigCommand(d, a)
      PROVE  [Abstract!Next]_Abstract!vars
  <2>1. UNCHANGED <<events, message, storage, inflight, delivered>>
    BY <1>1, ConnectKeepsWire
    DEF ConnectCommandFails, ConnectCommandOk, SetupConfigCommand, SetupConfig,
        SetupFallbackStorage, storageVars, amqpVars, callVars
  <2> QED
    BY <2>1, OtherStep DEF Abstract!Next
<1>2. ASSUME NEW d \in DB, NEW size \in SizeArgs, FallbackStorageSizeCommand(d, size)
      PROVE  [Abstract!Next]_Abstract!vars
  BY <1>2, OtherStep
  DEF FallbackStorageSizeCommand, SetupFallbackStorage, amqpVars, callVars, Abstract!Next
<1>3. ASSUME KeymaskUnchanged
      PROVE  [Abstract!Next]_Abstract!vars
  BY <1>3, OtherStep DEF KeymaskUnchanged, storageVars, amqpVars, callVars, Abstract!Next
<1>4. CASE DisconnectCommand
  BY <1>4, BreakStep
  DEF DisconnectCommand, AmqpDisconnect, storageVars, callVars, Abstract!Next
<1> QED
  BY <1>1, <1>2, <1>3, <1>4
  DEF Command, KeymaskAddCommand, KeymaskSetCommand, KeymaskCleanCommand

LEMMA EnvironmentImplements ==
  ASSUME AmqpEnvironment, UNCHANGED nodeVars
  PROVE  [Abstract!Next]_Abstract!vars
<1>1. UNCHANGED <<events, message, storage, fallbackStorageMaxSize>>
  BY DEF nodeVars, storageVars, callVars
<1>2. CASE BrokerConsumes
  BY <1>1, <1>2 DEF BrokerConsumes, Abstract!Arrive, Abstract!Next
<1>3. CASE BrokerStarts \/ PeerLossDetected
  BY <1>1, <1>3, OtherStep DEF BrokerStarts, PeerLossDetected, Abstract!Next
<1>4. CASE BrokerStops \/ ConnectionFails
  <2>1. CASE \E c \in {"closing", "silent", "broken"} : LeaveOpen(c)
    BY <1>1, <2>1, BreakStep DEF Abstract!Next
  <2>2. CASE UNCHANGED <<inflight, delivered>>
    BY <1>1, <2>2, OtherStep DEF Abstract!Next
  <2> QED
    BY <1>4, <2>1, <2>2 DEF BrokerStops, ConnectionFails
<1> QED
  BY <1>2, <1>3, <1>4 DEF AmqpEnvironment

\* Every step of every callback, command and of the environment maps to a step of
\* StoreAndForward or changes nothing there.
LEMMA NextImplements ==
  ASSUME NodeInv, StorageInv, [Next]_vars
  PROVE  [Abstract!Next]_Abstract!vars
<1>1. CASE \E d \in DB, k \in Key : OnKeyspaceEvent(d, k)
  BY <1>1, OnKeyspaceEventImplements
<1>2. CASE CallbackStep
  BY <1>2, CallbackStepImplements
<1>3. CASE \E t \in Timer : CheckFramesAndHeartbeat(t)
  BY <1>3, CheckFramesImplements
<1>4. CASE Command
  BY <1>4, CommandImplements
<1>5. CASE RoleChange
  BY <1>5, OtherStep DEF RoleChange, storageVars, amqpVars, callVars, Abstract!Next
<1>6. CASE Environment
  BY <1>6, EnvironmentImplements DEF Environment
<1>7. CASE UNCHANGED vars
  BY <1>7 DEF vars, nodeVars, storageVars, amqpVars, callVars, Abstract!vars
<1> QED
  BY <1>1, <1>2, <1>3, <1>4, <1>5, <1>6, <1>7 DEF Next

\* The node does nothing to events that StoreAndForward does not allow.
THEOREM Refinement == Spec => ImplementsStoreAndForward
<1>1. NodeInv /\ StorageInv /\ [Next]_vars => [Abstract!Next]_Abstract!vars
  BY NextImplements
<1>2. HandlerInv => NodeInv
  BY DEF HandlerInv
<1> QED
  BY <1>1, <1>2, HandlerInvHolds, StorageInvInit, StorageInvStep, InitImplements, PTL
  DEF Spec, ImplementsStoreAndForward, Abstract!Spec

-----------------------------------------------------------------------------

AbstractProofs ==
  INSTANCE StoreAndForwardProofs WITH
    occurred <- events,
    limited <- (fallbackStorageMaxSize # 0),
    fresh <- message,
    backlog <- storage,
    wire <- inflight

\* The module of the proofs and the module proved about have the same steps.
LEMMA SameNext == [Abstract!Next]_Abstract!vars => [AbstractProofs!Next]_AbstractProofs!vars
BY DEF Abstract!Next, Abstract!vars, Abstract!Occur, Abstract!SendOldest,
       Abstract!SendFresh, Abstract!KeepFresh, Abstract!Arrive, Abstract!Break,
       Abstract!SetLimit, Abstract!Send, Abstract!WireBreaks, AbstractProofs!Next,
       AbstractProofs!vars, AbstractProofs!Occur, AbstractProofs!SendOldest,
       AbstractProofs!SendFresh, AbstractProofs!KeepFresh, AbstractProofs!Arrive,
       AbstractProofs!Break, AbstractProofs!SetLimit, AbstractProofs!Send,
       AbstractProofs!WireBreaks

\* What StoreAndForward promises of its events holds of the node's: none is stored
\* or sent twice, nor stored after it was sent.
THEOREM NoDuplicatesAlways == Spec => []NoDuplicates
<1>1. NoMessage \notin AbstractProofs!Event
  BY ForwarderAssumption DEF AbstractProofs!Event, Message
<1>2. Abstract!Init => AbstractProofs!Init
  BY DEF Abstract!Init, AbstractProofs!Init
<1>3. [Abstract!Next]_Abstract!vars => [AbstractProofs!Next]_AbstractProofs!vars
  BY SameNext
<1>4. AbstractProofs!AtMostOnce => NoDuplicates
  BY DEF AbstractProofs!AtMostOnce, AbstractProofs!Kept, AbstractProofs!Sent,
         AbstractProofs!Range, AbstractProofs!IsInjective, NoDuplicates, Stored, Range,
         IsInjective
<1>5. ImplementsStoreAndForward => AbstractProofs!Spec
  BY <1>2, <1>3, PTL DEF ImplementsStoreAndForward, Abstract!Spec, AbstractProofs!Spec
<1> QED
  BY <1>1, <1>4, <1>5, Refinement, AbstractProofs!AlwaysAtMostOnce, PTL
=============================================================================
