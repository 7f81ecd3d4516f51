------------------------------ MODULE LossProofs ------------------------------
(***************************************************************************)
(* With unlimited storage events are lost behind the socket only: whatever *)
(* a callback, a command or the network does, an event the module still    *)
(* answered for stays stored, sent, delivered or about to be published.    *)
(***************************************************************************)
EXTENDS EventForwarderProofs

-----------------------------------------------------------------------------
(***************************************************************************)
(* What lists hold.                                                        *)
(***************************************************************************)

LEMMA RangeOfConcat ==
  ASSUME NEW S, NEW s \in Seq(S), NEW t \in Seq(S)
  PROVE  Range(s) \subseteq Range(s \o t)
<1>1. /\ DOMAIN s = 1 .. Len(s) /\ DOMAIN (s \o t) = 1 .. Len(s) + Len(t)
      /\ Len(s) \in Nat /\ Len(t) \in Nat
  BY LenProperties, ConcatProperties
<1>2. \A i \in 1 .. Len(s) : i \in 1 .. Len(s) + Len(t) /\ (s \o t)[i] = s[i]
  BY <1>1, ConcatProperties
<1> QED
  BY <1>1, <1>2 DEF Range

LEMMA RangeOfAppend ==
  ASSUME NEW S, NEW s \in Seq(S), NEW m \in S
  PROVE  Range(s) \cup {m} \subseteq Range(Append(s, m))
<1>1. /\ DOMAIN s = 1 .. Len(s) /\ DOMAIN Append(s, m) = 1 .. Len(s) + 1
      /\ Len(s) \in Nat
      /\ \A i \in 1 .. Len(s) : Append(s, m)[i] = s[i]
      /\ Append(s, m)[Len(s) + 1] = m
  BY LenProperties, AppendProperties
<1> QED
  BY <1>1 DEF Range

LEMMA RangeOfTail ==
  ASSUME NEW S, NEW s \in Seq(S), s # <<>>
  PROVE  Range(s) \subseteq Range(Tail(s)) \cup {Head(s)}
<1>1. /\ Head(s) = s[1] /\ Tail(s) \in Seq(S)
      /\ Len(Tail(s)) = Len(s) - 1 /\ Len(s) \in Nat \ {0}
      /\ \A i \in 1 .. Len(Tail(s)) : Tail(s)[i] = s[i + 1]
  BY HeadTailProperties, EmptySeq
<1>2. DOMAIN s = 1 .. Len(s) /\ DOMAIN Tail(s) = 1 .. Len(s) - 1
  BY <1>1, LenProperties
<1> SUFFICES ASSUME NEW i \in 1 .. Len(s), s[i] # s[1] PROVE s[i] \in Range(Tail(s))
  BY <1>1, <1>2 DEF Range
<1>3. i - 1 \in 1 .. Len(s) - 1 /\ Tail(s)[i - 1] = s[i]
  BY <1>1
<1> QED
  BY <1>2, <1>3 DEF Range

-----------------------------------------------------------------------------
(***************************************************************************)
(* What was delivered stays delivered.                                     *)
(***************************************************************************)

LEMMA LeaveOpenDelivers ==
  ASSUME TypeOK, NEW c, LeaveOpen(c)
  PROVE  Range(delivered) \subseteq Range(delivered')
<1>1. PICK k \in 0 .. Len(inflight) : delivered' = delivered \o SubSeq(inflight, 1, k)
  BY DEF LeaveOpen
<1>2. SubSeq(inflight, 1, k) \in Seq(Message)
  <2>1. \A i \in 1 .. k : inflight[i] \in Message
    BY LenProperties DEF TypeOK, AmqpTypeOK
  <2> QED
    BY <2>1, SubSeqProperties, LenProperties DEF TypeOK, AmqpTypeOK
<1> QED
  BY <1>1, <1>2, RangeOfConcat DEF TypeOK, AmqpTypeOK

LEMMA PublishFailsDelivers ==
  ASSUME TypeOK, AmqpPublishFails
  PROVE  Range(delivered) \subseteq Range(delivered')
BY LeaveOpenDelivers DEF AmqpPublishFails, WaitFrameFails, BasicPublishFails, amqpVars

LEMMA EnvironmentDelivers ==
  ASSUME TypeOK, AmqpEnvironment
  PROVE  Range(delivered) \subseteq Range(delivered')
<1>1. CASE BrokerConsumes
  BY <1>1, HeadTailProperties, RangeOfAppend DEF BrokerConsumes, TypeOK, AmqpTypeOK
<1>2. CASE BrokerStops \/ ConnectionFails
  BY <1>2, LeaveOpenDelivers DEF BrokerStops, ConnectionFails
<1>3. CASE BrokerStarts \/ PeerLossDetected
  BY <1>3 DEF BrokerStarts, PeerLossDetected
<1> QED
  BY <1>1, <1>2, <1>3 DEF AmqpEnvironment

-----------------------------------------------------------------------------
(***************************************************************************)
(* The steps.                                                              *)
(***************************************************************************)

\* What a step may lose.
Exposed == Range(inflight) \cup Unheard

\* A step that leaves lists and message alone and delivers can only lose what is on
\* the wire.
LEMMA OnlyDelivers ==
  ASSUME UNCHANGED <<storage, message>>, Range(delivered) \subseteq Range(delivered')
  PROVE  Held \ Held' \subseteq Exposed
BY DEF Held, Stored, Exposed

LEMMA OnKeyspaceEventLoses ==
  ASSUME NodeInv, NEW d \in DB, NEW k \in Key, OnKeyspaceEvent(d, k)
  PROVE  Held \ Held' \subseteq Exposed
<1>1. UNCHANGED <<storage, delivered>> /\ message = NoMessage
  BY DEF OnKeyspaceEvent, LazyConnect, AmqpConnectOk, AmqpConnectFails, storageVars,
         amqpVars, NodeInv, CallbackInv
<1> QED
  BY <1>1 DEF Held, Stored, Exposed

LEMMA PublishEventOkLoses ==
  ASSUME NodeInv, PublishEventOk
  PROVE  Held \ Held' \subseteq Exposed
<1>1. UNCHANGED <<storage, delivered>>
  BY DEF PublishEventOk, AmqpPublishOk, storageVars
<1>2. CASE conn = "silent"
  <2>1. message \in Exposed
    BY <1>2 DEF PublishEventOk, Exposed, Unheard
  <2> QED
    BY <1>1, <2>1 DEF Held, Stored, Exposed
<1>3. CASE conn # "silent"
  <2>1. inflight' = Append(inflight, message)
    BY <1>3 DEF PublishEventOk, AmqpPublishOk, WaitFrameOk
  <2>2. message \in Message
    BY DEF NodeInv, CallbackInv, PublishEventOk, TypeOK
  <2>3. message \in Range(inflight')
    BY <2>1, <2>2, RangeOfAppend DEF NodeInv, TypeOK, AmqpTypeOK
  <2> QED
    BY <1>1, <2>3 DEF Held, Stored, Exposed
<1> QED
  BY <1>2, <1>3

LEMMA PublishEventFailsLoses ==
  ASSUME NodeInv, PublishEventFails, fallbackStorageMaxSize = 0
  PROVE  Held \ Held' \subseteq Exposed
<1>0. TypeOK
  BY DEF NodeInv
<1>1. message \in Message /\ ctxDb \in DB
  BY DEF NodeInv, CallbackInv, PublishEventFails, TypeOK
<1>2. storage' = [storage EXCEPT ![ctxDb] = Append(storage[ctxDb], message)]
  BY <1>1 DEF PublishEventFails, PushEventToStorage, StorageIsFull
<1>3. Range(storage[ctxDb]) \cup {message} \subseteq Range(storage'[ctxDb])
  BY <1>0, <1>1, <1>2, RangeOfAppend DEF TypeOK, StorageTypeOK
<1>4. \A d \in DB : Range(storage[d]) \subseteq Range(storage'[d])
  BY <1>0, <1>1, <1>2, <1>3 DEF TypeOK, StorageTypeOK
<1>5. Stored \cup {message} \subseteq Stored'
  BY <1>1, <1>3, <1>4 DEF Stored
<1>6. Range(delivered) \subseteq Range(delivered')
  BY <1>0, PublishFailsDelivers DEF PublishEventFails
<1> QED
  BY <1>5, <1>6 DEF Held, Exposed

LEMMA PublishStoredOkLoses ==
  ASSUME TypeOK, PublishStoredOk
  PROVE  Held \ Held' \subseteq Exposed
<1> DEFINE m == Head(storage[ctxDb])
<1>1. ctxDb \in DB /\ storage[ctxDb] \in Seq(Message) /\ storage[ctxDb] # <<>>
  BY DEF TypeOK, StorageTypeOK, PublishStoredOk
<1>2. storage' = [storage EXCEPT ![ctxDb] = Tail(storage[ctxDb])]
  BY DEF PublishStoredOk, StoredEventPublished
<1>3. Range(storage[ctxDb]) \subseteq Range(storage'[ctxDb]) \cup {m}
  BY <1>1, <1>2, RangeOfTail DEF TypeOK, StorageTypeOK
<1>4. \A d \in DB : Range(storage[d]) \subseteq Range(storage'[d]) \cup {m}
  BY <1>1, <1>2, <1>3 DEF TypeOK, StorageTypeOK
<1>5. Stored \subseteq Stored' \cup {m}
  BY <1>4 DEF Stored
<1>6. UNCHANGED <<message, delivered>>
  BY DEF PublishStoredOk, AmqpPublishOk, callVars
<1>7. m \in Exposed \cup Range(inflight')
  <2>1. CASE conn = "silent"
    BY <1>1, <2>1 DEF PublishStoredOk, Exposed, Unheard
  <2>2. CASE conn # "silent"
    <3>1. inflight' = Append(inflight, m)
      BY <2>2 DEF PublishStoredOk, AmqpPublishOk, WaitFrameOk
    <3>2. m \in Message
      BY <1>1, HeadTailProperties
    <3> QED
      BY <3>1, <3>2, RangeOfAppend DEF TypeOK, AmqpTypeOK
  <2> QED
    BY <2>1, <2>2
<1> HIDE DEF m
<1> QED
  BY <1>5, <1>6, <1>7 DEF Held, Exposed

LEMMA CallbackStepLoses ==
  ASSUME NodeInv, CallbackStep, fallbackStorageMaxSize = 0
  PROVE  Held \ Held' \subseteq Exposed
<1>0. TypeOK
  BY DEF NodeInv
<1>1. CASE PublishEventOk
  BY <1>1, PublishEventOkLoses
<1>2. CASE PublishEventFails
  BY <1>2, PublishEventFailsLoses
<1>3. CASE PublishStoredOk
  BY <1>0, <1>3, PublishStoredOkLoses
<1>4. CASE PublishStoredFails
  <2>1. ctxDb \in DB
    BY <1>0 DEF TypeOK
  <2>2. storage' = storage
    BY <1>0, <1>4, <2>1, StoredEventKeptUnchanged DEF PublishStoredFails, storageVars
  <2> QED
    BY <1>0, <1>4, <2>2, PublishFailsDelivers, OnlyDelivers DEF PublishStoredFails
<1>5. CASE PublishStoredDone
  BY <1>5, OnlyDelivers DEF PublishStoredDone, storageVars, amqpVars
<1>6. CASE TimerReconnects
  BY <1>6, OnlyDelivers DEF TimerReconnects, AmqpConnectOk, storageVars
<1>7. CASE TimerReconnectFails
  BY <1>0, <1>7, LeaveOpenDelivers, OnlyDelivers DEF TimerReconnectFails, storageVars
<1> QED
  BY <1>1, <1>2, <1>3, <1>4, <1>5, <1>6, <1>7 DEF CallbackStep

LEMMA CheckFramesLoses ==
  ASSUME TypeOK, NEW t \in Timer, CheckFramesAndHeartbeat(t)
  PROVE  Held \ Held' \subseteq Exposed
<1>1. UNCHANGED <<storage, message>>
  BY DEF CheckFramesAndHeartbeat, TimerDies, TimerFindsConnection, TimerFindsNoConnection,
         TimerFires, storageVars
<1>2. Range(delivered) \subseteq Range(delivered')
  BY LeaveOpenDelivers
  DEF CheckFramesAndHeartbeat, TimerDies, TimerFindsConnection, TimerFindsNoConnection,
      WaitFrameFails, amqpVars
<1> QED
  BY <1>1, <1>2, OnlyDelivers

LEMMA CommandLoses ==
  ASSUME TypeOK, Command
  PROVE  Held \ Held' \subseteq Exposed
<1>1. UNCHANGED <<storage, message>>
  BY DEF Command, ConnectCommandFails, ConnectCommandOk, SetupConfigCommand, SetupConfig,
         FallbackStorageSizeCommand, SetupFallbackStorage, KeymaskAddCommand,
         KeymaskSetCommand, KeymaskCleanCommand, KeymaskUnchanged, DisconnectCommand,
         storageVars, callVars
<1>2. Range(delivered) \subseteq Range(delivered')
  <2>1. CASE DisconnectCommand
    BY <2>1, LeaveOpenDelivers DEF DisconnectCommand, AmqpDisconnect
  <2>2. CASE ~DisconnectCommand
    BY <2>2
    DEF Command, ConnectCommandFails, ConnectCommandOk, SetupConfigCommand,
        FallbackStorageSizeCommand, KeymaskAddCommand, KeymaskSetCommand,
        KeymaskCleanCommand, KeymaskUnchanged, AmqpConnectOk, AmqpConnectFails, amqpVars
  <2> QED
    BY <2>1, <2>2
<1> QED
  BY <1>1, <1>2, OnlyDelivers

LEMMA NextLoses ==
  ASSUME NodeInv, Next, fallbackStorageMaxSize = 0
  PROVE  Held \ Held' \subseteq Exposed
<1>0. TypeOK
  BY DEF NodeInv
<1>1. CASE \E d \in DB, k \in Key : OnKeyspaceEvent(d, k)
  BY <1>1, OnKeyspaceEventLoses
<1>2. CASE CallbackStep
  BY <1>2, CallbackStepLoses
<1>3. CASE \E t \in Timer : CheckFramesAndHeartbeat(t)
  BY <1>0, <1>3, CheckFramesLoses
<1>4. CASE Command
  BY <1>0, <1>4, CommandLoses
<1>5. CASE RoleChange
  BY <1>5, OnlyDelivers DEF RoleChange, storageVars, amqpVars, callVars
<1>6. CASE Environment
  BY <1>0, <1>6, EnvironmentDelivers, OnlyDelivers
  DEF Environment, nodeVars, storageVars, callVars
<1> QED
  BY <1>1, <1>2, <1>3, <1>4, <1>5, <1>6 DEF Next

\* LossOnlyOnTheWire: with unlimited storage no step of the program loses an event
\* it holds; only the wire, or a peer gone unnoticed, does.
THEOREM LossAlwaysOnTheWire == Spec => LossOnlyOnTheWire
<1>1. NodeInv /\ [Next]_vars
        => [fallbackStorageMaxSize = 0
              => Held \ Held' \subseteq Range(inflight) \cup Unheard]_vars
  BY NextLoses DEF Exposed
<1>2. HandlerInv => NodeInv
  BY DEF HandlerInv
<1> QED
  BY <1>1, <1>2, HandlerInvHolds, PTL DEF Spec, LossOnlyOnTheWire
=============================================================================
