--------------------------- MODULE EventForwarder ----------------------------
(***************************************************************************)
(* One Redis node with the module loaded: the handlers of library.c over   *)
(* the fallback storage, the AMQP connection and the key filter.           *)
(*                                                                         *)
(* Redis runs every callback of the module - keyspace event, timer,        *)
(* command - on its main thread, one at a time. A callback that publishes  *)
(* is several steps here, one per call into the AMQP library, because the  *)
(* broker and the network act between them; `pc' says which step is due    *)
(* and no other callback starts unless it is "idle".                       *)
(***************************************************************************)
EXTENDS FallbackStorage, AmqpConnection, KeyMask

CONSTANTS
  TimerId,       \* bound: timers that may be pending at once
  MaxEvents,     \* bound: keyspace events that pass the filter
  NoMessage,     \* no message is being published
  InitialMasks,  \* key masks given at load
  InitialSizes,  \* fallback storage sizes given at load
  ConfigArgs,    \* arguments of config_set and connect
  SizeArgs,      \* arguments of fallback_storage_size_set
  MaskArgs,      \* arguments of keymask_add and keymask_set
  Commands,      \* commands that operators issue
  RoleChanges    \* whether the node changes between master and slave

\* Arguments of setupConfig: n of the nine positional ones are given, and key
\* masks only after all nine. Host, port, user, password, heartbeat, exchange
\* and routing key (the first seven) are not distinguished.
ConfigArg == [n : 0 .. 9, deliveryMode : Int, size : Int, masks : Seq(Mask)]

ASSUME ForwarderAssumption ==
  /\ MaxEvents \in Nat
  /\ 0 \notin TimerId
  /\ NoMessage \notin Message
  /\ InitialMasks \subseteq Seq(Mask)
  /\ InitialSizes \subseteq Int
  /\ ConfigArgs \subseteq ConfigArg
  /\ \A a \in ConfigArgs : a.masks # <<>> => a.n = 9
  /\ SizeArgs \subseteq Int
  /\ MaskArgs \subseteq Seq(Mask)
  /\ RoleChanges \in BOOLEAN

VARIABLES
  amqpConnectionEnabled,  \* the module is meant to be connected
  heardBeatTimerId,       \* handle of the heartbeat timer, 0 when there is none
  timers,                 \* timers pending in Redis, each with its database
  master,                 \* REDISMODULE_CTX_FLAGS_MASTER
  pc,                     \* next step of the running callback, or "idle"
  ctxDb,                  \* database selected by the context of that callback
  message,                \* messageString of publishEvent
  inTimer,                \* the running callback is checkFramesAndHeartbeat
  events                  \* number of events so far

callVars == <<pc, ctxDb, message, inTimer>>
timerVars == <<heardBeatTimerId, timers>>
nodeVars == <<storageVars, keyMaskArr, amqpConnectionEnabled, timerVars, master,
              callVars, events>>
vars == <<amqpVars, nodeVars>>

Timer == [id : TimerId, db : DB]

AmqpTypeOK ==
  /\ conn \in ConnState
  /\ broker \in {"up", "down"}
  /\ inflight \in Seq(Message)
  /\ delivered \in Seq(Message)
  /\ faults \in Nat

\* The types of all variables; the only property of this kind.
TypeOK ==
  /\ StorageTypeOK
  /\ AmqpTypeOK
  /\ keyMaskArr \in Seq(Mask)
  /\ amqpConnectionEnabled \in BOOLEAN
  /\ heardBeatTimerId \in TimerId \cup {0}
  /\ timers \in SUBSET Timer
  /\ master \in BOOLEAN
  /\ pc \in {"idle", "connect", "publish", "drain"}
  /\ ctxDb \in DB
  /\ message \in Message \cup {NoMessage}
  /\ inTimer \in BOOLEAN
  /\ events \in Nat

\* RedisModule_OnLoad: a module loaded without key masks has nothing to do and
\* stays disabled.
Init ==
  /\ \E max \in InitialSizes : StorageInit(max)
  /\ AmqpInit
  /\ keyMaskArr \in {AddMasks(<<>>, args) : args \in InitialMasks}
  /\ amqpConnectionEnabled = (keyMaskArr # <<>>)
  /\ heardBeatTimerId = 0
  /\ timers = {}
  /\ master \in (IF RoleChanges THEN BOOLEAN ELSE {TRUE})
  /\ pc = "idle"
  /\ ctxDb \in DB
  /\ message = NoMessage
  /\ inTimer = FALSE
  /\ events = 0

-----------------------------------------------------------------------------

\* The callback goes on with step s, or returns when s is "idle".
Continue(s) ==
  /\ pc' = s
  /\ IF s = "idle" THEN inTimer' = FALSE ELSE UNCHANGED inTimer

\* RedisModule_CreateTimer from a context on database d, next to the timers
\* pending. Its id becomes the handle; a handle held until then is overwritten.
CreateTimer(pending, d) ==
  \E id \in TimerId :
    /\ \A t \in pending : t.id # id
    /\ timers' = pending \cup {[id |-> id, db |-> d]}
    /\ heardBeatTimerId' = id

\* Mutant: the timer is not created again.
ReturnWithoutTimer == Continue("idle") /\ UNCHANGED timerVars

\* The end of checkFramesAndHeartbeat creates the next timer; other callbacks
\* just return.
Return ==
  /\ Continue("idle")
  /\ IF inTimer THEN CreateTimer(timers, ctxDb) ELSE UNCHANGED timerVars

-----------------------------------------------------------------------------
(***************************************************************************)
(* Keyspace events.                                                        *)
(***************************************************************************)

\* The first event with no timer connects, whatever the result, and creates it.
LazyConnect(d) ==
  IF heardBeatTimerId = 0
    THEN (AmqpConnectOk \/ AmqpConnectFails) /\ CreateTimer(timers, d)
    ELSE UNCHANGED <<amqpVars, timerVars>>

\* onKeyspaceEvent on a key of database d. On a slave, and while the connection
\* is disabled, it does nothing.
OnKeyspaceEvent(d, k) ==
  /\ pc = "idle"
  /\ master /\ amqpConnectionEnabled
  /\ LazyConnect(d)
  /\ IF KeyIsSelected(k)
       THEN /\ events < MaxEvents
            /\ events' = events + 1
            /\ message' = [db |-> d, id |-> events + 1]
            /\ ctxDb' = d
            /\ Continue("publish")
       ELSE UNCHANGED <<callVars, events>>
  /\ UNCHANGED <<storageVars, keyMaskArr, amqpConnectionEnabled, master>>

\* publishEvent, the new event sent: the stored ones follow it.
PublishEventOk ==
  /\ pc = "publish"
  /\ AmqpPublishOk(message)
  /\ message' = NoMessage
  /\ Continue("drain")
  /\ UNCHANGED <<storageVars, keyMaskArr, amqpConnectionEnabled, timerVars,
                 master, ctxDb, events>>

\* publishEvent, the new event not sent, with or without a connection.
PublishEventFails ==
  /\ pc = "publish"
  /\ AmqpPublishFails
  /\ PushEventToStorage(ctxDb, message)
  /\ message' = NoMessage
  /\ Return
  /\ UNCHANGED <<keyMaskArr, amqpConnectionEnabled, master, ctxDb, events>>

-----------------------------------------------------------------------------
(***************************************************************************)
(* publishStoredEvents, one round of its loop at a time.                   *)
(***************************************************************************)

PublishStoredOk ==
  /\ pc = "drain"
  /\ storage[ctxDb] # <<>>
  /\ AmqpPublishOk(Head(storage[ctxDb]))
  /\ StoredEventPublished(ctxDb)
  /\ UNCHANGED <<keyMaskArr, amqpConnectionEnabled, timerVars, master, callVars,
                 events>>

PublishStoredFails ==
  /\ pc = "drain"
  /\ storage[ctxDb] # <<>>
  /\ AmqpPublishFails
  /\ StoredEventKept(ctxDb)
  /\ Return
  /\ UNCHANGED <<keyMaskArr, amqpConnectionEnabled, master, ctxDb, message, events>>

PublishStoredDone ==
  /\ pc = "drain"
  /\ storage[ctxDb] = <<>>
  /\ Return
  /\ UNCHANGED <<storageVars, amqpVars, keyMaskArr, amqpConnectionEnabled, master,
                 ctxDb, message, events>>

-----------------------------------------------------------------------------
(***************************************************************************)
(* checkFramesAndHeartbeat.                                                *)
(***************************************************************************)

\* The timer is due: it is no longer pending and the handle is reset, whichever
\* timer the handle belonged to.
TimerFires(t) ==
  /\ pc = "idle"
  /\ t \in timers
  /\ UNCHANGED <<storageVars, keyMaskArr, amqpConnectionEnabled, master, message,
                 events>>

\* Disabled: the callback returns and creates no further timer.
TimerDies(t) ==
  /\ TimerFires(t)
  /\ ~amqpConnectionEnabled
  /\ timers' = timers \ {t}
  /\ heardBeatTimerId' = 0
  /\ UNCHANGED <<amqpVars, pc, ctxDb, inTimer>>

\* amqpWaitFrame finds the connection alive: the timer is created anew at once.
TimerFindsConnection(t) ==
  /\ TimerFires(t)
  /\ amqpConnectionEnabled
  /\ WaitFrameOk
  /\ CreateTimer(timers \ {t}, t.db)
  /\ UNCHANGED <<amqpVars, pc, ctxDb, inTimer>>

\* Mutant: without the test of amqpConnectionEnabled.
TimerIgnoresDisabled(t) ==
  /\ TimerFires(t)
  /\ timers' = timers \ {t}
  /\ heardBeatTimerId' = 0
  /\ \/ conn = "null" /\ UNCHANGED amqpVars
     \/ WaitFrameFails
  /\ pc' = "connect"
  /\ ctxDb' = t.db
  /\ inTimer' = TRUE

\* No connection, or amqpWaitFrame reports its end and amqpDisconnect drops it:
\* amqpConnect is next.
TimerFindsNoConnection(t) ==
  /\ TimerFires(t)
  /\ amqpConnectionEnabled
  /\ timers' = timers \ {t}
  /\ heardBeatTimerId' = 0
  /\ \/ conn = "null" /\ UNCHANGED amqpVars
     \/ WaitFrameFails
  /\ pc' = "connect"
  /\ ctxDb' = t.db
  /\ inTimer' = TRUE

\* Mutant: the stored events are left for later.
TimerReconnectsOnly ==
  /\ pc = "connect"
  /\ AmqpConnectOk
  /\ Return
  /\ UNCHANGED <<storageVars, keyMaskArr, amqpConnectionEnabled, master, ctxDb,
                 message, events>>

\* The reconnect succeeds: the stored events are next.
TimerReconnects ==
  /\ pc = "connect"
  /\ AmqpConnectOk
  /\ Continue("drain")
  /\ UNCHANGED <<storageVars, keyMaskArr, amqpConnectionEnabled, timerVars, master,
                 ctxDb, message, events>>

\* amqpConnect fails and amqpDisconnect clears whatever it left behind.
TimerReconnectFails ==
  /\ pc = "connect"
  /\ \/ broker = "down" /\ UNCHANGED faults
     \/ Fault
  /\ LeaveOpen("null")
  /\ Return
  /\ UNCHANGED <<storageVars, broker, keyMaskArr, amqpConnectionEnabled, master,
                 ctxDb, message, events>>

-----------------------------------------------------------------------------
(***************************************************************************)
(* Commands, from a client that has selected database d (or from the       *)
(* cluster bus, on database 0).                                            *)
(***************************************************************************)

Issued(command) == pc = "idle" /\ command \in Commands

\* The delivery mode, cast to uint8_t, is over 2: setupConfig gives up there.
ConfigRejected(a) == a.n > 7 /\ a.deliveryMode % 256 > 2

\* setupConfig. Masks replace the array, which is emptied before anything else
\* is looked at; a rejected call keeps what it did until then.
SetupConfig(d, a) ==
  /\ IF a.masks = <<>>
       THEN UNCHANGED keyMaskArr
       ELSE SetMasks(IF ConfigRejected(a) THEN <<>> ELSE AddMasks(<<>>, a.masks))
  /\ IF ConfigRejected(a)
       THEN UNCHANGED storageVars
       ELSE SetupFallbackStorage(d, IF a.n > 8 THEN ToSizeT(a.size)
                                               ELSE fallbackStorageMaxSize)

\* connectAmqpCommand that ends in an error: the configuration was rejected, a
\* connection exists already, or none could be made.
ConnectCommandFails(d, a) ==
  /\ Issued("connect")
  /\ SetupConfig(d, a)
  /\ IF ConfigRejected(a) THEN UNCHANGED amqpVars ELSE AmqpConnectFails
  /\ UNCHANGED <<amqpConnectionEnabled, timerVars, master, callVars, events>>

\* connectAmqpCommand that connects: it enables the module and creates a timer
\* without looking at the one that may be pending.
ConnectCommandOk(d, a) ==
  /\ Issued("connect")
  /\ ~ConfigRejected(a)
  /\ SetupConfig(d, a)
  /\ AmqpConnectOk
  /\ CreateTimer(timers, d)
  /\ amqpConnectionEnabled' = TRUE
  /\ UNCHANGED <<master, callVars, events>>

\* Mutant: the handle of the stopped timer is kept.
DisconnectKeepsHandle ==
  /\ Issued("disconnect")
  /\ amqpConnectionEnabled' = FALSE
  /\ timers' = {t \in timers : t.id # heardBeatTimerId}
  /\ AmqpDisconnect
  /\ UNCHANGED <<storageVars, heardBeatTimerId, keyMaskArr, master, callVars, events>>

\* disconnectAmqpCommand: stops the timer it has a handle of.
DisconnectCommand ==
  /\ Issued("disconnect")
  /\ amqpConnectionEnabled' = FALSE
  /\ timers' = {t \in timers : t.id # heardBeatTimerId}
  /\ heardBeatTimerId' = 0
  /\ AmqpDisconnect
  /\ UNCHANGED <<storageVars, keyMaskArr, master, callVars, events>>

SetupConfigCommand(d, a) ==
  /\ Issued("config_set")
  /\ SetupConfig(d, a)
  /\ UNCHANGED <<amqpVars, amqpConnectionEnabled, timerVars, master, callVars, events>>

FallbackStorageSizeCommand(d, size) ==
  /\ Issued("fallback_storage_size_set")
  /\ SetupFallbackStorage(d, ToSizeT(size))
  /\ UNCHANGED <<amqpVars, keyMaskArr, amqpConnectionEnabled, timerVars, master,
                 callVars, events>>

KeymaskUnchanged ==
  UNCHANGED <<storageVars, amqpVars, amqpConnectionEnabled, timerVars, master,
              callVars, events>>

KeymaskCleanCommand == Issued("keymask_clean") /\ KeymaskClean /\ KeymaskUnchanged

KeymaskAddCommand(args) ==
  Issued("keymask_add") /\ KeymaskAdd(args) /\ KeymaskUnchanged

KeymaskSetCommand(args) ==
  Issued("keymask_set") /\ KeymaskSet(args) /\ KeymaskUnchanged

-----------------------------------------------------------------------------

\* External: a failover makes the node master or slave, between two callbacks.
RoleChange ==
  /\ pc = "idle"
  /\ RoleChanges
  /\ master' = ~master
  /\ UNCHANGED <<storageVars, amqpVars, keyMaskArr, amqpConnectionEnabled, timerVars,
                 callVars, events>>

\* The broker and the network leave the node's own state alone.
Environment ==
  /\ AmqpEnvironment
  /\ UNCHANGED nodeVars

\* The steps that complete a callback once it has started.
CallbackStep ==
  \/ PublishEventOk
  \/ PublishEventFails
  \/ PublishStoredOk
  \/ PublishStoredFails
  \/ PublishStoredDone
  \/ TimerReconnects
  \/ TimerReconnectFails

CheckFramesAndHeartbeat(t) ==
  \/ TimerDies(t)
  \/ TimerFindsConnection(t)
  \/ TimerFindsNoConnection(t)

Command ==
  \/ \E d \in DB, a \in ConfigArgs :
       \/ ConnectCommandFails(d, a)
       \/ ConnectCommandOk(d, a)
       \/ SetupConfigCommand(d, a)
  \/ \E d \in DB, size \in SizeArgs : FallbackStorageSizeCommand(d, size)
  \/ \E args \in MaskArgs : KeymaskAddCommand(args) \/ KeymaskSetCommand(args)
  \/ KeymaskCleanCommand
  \/ DisconnectCommand

Next ==
  \/ \E d \in DB, k \in Key : OnKeyspaceEvent(d, k)
  \/ CallbackStep
  \/ \E t \in Timer : CheckFramesAndHeartbeat(t)
  \/ Command
  \/ RoleChange
  \/ Environment

Spec == Init /\ [][Next]_vars

\* Redis completes a callback that runs and gets to every timer that is due; the
\* broker comes back and a dead peer is noticed in the end.
Fairness ==
  /\ WF_vars(CallbackStep)
  /\ \A t \in Timer : SF_vars(CheckFramesAndHeartbeat(t))
  /\ WF_vars(BrokerStarts /\ UNCHANGED nodeVars)
  /\ WF_vars(PeerLossDetected /\ UNCHANGED nodeVars)

FairSpec == Spec /\ Fairness
=============================================================================
