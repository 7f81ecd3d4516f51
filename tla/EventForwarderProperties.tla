---------------------- MODULE EventForwarderProperties -----------------------
(***************************************************************************)
(* What the node promises: the properties of EventForwarder that TLC       *)
(* checks and EventForwarderProofs proves. The last section states lines   *)
(* of the README which the code does not keep.                             *)
(***************************************************************************)
EXTENDS EventForwarder

Stored == UNION {Range(storage[d]) : d \in DB}

\* Every event the module still answers for.
Held == Stored \cup Range(inflight) \cup Range(delivered) \cup ({message} \ {NoMessage})

-----------------------------------------------------------------------------
(***************************************************************************)
(* Timer and connection.                                                   *)
(***************************************************************************)

\* The handle heardBeatTimerId always names a timer that is pending in Redis:
\* StopTimer in disconnect never misses, although several timers overwrite the
\* one handle and each of them resets it when it fires.
TimerHandleIsPending ==
  heardBeatTimerId # 0 => \E t \in timers : t.id = heardBeatTimerId

\* The heartbeat of an enabled module never dies out: as soon as there is a
\* connection to watch or a stored event to send, a timer is pending or running.
HeartbeatIsScheduled ==
  /\ amqpConnectionEnabled
  /\ conn \notin {"null", "nosocket"} \/ Stored # {}
  => heardBeatTimerId # 0 \/ inTimer

\* README, disconnect: "Connection will not be restored automaticaly", neither by
\* an event nor by a timer that the disconnect command did not stop.
DisconnectSticks == ~amqpConnectionEnabled => conn \in {"null", "nosocket"}

\* With "ALL" among the masks it is the first, so the filter loop selects every
\* key whatever masks were added before and after it (README: the others are
\* ignored).
AllMaskComesFirst == AllMask \in Range(keyMaskArr) => keyMaskArr[1] = AllMask

-----------------------------------------------------------------------------
(***************************************************************************)
(* Events.                                                                 *)
(***************************************************************************)

\* An event is in one place only: never stored twice, never sent twice, never
\* stored and sent, over failed publications, put-backs and reconnects.
NoDuplicates ==
  LET sent == delivered \o inflight
  IN  /\ IsInjective(sent)
      /\ \A d \in DB : IsInjective(storage[d])
      /\ Stored \cap Range(sent) = {}
      /\ message \notin Stored \cup Range(sent)

\* A list holds the events of its own database, oldest first, so publishStoredEvents
\* sends them, and a full list drops them, in the order they occurred.
StorageInOrder ==
  \A d \in DB : \A i, j \in DOMAIN storage[d] :
    /\ storage[d][i].db = d
    /\ i < j => storage[d][i].id < storage[d][j].id

\* Messages that the running step writes to a peer which is already gone.
Unheard ==
  IF conn # "silent" THEN {}
  ELSE CASE pc = "publish" -> {message}
         [] pc = "drain" /\ storage[ctxDb] # <<>> -> {Head(storage[ctxDb])}
         [] OTHER -> {}

\* With unlimited storage no callback loses an event: what disappears had been
\* accepted by amqp_basic_publish before, and was lost behind the socket.
LossOnlyOnTheWire ==
  [][fallbackStorageMaxSize = 0
       => Held \ Held' \subseteq Range(inflight) \cup Unheard]_vars

-----------------------------------------------------------------------------
(***************************************************************************)
(* Progress.                                                               *)
(***************************************************************************)

\* A module whose heartbeat runs gets its connection (back), or is disabled.
Reconnects ==
  heardBeatTimerId # 0 ~> (conn = "open" \/ ~amqpConnectionEnabled)

\* Stored events do not stay: as long as the module is enabled, the storage is
\* emptied again and again.
StoredEventsAreSent ==
  []<>(~amqpConnectionEnabled \/ Stored = {})

-----------------------------------------------------------------------------
(***************************************************************************)
(* Statements of the README that the code does not keep.                   *)
(***************************************************************************)

\* The limit as the operator gave it.
SignedMaxSize ==
  IF fallbackStorageMaxSize >= SizeMod \div 2
    THEN fallbackStorageMaxSize - SizeMod
    ELSE fallbackStorageMaxSize

\* README, storage size: "negative integer (<0) - turnoff fallback behavior", so
\* pushEventToStorage stores nothing.
NegativeSizeStoresNothing == SignedMaxSize < 0 => Stored = {}

\* README, storage size: "positive integer (>0) - max number of stored events in
\* RedisList", over every push, drain and resynchronisation of the counter.
StorageIsBounded ==
  SignedMaxSize > 0 => \A d \in DB : Len(storage[d]) <= SignedMaxSize

\* The same line, the other way round: pushEventToStorage drops no event from a
\* list that is below the maximum.
DropsOnlyWhenFull ==
  [][\A d \in DB :
       /\ 0 < SignedMaxSize
       /\ Len(storage[d]) < SignedMaxSize
       /\ pc = "publish"
       => Range(storage[d]) \subseteq Range(storage'[d])]_vars

\* README: "When the connection returns, all events from the fallback storage will
\* be sent to the broker", whatever database they were stored in: a connection that
\* stays meets an empty storage.
SentWhenConnectionReturns == []<>(conn # "open" \/ Stored = {})

\* README: "only master nodes will be send AMQP messages to broker", from whichever
\* callback.
OnlyMasterSends == [][Len(inflight') > Len(inflight) => master]_vars

\* README: "If for some reason the AMQP message cannot be delivered, the module saves
\* the events": an event is stored, on its way, or delivered.
UndeliveredEventsAreSaved ==
  \A n \in 1 .. events : \E m \in Held : m.id = n
=============================================================================
