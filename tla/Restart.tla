-------------------------------- MODULE Restart --------------------------------
(***************************************************************************)
(* A node that crashes and is started again. Redis restores its dataset,   *)
(* the fallback storage among it, from the last snapshot; everything else  *)
(* the module starts afresh, from its load arguments and before the        *)
(* dataset is there.                                                       *)
(*                                                                         *)
(* External: snapshots are taken between callbacks, when Redis decides. A  *)
(* shutdown that saves is a snapshot followed by a crash.                  *)
(***************************************************************************)
EXTENDS EventForwarderProperties, FiniteSets

CONSTANT MaxCrashes   \* bound: crashes in a run

ASSUME MaxCrashesAssumption == MaxCrashes \in Nat

VARIABLES
  snapshot,   \* the fallback storage as it was last saved
  crashes     \* number of crashes so far

restartVars == <<vars, snapshot, crashes>>

RestartInit ==
  /\ Init
  /\ snapshot = storage
  /\ crashes = 0

SaveSnapshot ==
  /\ pc = "idle"
  /\ snapshot' = storage
  /\ UNCHANGED <<vars, crashes>>

\* RedisModule_OnLoad after a crash in any step of any callback. The counter starts
\* at 0: setupFallbackStorage opens the key before the dataset is loaded.
CrashAndRestart ==
  /\ crashes < MaxCrashes
  /\ crashes' = crashes + 1
  /\ storage' = snapshot
  /\ fallbackStorageLen' = 0
  /\ \E max \in InitialSizes : fallbackStorageMaxSize' = ToSizeT(max)
  /\ \E args \in InitialMasks : keyMaskArr' = AddMasks(<<>>, args)
  /\ amqpConnectionEnabled' = (keyMaskArr' # <<>>)
  /\ heardBeatTimerId' = 0
  /\ timers' = {}
  /\ pc' = "idle"
  /\ message' = NoMessage
  /\ inTimer' = FALSE
  /\ LeaveOpen("null")
  /\ UNCHANGED <<snapshot, broker, faults, master, ctxDb, events>>

RestartNext ==
  \/ Next /\ UNCHANGED <<snapshot, crashes>>
  \/ SaveSnapshot
  \/ CrashAndRestart

RestartSpec == RestartInit /\ [][RestartNext]_restartVars

-----------------------------------------------------------------------------

Saved == UNION {Range(snapshot[d]) : d \in DB}

\* Where event n is: every position in what was sent, every list, the running callback.
Copies(n) ==
  LET sent   == delivered \o inflight
      stored == UNION {{d} \X {i \in DOMAIN storage[d] : storage[d][i].id = n} : d \in DB}
  IN    Cardinality({i \in DOMAIN sent : sent[i].id = n})
      + Cardinality(stored)
      + (IF message # NoMessage /\ message.id = n THEN 1 ELSE 0)

\* A crash brings back events that were sent after the last snapshot, so the broker
\* gets them again, but each crash adds at most one copy: no put-back, reconnect or
\* second timer adds to it.
CopiesAreBounded == \A n \in 1 .. events : Copies(n) <= 1 + crashes

\* The hazard of LossOnlyOnTheWire with crashes: only a crash loses an event that was
\* not on the wire, and only one that was stored or published since the last snapshot.
LossOnlyOnTheWireOrUnsaved ==
  [][fallbackStorageMaxSize = 0
       => Held \ Held' \subseteq
            Range(inflight) \cup Unheard \cup (IF crashes' > crashes
                                                 THEN (Stored \cup {message}) \ Saved
                                                 ELSE {})]_restartVars

\* No timer is created at load, so the restored events wait until another event
\* comes. HeartbeatIsScheduled says that nothing else is ever left waiting: stored
\* events without a heartbeat are exactly the restored ones.
OnlyRestoredEventsWait ==
  amqpConnectionEnabled /\ heardBeatTimerId = 0 /\ ~inTimer
    => storage = snapshot /\ conn \in {"null", "nosocket"}
=============================================================================
