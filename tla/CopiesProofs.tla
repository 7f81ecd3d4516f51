------------------------------ MODULE CopiesProofs -----------------------------
(***************************************************************************)
(* How many copies of an event a crash can make, for every number of       *)
(* crashes and snapshots. Between two crashes the node does what           *)
(* StoreAndForward allows, which copies nothing (StoreAndForwardProofs).   *)
(***************************************************************************)
EXTENDS RestartProofs, RefinementProofs, FiniteSetTheorems

\* A snapshot holds a number once, as the lists it was taken from did.
SnapshotOnce ==
  /\ AbstractProofs!EachOnceIn(snapshot)
  /\ \A d \in DB : \A i \in DOMAIN snapshot[d] : snapshot[d][i].id <= events

CopyInv ==
  /\ RestartInv
  /\ AbstractProofs!OnceInv
  /\ SnapshotOnce
  /\ \A n \in Nat \ {0} : AbstractProofs!Copies(n) <= 1 + crashes

-----------------------------------------------------------------------------

\* The lists hold at most one event of a number, so counting them and asking whether
\* there is one is the same.
LEMMA StoredOnce ==
  ASSUME AbstractProofs!EachOnceIn(storage), NEW n
  PROVE  Cardinality(UNION {{d} \X {i \in DOMAIN storage[d] : storage[d][i].id = n} : d \in DB})
           = AbstractProofs!KeptCount(n)
<1> DEFINE stored == UNION {{d} \X {i \in DOMAIN storage[d] : storage[d][i].id = n} : d \in DB}
<1>1. \A p \in stored : p[1] \in DB /\ p[2] \in DOMAIN storage[p[1]]
                        /\ storage[p[1]][p[2]].id = n /\ p = <<p[1], p[2]>>
  OBVIOUS
<1>2. \A d \in DB : \A i \in DOMAIN storage[d] : storage[d][i].id = n => <<d, i>> \in stored
  OBVIOUS
<1>3. AbstractProofs!IsKept(n)
        <=> \E d \in DB : \E i \in DOMAIN storage[d] : storage[d][i].id = n
  BY DEF AbstractProofs!IsKept, AbstractProofs!Kept, AbstractProofs!Range
<1> HIDE DEF stored
<1>4. CASE stored = {}
  <2>1. ~AbstractProofs!IsKept(n)
    BY <1>2, <1>3, <1>4
  <2> QED
    BY <1>4, <2>1, FS_EmptySet DEF stored, AbstractProofs!KeptCount
<1>5. CASE stored # {}
  <2>1. PICK p : p \in stored
    BY <1>5
  <2>2. \A q \in stored : q = p
    BY <1>1, <2>1 DEF AbstractProofs!EachOnceIn
  <2>3. stored = {p}
    BY <2>1, <2>2
  <2>4. AbstractProofs!IsKept(n)
    BY <1>1, <1>3, <2>1
  <2> QED
    BY <2>3, <2>4, FS_Singleton DEF stored, AbstractProofs!KeptCount
<1> QED
  BY <1>4, <1>5

LEMMA CopiesAgree ==
  ASSUME AbstractProofs!OnceInv, NEW n
  PROVE  Copies(n) = AbstractProofs!Copies(n)
<1> DEFINE sent == delivered \o inflight
           stored == UNION {{d} \X {i \in DOMAIN storage[d] : storage[d][i].id = n} : d \in DB}
<1>1. Cardinality({i \in DOMAIN sent : sent[i].id = n}) = Cardinality(AbstractProofs!SentAt(n))
  BY DEF AbstractProofs!SentAt, AbstractProofs!Sent
<1>2. Cardinality(stored) = AbstractProofs!KeptCount(n)
  BY StoredOnce DEF AbstractProofs!OnceInv
<1>3. (IF message # NoMessage /\ message.id = n THEN 1 ELSE 0) = AbstractProofs!FreshCount(n)
  BY DEF AbstractProofs!FreshCount, AbstractProofs!IsFresh
<1> HIDE DEF sent, stored
<1>4. Copies(n) = Cardinality({i \in DOMAIN sent : sent[i].id = n}) + Cardinality(stored)
                    + (IF message # NoMessage /\ message.id = n THEN 1 ELSE 0)
  BY DEF Copies, sent, stored
<1>5. AbstractProofs!Copies(n) = Cardinality(AbstractProofs!SentAt(n))
                                   + AbstractProofs!KeptCount(n) + AbstractProofs!FreshCount(n)
  BY DEF AbstractProofs!Copies, AbstractProofs!Cardinality, Cardinality
<1> QED
  BY <1>1, <1>2, <1>3, <1>4, <1>5

-----------------------------------------------------------------------------

LEMMA CopyInvInit == RestartInit => CopyInv
<1> SUFFICES ASSUME RestartInit PROVE CopyInv
  OBVIOUS
<1>1. RestartInv
  BY RestartInvInit
<1>2. /\ storage = [d \in DB |-> <<>>] /\ snapshot = storage
      /\ inflight = <<>> /\ delivered = <<>>
      /\ message = NoMessage /\ events = 0 /\ crashes = 0
  BY DEF RestartInit, Init, StorageInit, AmqpInit
<1>3. AbstractProofs!OnceInv
  <2>1. AbstractProofs!TypeInv
    BY <1>2, ForwarderAssumption, EmptySeq
    DEF AbstractProofs!TypeInv, AbstractProofs!Event, Message
  <2>2. AbstractProofs!Kept = {} /\ AbstractProofs!Range(AbstractProofs!Sent) = {}
    BY <1>2, ConcatEmptySeq, EmptySeq
    DEF AbstractProofs!Kept, AbstractProofs!Sent, AbstractProofs!Range
  <2>3. AbstractProofs!EachOnceIn(storage)
    BY <1>2 DEF AbstractProofs!EachOnceIn
  <2> QED
    BY <1>2, <2>1, <2>2, <2>3 DEF AbstractProofs!OnceInv
<1>4. SnapshotOnce
  BY <1>2, <1>3 DEF SnapshotOnce, AbstractProofs!OnceInv
<1>5. ASSUME NEW n \in Nat \ {0} PROVE AbstractProofs!Copies(n) <= 1 + crashes
  <2>1. AbstractProofs!Copies(n) = 0
    BY <1>2, <1>3, AbstractProofs!CopiesToCome
  <2> QED
    BY <1>2, <2>1
<1> QED
  BY <1>1, <1>3, <1>4, <1>5 DEF CopyInv

\* A step of the node moves events and copies none.
LEMMA NextCopies ==
  ASSUME CopyInv, [Next]_vars, UNCHANGED <<snapshot, crashes>>
  PROVE  CopyInv'
<1>0. NodeInv /\ StorageInv /\ TypeOK /\ SnapshotInv
  BY DEF CopyInv, RestartInv, NodeInv
<1>1. RestartInv'
  BY RestartInvStep DEF CopyInv, RestartNext, restartVars, vars
<1>2. [AbstractProofs!Next]_AbstractProofs!vars
  BY <1>0, NextImplements, SameNext
<1>3. AbstractProofs!OnceInv'
  BY <1>2, AbstractProofs!OnceInvStep DEF CopyInv
<1>4. SnapshotOnce'
  <2>1. events \in Nat /\ events' \in Nat /\ events <= events'
    BY <1>0, EventsGrow DEF TypeOK
  <2>2. \A d \in DB : \A i \in DOMAIN snapshot[d] : snapshot[d][i].id \in Nat
    BY <1>0, EventNumbers DEF SnapshotInv
  <2> QED
    BY <2>1, <2>2 DEF CopyInv, SnapshotOnce, AbstractProofs!EachOnceIn
<1>5. ASSUME NEW n \in Nat \ {0} PROVE (AbstractProofs!Copies(n) <= 1 + crashes)'
  <2>0. crashes \in Nat /\ events \in Nat
    BY <1>0 DEF SnapshotInv, TypeOK
  <2>1. AbstractProofs!Copies(n) \in Nat /\ AbstractProofs!Copies(n)' \in Nat
    BY <1>3, AbstractProofs!CopiesNat, AbstractProofs!CopiesNatNext
    DEF CopyInv, AbstractProofs!OnceInv
  <2>2. CASE n <= events
    <3>1. AbstractProofs!Copies(n)' <= AbstractProofs!Copies(n)
      BY <1>2, <2>2, AbstractProofs!CopiesStep DEF CopyInv
    <3> QED
      BY <2>0, <2>1, <3>1 DEF CopyInv
  <2>3. CASE n > events
    <3>1. AbstractProofs!Copies(n)' <= 1
      BY <1>2, <2>3, AbstractProofs!CopiesOfNew DEF CopyInv
    <3> QED
      BY <2>0, <2>1, <3>1
  <2> QED
    BY <2>0, <2>2, <2>3
<1> QED
  BY <1>1, <1>3, <1>4, <1>5 DEF CopyInv

\* A snapshot has the property that OnceInv states of the lists.
LEMMA SaveSnapshotCopies ==
  ASSUME CopyInv, SaveSnapshot
  PROVE  CopyInv'
<1>1. RestartInv'
  BY SaveSnapshotStep DEF CopyInv
<1>2. UNCHANGED vars /\ snapshot' = storage /\ crashes' = crashes
  BY DEF SaveSnapshot
<1>3. UNCHANGED <<events, fallbackStorageMaxSize, message, storage, inflight, delivered>>
  BY <1>2 DEF vars, nodeVars, amqpVars, storageVars, callVars
<1>4. AbstractProofs!OnceInv' /\ \A n \in Nat \ {0} : AbstractProofs!Copies(n)' = AbstractProofs!Copies(n)
  BY <1>3
  DEF CopyInv, AbstractProofs!OnceInv, AbstractProofs!TypeInv, AbstractProofs!EachOnceIn,
      AbstractProofs!IsKept, AbstractProofs!Kept, AbstractProofs!Sent,
      AbstractProofs!Copies, AbstractProofs!SentAt, AbstractProofs!KeptCount,
      AbstractProofs!FreshCount, AbstractProofs!IsFresh
<1>5. SnapshotOnce'
  <2>1. \A d \in DB : \A i \in DOMAIN storage[d] : storage[d][i].id <= events
    BY DEF CopyInv, AbstractProofs!OnceInv, AbstractProofs!Kept, AbstractProofs!Range
  <2> QED
    BY <1>2, <1>3, <2>1
    DEF CopyInv, SnapshotOnce, AbstractProofs!OnceInv, AbstractProofs!EachOnceIn
<1> QED
  BY <1>1, <1>2, <1>4, <1>5 DEF CopyInv

\* A crash brings one copy back of everything saved, and breaks the wire.
LEMMA CrashCopies ==
  ASSUME CopyInv, CrashAndRestart
  PROVE  CopyInv'
<1>0. SnapshotInv /\ crashes \in Nat
  BY DEF CopyInv, RestartInv, SnapshotInv
<1>1. RestartInv'
  BY CrashAndRestartStep DEF CopyInv
<1>2. /\ storage' = snapshot /\ snapshot' = snapshot /\ crashes' = crashes + 1
      /\ events' = events /\ message' = NoMessage
  BY DEF CrashAndRestart
<1>3. AbstractProofs!WireBreaks
  BY DEF CrashAndRestart, LeaveOpen, AbstractProofs!WireBreaks
<1>4. snapshot \in [DB -> Seq(AbstractProofs!Event)]
  BY <1>0 DEF SnapshotInv, AbstractProofs!Event, Message
<1>5. AbstractProofs!EachOnceIn(storage')
  BY <1>2 DEF CopyInv, SnapshotOnce, AbstractProofs!EachOnceIn
<1>6. \A m \in AbstractProofs!Kept' : m.id <= events
  BY <1>2 DEF CopyInv, SnapshotOnce, AbstractProofs!Kept, AbstractProofs!Range
<1>7. /\ AbstractProofs!OnceInv'
      /\ \A n \in Nat : AbstractProofs!Copies(n)' <= AbstractProofs!Copies(n) + 1
  BY <1>2, <1>3, <1>4, <1>5, <1>6, AbstractProofs!PutBackAddsOne DEF CopyInv
<1>8. SnapshotOnce'
  BY <1>2 DEF CopyInv, SnapshotOnce, AbstractProofs!EachOnceIn
<1>9. ASSUME NEW n \in Nat \ {0} PROVE (AbstractProofs!Copies(n) <= 1 + crashes)'
  <2>1. AbstractProofs!Copies(n) \in Nat /\ AbstractProofs!Copies(n)' \in Nat
    BY <1>7, AbstractProofs!CopiesNat, AbstractProofs!CopiesNatNext
    DEF CopyInv, AbstractProofs!OnceInv
  <2>2. AbstractProofs!Copies(n)' <= AbstractProofs!Copies(n) + 1
    BY <1>7
  <2>3. AbstractProofs!Copies(n) <= 1 + crashes
    BY DEF CopyInv
  <2> QED
    BY <1>0, <1>2, <2>1, <2>2, <2>3
<1> QED
  BY <1>1, <1>7, <1>8, <1>9 DEF CopyInv

LEMMA CopyInvHolds == RestartSpec => []CopyInv
<1>1. CopyInv /\ [RestartNext]_restartVars => CopyInv'
  <2> SUFFICES ASSUME CopyInv, [RestartNext]_restartVars PROVE CopyInv'
    OBVIOUS
  <2>1. CASE [Next]_vars /\ UNCHANGED <<snapshot, crashes>>
    BY <2>1, NextCopies
  <2>2. CASE SaveSnapshot
    BY <2>2, SaveSnapshotCopies
  <2>3. CASE CrashAndRestart
    BY <2>3, CrashCopies
  <2> QED
    BY <2>1, <2>2, <2>3 DEF RestartNext, restartVars
<1> QED
  BY <1>1, CopyInvInit, PTL DEF RestartSpec

\* CopiesAreBounded: however often a node crashes, reconnects and puts events back,
\* an event exists and was sent at most once, and once more for every crash.
THEOREM CopiesAlwaysBounded == RestartSpec => []CopiesAreBounded
<1>1. CopyInv => CopiesAreBounded
  <2> SUFFICES ASSUME CopyInv, NEW n \in 1 .. events PROVE Copies(n) <= 1 + crashes
    BY DEF CopiesAreBounded
  <2>1. n \in Nat \ {0}
    BY DEF CopyInv, RestartInv, NodeInv, TypeOK
  <2>2. Copies(n) = AbstractProofs!Copies(n)
    BY CopiesAgree DEF CopyInv
  <2> QED
    BY <2>1, <2>2 DEF CopyInv
<1> QED
  BY <1>1, CopyInvHolds, PTL
=============================================================================
