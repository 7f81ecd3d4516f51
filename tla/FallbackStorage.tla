--------------------------- MODULE FallbackStorage ---------------------------
(***************************************************************************)
(* The fallback storage of library.c: a native Redis list per database     *)
(* that keeps the serialized events which could not be published, the      *)
(* configured limit and the length counter cached in the module.           *)
(*                                                                         *)
(* The list is opened through the context of the running callback, so the  *)
(* key lives in the database that context has selected: `storage' is one   *)
(* list per database, while limit and counter are process-wide globals.    *)
(* Both globals are of type size_t: a negative argument wraps to a huge    *)
(* limit, and the tests `fallbackStorageMaxSize < 0' of lines 37, 78 and   *)
(* 97 are never true.                                                      *)
(***************************************************************************)
EXTENDS Integers, Sequences

CONSTANTS
  DB,       \* the database numbers of the Redis instance
  SizeMod   \* 2^w, the number of values of a size_t

ASSUME SizeModAssumption == SizeMod \in Nat \ {0, 1}

VARIABLES
  storage,                 \* database -> the list under fallbackStorageRedisKeyName
  fallbackStorageLen,      \* the cached length, a size_t
  fallbackStorageMaxSize   \* the configured limit, a size_t; 0 means unlimited

storageVars == <<storage, fallbackStorageLen, fallbackStorageMaxSize>>

\* A serialized event: the first line of the body is the database number; `id'
\* stands for the event name and key and tells two occurrences apart.
Message == [db : DB, id : Nat \ {0}]

SizeT == 0 .. SizeMod - 1

\* Mutant: the limit is kept in a signed variable.
ToSignedSize(n) == n

\* The conversion to size_t: of strtol's result, and of arithmetic that leaves its
\* range.
ToSizeT(n) == n % SizeMod

StorageTypeOK ==
  /\ storage \in [DB -> Seq(Message)]
  /\ fallbackStorageLen \in SizeT
  /\ fallbackStorageMaxSize \in SizeT

StorageInit(max) ==
  /\ storage = [d \in DB |-> <<>>]
  /\ fallbackStorageLen = 0
  /\ fallbackStorageMaxSize = ToSizeT(max)

-----------------------------------------------------------------------------

\* Mutant: 0 is a limit like any other.
StorageIsFullAtZero == fallbackStorageLen >= fallbackStorageMaxSize

\* The limit check of pushEventToStorage: it looks at the cached counter, never
\* at the list.
StorageIsFull ==
  fallbackStorageMaxSize > 0 /\ fallbackStorageLen >= fallbackStorageMaxSize

\* RedisModule_ListPop(HEAD) on a list that may be empty.
DropHead(list) == IF list = <<>> THEN <<>> ELSE Tail(list)

\* pushEventToStorage: the oldest event makes room for the new one. The cached
\* counter is not touched.
PushEventToStorage(d, m) ==
  /\ storage' = [storage EXCEPT ![d] =
                   Append(IF StorageIsFull THEN DropHead(@) ELSE @, m)]
  /\ UNCHANGED <<fallbackStorageLen, fallbackStorageMaxSize>>

\* Mutant: RedisModule_ListPush(TAIL).
PutBackAtTail(m, list) == Append(list, m)

\* RedisModule_ListPush(HEAD) of a message whose publication failed.
PutBack(m, list) == <<m>> \o list

\* Mutant: the published event is pushed back as well.
StoredEventPublishedAndKept(d) ==
  /\ storage' = [storage EXCEPT ![d] = PutBack(Head(@), Tail(@))]
  /\ fallbackStorageLen' = ToSizeT(fallbackStorageLen - 1)
  /\ UNCHANGED fallbackStorageMaxSize

\* One round of the loop of publishStoredEvents whose publication succeeded:
\* the popped event is gone and the counter is decremented, modulo its width.
StoredEventPublished(d) ==
  /\ storage' = [storage EXCEPT ![d] = Tail(@)]
  /\ fallbackStorageLen' = ToSizeT(fallbackStorageLen - 1)
  /\ UNCHANGED fallbackStorageMaxSize

\* Mutant: it does not go back.
StoredEventForgotten(d) ==
  /\ storage' = [storage EXCEPT ![d] = Tail(@)]
  /\ UNCHANGED <<fallbackStorageLen, fallbackStorageMaxSize>>

\* The round whose publication failed: the popped event goes back to the list.
StoredEventKept(d) ==
  /\ storage' = [storage EXCEPT ![d] = PutBack(Head(@), Tail(@))]
  /\ UNCHANGED <<fallbackStorageLen, fallbackStorageMaxSize>>

\* syncFallbackStorageLen: the counter is read from the list of the caller's
\* database, 0 when there is none.
SyncFallbackStorageLen(d) == fallbackStorageLen' = ToSizeT(Len(storage[d]))

\* Assignment of the limit followed by setupFallbackStorage. Its else branch,
\* which would delete the list, is unreachable.
SetupFallbackStorage(d, max) ==
  /\ fallbackStorageMaxSize' = max
  /\ SyncFallbackStorageLen(d)
  /\ UNCHANGED storage
=============================================================================
