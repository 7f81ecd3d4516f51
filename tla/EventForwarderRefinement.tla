----------------------- MODULE EventForwarderRefinement -----------------------
(***************************************************************************)
(* EventForwarder implements StoreAndForward: the event being published is *)
(* the fresh one, the lists of the fallback storage are the backlog, and   *)
(* what is in the socket is on the wire.                                   *)
(***************************************************************************)
EXTENDS EventForwarderProperties

Abstract ==
  INSTANCE StoreAndForward WITH
    occurred <- events,
    limited <- (fallbackStorageMaxSize # 0),
    fresh <- message,
    backlog <- storage,
    wire <- inflight

\* Whatever the timers, commands, roles, connection and cached counter do, no
\* callback does anything to the events but what StoreAndForward allows: it never
\* sends from the middle of a list, puts back in the wrong place, sends and keeps,
\* or forgets an event without a limit.
ImplementsStoreAndForward == Abstract!Spec
=============================================================================
