--------------------------- MODULE AmqpConnection ----------------------------
(***************************************************************************)
(* amqp_connection.c: the one AMQP connection of the module, the operations*)
(* on it, and - external - the broker and the network behind it.           *)
(*                                                                         *)
(* `conn' is the pointer `conn' of library.c together with the condition   *)
(* of the socket behind it:                                                *)
(*   "null"      *conn == NULL                                             *)
(*   "nosocket"  allocated, but amqp_tcp_socket_new failed                 *)
(*   "open"      logged in, channel open, the broker reads the socket      *)
(*   "closing"   a connection or channel close frame, or the end of the    *)
(*               stream, waits to be read                                  *)
(*   "silent"    the peer is gone and nothing says so yet: writes succeed  *)
(*   "broken"    every call on the connection returns an error             *)
(***************************************************************************)
EXTENDS Integers, Sequences

CONSTANT MaxFaults   \* bound: faults of the network, broker and library in a run

ASSUME MaxFaultsAssumption == MaxFaults \in Nat

VARIABLES
  conn,        \* see above
  broker,      \* whether the configured broker accepts connections
  inflight,    \* published on the open connection, not yet read by the broker
  delivered,   \* what the broker has taken
  faults       \* faults that may still happen

amqpVars == <<conn, broker, inflight, delivered, faults>>

ConnState == {"null", "nosocket", "open", "closing", "silent", "broken"}

AmqpInit ==
  /\ conn = "null"
  /\ broker \in {"up", "down"}
  /\ inflight = <<>>
  /\ delivered = <<>>
  /\ faults = MaxFaults

Fault == faults > 0 /\ faults' = faults - 1

-----------------------------------------------------------------------------

\* The connection leaves "open" for c: the broker still takes some of what was
\* on the wire, the rest is lost (there are no publisher confirms).
LeaveOpen(c) ==
  /\ conn' = c
  /\ inflight' = <<>>
  /\ \E k \in 0 .. Len(inflight) : delivered' = delivered \o SubSeq(inflight, 1, k)

\* amqpDisconnect: close channel and connection, destroy, *conn = NULL. On
\* *conn == NULL it only returns REDIS_AMQP_ERR.
AmqpDisconnect == LeaveOpen("null") /\ UNCHANGED <<broker, faults>>

\* amqpConnect on *conn == NULL with result REDIS_AMQP_OK.
AmqpConnectOk ==
  /\ conn = "null"
  /\ broker = "up"
  /\ conn' = "open"
  /\ UNCHANGED <<broker, inflight, delivered, faults>>

\* amqpConnect with any other result: the pointer was set already, or socket,
\* connection, login or channel failed and amqpDisconnect reset it; only the
\* socket error returns without that reset.
AmqpConnectFails ==
  /\ \/ conn # "null" /\ UNCHANGED <<conn, faults>>
     \/ conn = "null" /\ broker = "down" /\ UNCHANGED <<conn, faults>>
     \/ conn = "null" /\ Fault /\ conn' \in {"null", "nosocket"}
  /\ UNCHANGED <<broker, inflight, delivered>>

\* amqpWaitFrame returns AMQP_STATUS_OK: no frame within the zero timeout.
WaitFrameOk == conn \in {"open", "silent"}

\* amqpWaitFrame returns something else and the caller calls amqpDisconnect. On
\* a live connection the `frame' it inspects after a timeout was never written:
\* it may hold a close frame of an earlier call.
WaitFrameFails ==
  /\ conn # "null"
  /\ IF WaitFrameOk THEN Fault ELSE UNCHANGED faults
  /\ LeaveOpen("null")
  /\ UNCHANGED broker

\* amqpPublish returns AMQP_STATUS_OK: the message is in the socket.
AmqpPublishOk(m) ==
  /\ WaitFrameOk
  /\ inflight' = IF conn = "open" THEN Append(inflight, m) ELSE inflight
  /\ UNCHANGED <<conn, broker, delivered, faults>>

\* amqp_basic_publish fails after amqpWaitFrame passed: the pointer stays set.
BasicPublishFails ==
  /\ WaitFrameOk
  /\ IF conn = "open" THEN Fault ELSE UNCHANGED faults
  /\ LeaveOpen("broken")
  /\ UNCHANGED broker

\* amqpPublish returns an error, and whether it dropped the connection.
AmqpPublishFails ==
  \/ conn = "null" /\ UNCHANGED amqpVars
  \/ WaitFrameFails
  \/ BasicPublishFails

-----------------------------------------------------------------------------
\* The environment: broker, network and the heartbeat of the AMQP library.

BrokerConsumes ==
  /\ inflight # <<>>
  /\ delivered' = Append(delivered, Head(inflight))
  /\ inflight' = Tail(inflight)
  /\ UNCHANGED <<conn, broker, faults>>

BrokerStarts ==
  /\ broker = "down"
  /\ broker' = "up"
  /\ UNCHANGED <<conn, inflight, delivered, faults>>

BrokerStops ==
  /\ broker = "up"
  /\ broker' = "down"
  /\ Fault
  /\ IF conn = "open"
       THEN \E c \in {"closing", "silent", "broken"} : LeaveOpen(c)
       ELSE UNCHANGED <<conn, inflight, delivered>>

ConnectionFails ==
  /\ conn = "open"
  /\ Fault
  /\ \E c \in {"closing", "silent", "broken"} : LeaveOpen(c)
  /\ UNCHANGED broker

\* A missed heartbeat, a reset or a write timeout reveals the dead peer.
PeerLossDetected ==
  /\ conn = "silent"
  /\ conn' = "broken"
  /\ UNCHANGED <<broker, inflight, delivered, faults>>

AmqpEnvironment ==
  \/ BrokerConsumes
  \/ BrokerStarts
  \/ BrokerStops
  \/ ConnectionFails
  \/ PeerLossDetected
=============================================================================
