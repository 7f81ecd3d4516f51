------------------------------ MODULE WaitFrame -------------------------------
(***************************************************************************)
(* The loop of amqpWaitFrame over what the AMQP library hands out, which   *)
(* AmqpConnection takes as one step.                                       *)
(*                                                                         *)
(* External: amqp_simple_wait_frame_noblock returns AMQP_STATUS_OK and a   *)
(* frame as long as complete frames are there. Then it returns a status    *)
(* and leaves `frame' untouched, unless the last it read was a part of a   *)
(* frame (frame_type 0) or a heartbeat, which it answers itself.           *)
(***************************************************************************)
EXTENDS Integers, Sequences, Functions

CloseMethod == {"connection_close", "channel_close"}

\* What complete frames a broker sends to a publisher.
Frame == CloseMethod \cup {"method"}

\* What `frame' may hold. It is not initialised: before the first frame arrives it
\* is whatever an earlier call has left on the stack.
FrameContent == Frame \cup {"none", "heartbeat"}

\* The status once no complete frame is left: "error" is any other than the two
\* that the loop knows.
EndStatus == {"timeout", "connection_closed", "error"}

\* What the last read did to `frame'.
LastRead == {"untouched", "none", "heartbeat"}

\* `frame' after call i of the library, with n complete frames waiting.
FrameAfter(frames, last, stale, i) ==
  IF i <= Len(frames) THEN frames[i]
  ELSE IF last # "untouched" THEN last
  ELSE IF frames = <<>> THEN stale ELSE frames[Len(frames)]

\* Mutant: a channel that was closed is not noticed.
IsConnectionClose(frame) == frame = "connection_close"

\* The two tests for a close method, which is answered before the function returns.
IsClose(frame) == frame \in {"connection_close", "channel_close"}

\* Mutant: the loop goes on after a timeout.
LoopEndsWithoutTimeout(res, frame) ==
  res = "connection_closed" \/ frame \in {"none", "heartbeat"}

\* The negated condition of the do loop.
LoopEnds(res, frame) ==
  res \in {"connection_closed", "timeout"} \/ frame \in {"none", "heartbeat"}

\* amqpWaitFrame. "spins": the library reports an error, `frame' does not end the
\* loop, and neither changes with the next call.
WaitFrame(frames, status, last, stale) ==
  LET loop[i \in 1 .. Len(frames) + 1] ==
        LET frame == FrameAfter(frames, last, stale, i)
            res   == IF i <= Len(frames) THEN "ok" ELSE status
        IN  CASE IsClose(frame) -> "connection_closed"
              [] ~IsClose(frame) /\ LoopEnds(res, frame) -> IF res = "timeout" THEN "ok" ELSE res
              [] OTHER -> IF i <= Len(frames) THEN loop[i + 1] ELSE "spins"
  IN  loop[1]

\* The condition of AmqpConnection!conn that such a call meets.
CloseIsPending(frames, status) ==
  status = "connection_closed" \/ Range(frames) \cap CloseMethod # {}
=============================================================================
