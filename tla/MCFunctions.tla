----------------------------- MODULE MCFunctions ------------------------------
(***************************************************************************)
(* The functions of utils.c and the loop of amqpWaitFrame on all inputs up *)
(* to a bound, against what the rest of the specification and the README   *)
(* take them to be. `input' holds the arguments of one call; the actions   *)
(* make it longer.                                                         *)
(***************************************************************************)
EXTENDS PatternMatch, CommandSerialization, WaitFrame

CONSTANTS
  MaskChar, KeyChar,                 \* characters of masks and keys
  MaxMask, MaxKey,                   \* bounds: their lengths
  Argument,                          \* command arguments, as lines
  MaxArgs,                           \* bound: number of arguments
  MaxFrames                          \* bound: frames that wait

\* A string has at least one line.
ASSUME ArgumentAssumption == \A a \in Argument : a \in Seq(STRING) /\ a # <<>>

VARIABLE input

MCArgument == BoundedSeq({"", "x", "y"}, 2) \ {<<>>}

Init ==
  \/ input = [call |-> "match", mask |-> <<>>, key |-> <<>>]
  \/ input \in {[call |-> "split", argv |-> <<a>>] : a \in Argument}
  \/ input \in [call : {"wait"}, frames : {<<>>}, status : EndStatus, last : LastRead,
                stale : FrameContent]

Extend(call, field, max, S) ==
  /\ input.call = call
  /\ Len(input[field]) < max
  /\ \E x \in S : input' = [input EXCEPT ![field] = Append(@, x)]

Next ==
  \/ Extend("match", "mask", MaxMask, MaskChar)
  \/ Extend("match", "key", MaxKey, KeyChar)
  \/ Extend("split", "argv", MaxArgs, Argument)
  \/ Extend("wait", "frames", MaxFrames, Frame)

Spec == Init /\ [][Next]_input

-----------------------------------------------------------------------------

\* match() accepts a key exactly when the key is in the language the README
\* describes: nested '*', anchors, special characters in places where they stand
\* for themselves, in masks and in keys.
MatchAgreesWithLanguage ==
  input.call = "match" => (Match(input.mask, input.key) <=> InLanguage(input.mask, input.key))

\* A command reaches the other nodes of the cluster with the arguments it was given
\* exactly when none of them contains a newline and the last is not empty.
BusCarriesTransportable ==
  input.call = "split" => (Split(Join(input.argv)) = input.argv <=> Transportable(input.argv))

\* amqpWaitFrame never takes a connection that the broker has closed for alive, nor
\* waits on it forever, whatever frames come first and whatever the frame on the
\* stack held: the publication that follows would be lost.
ClosedConnectionIsNoticed ==
  input.call = "wait" /\ CloseIsPending(input.frames, input.status)
    => WaitFrame(input.frames, input.status, input.last, input.stale) = "connection_closed"

\* On a connection that was not closed it comes back: with "ok" if nothing is wrong,
\* unless the frame left on the stack is a close frame, and with the error if there
\* is one, unless a frame read before or left on the stack keeps the loop going.
ReturnsUnlessFrameIsStale ==
  input.call = "wait" /\ ~CloseIsPending(input.frames, input.status)
    => LET frame == FrameAfter(input.frames, input.last, input.stale, Len(input.frames) + 1)
           res   == WaitFrame(input.frames, input.status, input.last, input.stale)
       IN  \/ res = (IF input.status = "timeout" THEN "ok" ELSE "error")
           \/ res = "connection_closed" /\ frame = input.stale /\ input.frames = <<>>
           \/ res = "spins" /\ frame = "method" /\ input.status = "error"
=============================================================================
