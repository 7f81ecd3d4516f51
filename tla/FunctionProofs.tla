---------------------------- MODULE FunctionProofs ----------------------------
(***************************************************************************)
(* What the functions of utils.c and the loop of amqpWaitFrame return, for *)
(* every input.                                                            *)
(*                                                                         *)
(* The definitions are recursive functions, f[x \in S] == e, which stands  *)
(* for some f with f = [x \in S |-> e] if there is one. Each section first *)
(* shows that there is one, then what every such f maps x to, by induction *)
(* over the set of numbers for which that holds.                           *)
(***************************************************************************)
EXTENDS MCFunctions, NaturalsInduction, WellFoundedInduction, SequenceTheorems, TLAPS

-----------------------------------------------------------------------------
(* Induction.                                                              *)

\* A non-empty set of natural numbers has a least one.
LEMMA LeastNumber ==
  ASSUME NEW T, T \subseteq Nat, T # {}
  PROVE  \E m \in T : \A k \in T : m <= k
<1>1. PICK m \in T : \A k \in T : <<k, m>> \notin OpToRel(<, Nat)
  BY WFMin, NatLessThanWellFounded, Zenon
<1>2. \A k \in T : ~ (k < m)
  BY <1>1, Zenon DEF OpToRel
<1>3. QED
  BY <1>2

\* A set with 0 and with the successor of each of its numbers has them all.
LEMMA InductionOverSet ==
  ASSUME NEW T, 0 \in T, \A n \in Nat : n \in T => n + 1 \in T
  PROVE  \A n \in Nat : n \in T
<1>1. SUFFICES ASSUME Nat \ T # {} PROVE FALSE
  BY Zenon
<1>2. PICK m \in Nat \ T : \A k \in Nat \ T : m <= k
  BY <1>1, LeastNumber
<1>3. m - 1 \in T
  BY <1>2
<1>4. QED
  BY <1>2, <1>3

-----------------------------------------------------------------------------
(* amqpWaitFrame.                                                          *)

\* Round i for the frames that wait.
LoopStep(loop, frames, status, last, stale, i) ==
  LET frame == FrameAfter(frames, last, stale, i)
      res   == IF i <= Len(frames) THEN "ok" ELSE status
  IN  CASE IsClose(frame) -> "connection_closed"
        [] ~IsClose(frame) /\ LoopEnds(res, frame) -> IF res = "timeout" THEN "ok" ELSE res
        [] OTHER -> IF i <= Len(frames) THEN loop[i + 1] ELSE "spins"

IsLoop(loop, frames, status, last, stale) ==
  loop = [i \in 1 .. Len(frames) + 1 |-> LoopStep(loop, frames, status, last, stale, i)]

\* What the loop returns from call i of the library on: the first close frame ends
\* it, other frames do not, and behind the last one the status decides.
Outcome(frames, status, last, stale, i) ==
  IF \E j \in i .. Len(frames) : frames[j] \in CloseMethod
    THEN "connection_closed"
    ELSE LoopStep(<<>>, frames, status, last, stale, Len(frames) + 1)

\* A frame that waits ends the loop exactly if it is a close frame.
LEMMA FrameRound ==
  ASSUME NEW frames \in Seq(Frame), NEW status, NEW last, NEW stale, NEW loop,
         NEW i \in 1 .. Len(frames)
  PROVE  LoopStep(loop, frames, status, last, stale, i)
           = IF frames[i] \in CloseMethod THEN "connection_closed" ELSE loop[i + 1]
<1>1. frames[i] \in {"connection_close", "channel_close", "method"}
  BY DEF Frame, CloseMethod
<1>2. FrameAfter(frames, last, stale, i) = frames[i] /\ i <= Len(frames)
  BY DEF FrameAfter
<1>3. QED
  BY <1>1, <1>2 DEF LoopStep, IsClose, LoopEnds, CloseMethod

\* The last round does not look at the function.
LEMMA LastRound ==
  ASSUME NEW frames \in Seq(Frame), NEW status, NEW last, NEW stale, NEW loop
  PROVE  LoopStep(loop, frames, status, last, stale, Len(frames) + 1)
           = Outcome(frames, status, last, stale, Len(frames) + 1)
<1>1. Len(frames) \in Nat /\ ~ (Len(frames) + 1 <= Len(frames))
  OBVIOUS
<1>2. Outcome(frames, status, last, stale, Len(frames) + 1)
        = LoopStep(<<>>, frames, status, last, stale, Len(frames) + 1)
  BY <1>1 DEF Outcome
<1>3. QED
  BY <1>1, <1>2 DEF LoopStep

\* One more frame in front.
LEMMA OutcomeStep ==
  ASSUME NEW frames \in Seq(Frame), NEW status, NEW last, NEW stale,
         NEW i \in 1 .. Len(frames)
  PROVE  Outcome(frames, status, last, stale, i)
           = IF frames[i] \in CloseMethod THEN "connection_closed"
             ELSE Outcome(frames, status, last, stale, i + 1)
<1>1. i .. Len(frames) = {i} \cup (i + 1 .. Len(frames))
  OBVIOUS
<1>2. QED
  BY <1>1, Zenon DEF Outcome

\* The loop exists.
LEMMA LoopExists ==
  ASSUME NEW frames \in Seq(Frame), NEW status, NEW last, NEW stale
  PROVE  \E loop : IsLoop(loop, frames, status, last, stale)
<1> DEFINE n == Len(frames)
           loop == [i \in 1 .. n + 1 |-> Outcome(frames, status, last, stale, i)]
<1>1. n \in Nat
  OBVIOUS
<1> HIDE DEF n
<1>2. ASSUME NEW i \in 1 .. n + 1
      PROVE  loop[i] = LoopStep(loop, frames, status, last, stale, i)
  <2>1. CASE i = n + 1
    BY <1>1, <2>1, LastRound DEF n
  <2>2. CASE i \in 1 .. n
    <3>1. loop[i] = Outcome(frames, status, last, stale, i)
          /\ loop[i + 1] = Outcome(frames, status, last, stale, i + 1)
      BY <1>1, <2>2
    <3> HIDE DEF loop
    <3>2. QED
      BY <2>2, <3>1, FrameRound, OutcomeStep DEF n
  <2>3. QED
    BY <1>1, <2>1, <2>2
<1>3. loop = [i \in 1 .. n + 1 |-> LoopStep(loop, frames, status, last, stale, i)]
  BY <1>2
<1>4. QED
  BY <1>3, Zenon DEF IsLoop, n

\* And it is the function above.
LEMMA LoopIsOutcome ==
  ASSUME NEW frames \in Seq(Frame), NEW status, NEW last, NEW stale, NEW loop,
         IsLoop(loop, frames, status, last, stale)
  PROVE  \A i \in 1 .. Len(frames) + 1 : loop[i] = Outcome(frames, status, last, stale, i)
<1> DEFINE n == Len(frames)
           T == {k \in Nat : k <= n =>
                   loop[n + 1 - k] = Outcome(frames, status, last, stale, n + 1 - k)}
<1>1. n \in Nat
  OBVIOUS
<1>2. \A i \in 1 .. n + 1 : loop[i] = LoopStep(loop, frames, status, last, stale, i)
  BY DEF IsLoop
<1>3. 0 \in T
  <2>1. loop[n + 1] = Outcome(frames, status, last, stale, n + 1)
    BY <1>1, <1>2, LastRound
  <2>2. QED
    BY <1>1, <2>1
<1>4. ASSUME NEW k \in Nat, k \in T, k + 1 <= n
      PROVE  loop[n + 1 - (k + 1)] = Outcome(frames, status, last, stale, n + 1 - (k + 1))
  <2> DEFINE i == n - k
  <2>1. i \in 1 .. n /\ n + 1 - (k + 1) = i /\ n + 1 - k = i + 1
    BY <1>1, <1>4
  <2>2. loop[i + 1] = Outcome(frames, status, last, stale, i + 1)
    BY <1>1, <1>4, <2>1
  <2>3. loop[i] = IF frames[i] \in CloseMethod THEN "connection_closed" ELSE loop[i + 1]
    BY <1>1, <1>2, <2>1, FrameRound
  <2> HIDE DEF i
  <2>4. QED
    BY <2>1, <2>2, <2>3, OutcomeStep
<1>5. \A k \in Nat : k \in T => k + 1 \in T
  BY <1>1, <1>4
<1> HIDE DEF T
<1>6. \A k \in Nat : k \in T
  BY <1>3, <1>5, InductionOverSet
<1>7. ASSUME NEW i \in 1 .. n + 1
      PROVE  loop[i] = Outcome(frames, status, last, stale, i)
  <2>1. n + 1 - i \in Nat /\ n + 1 - i <= n /\ n + 1 - (n + 1 - i) = i
    BY <1>1
  <2>2. n + 1 - i \in T
    BY <1>6, <2>1
  <2>3. QED
    BY <2>1, <2>2 DEF T
<1>8. QED
  BY <1>7

\* What amqpWaitFrame returns.
LEMMA WaitFrameResult ==
  ASSUME NEW frames \in Seq(Frame), NEW status, NEW last, NEW stale
  PROVE  WaitFrame(frames, status, last, stale) = Outcome(frames, status, last, stale, 1)
<1> DEFINE loop == CHOOSE loop : IsLoop(loop, frames, status, last, stale)
<1>1. WaitFrame(frames, status, last, stale) = loop[1]
  BY Zenon DEF WaitFrame, LoopStep, IsLoop
<1>2. IsLoop(loop, frames, status, last, stale)
  BY LoopExists, Zenon
<1> HIDE DEF loop
<1>3. 1 \in 1 .. Len(frames) + 1
  OBVIOUS
<1>4. QED
  BY <1>1, <1>2, <1>3, LoopIsOutcome

-----------------------------------------------------------------------------
(* The calls of MCFunctions.                                               *)

\* The arguments of a call are of their types, whatever was appended to them.
MatchCall == [call : {"match"}, mask : Seq(MaskChar), key : Seq(KeyChar)]
SplitCall == [call : {"split"}, argv : Seq(Argument) \ {<<>>}]
WaitCall == [call : {"wait"}, frames : Seq(Frame), status : EndStatus, last : LastRead,
             stale : FrameContent]

InputInv == input \in MatchCall \cup SplitCall \cup WaitCall

\* The empty inputs, with which a run begins, are such calls.
LEMMA InputInvInit == Init => InputInv
<1> SUFFICES ASSUME Init PROVE InputInv
  OBVIOUS
<1>1. CASE input = [call |-> "match", mask |-> <<>>, key |-> <<>>]
  <2>1. input \in MatchCall
    BY <1>1 DEF MatchCall
  <2>2. QED
    BY <2>1 DEF InputInv
<1>2. CASE input \in {[call |-> "split", argv |-> <<a>>] : a \in Argument}
  <2>1. PICK a \in Argument : input = [call |-> "split", argv |-> <<a>>]
    BY <1>2
  <2>2. input \in SplitCall
    BY <2>1 DEF SplitCall
  <2>3. QED
    BY <2>2 DEF InputInv
<1>3. CASE input \in [call : {"wait"}, frames : {<<>>}, status : EndStatus,
                      last : LastRead, stale : FrameContent]
  <2>1. input \in WaitCall
    <3>1. {<<>>} \subseteq Seq(Frame)
      OBVIOUS
    <3>2. QED
      BY <1>3, <3>1, Zenon DEF WaitCall
  <2>2. QED
    BY <2>1 DEF InputInv
<1>4. QED
  BY <1>1, <1>2, <1>3 DEF Init

\* An input that a step has made longer is one too.
LEMMA InputInvNext == InputInv /\ [Next]_input => InputInv'
<1> SUFFICES ASSUME InputInv, [Next]_input PROVE InputInv'
  OBVIOUS
<1>1. CASE Extend("match", "mask", MaxMask, MaskChar)
  BY <1>1 DEF Extend, InputInv, MatchCall, SplitCall, WaitCall
<1>2. CASE Extend("match", "key", MaxKey, KeyChar)
  BY <1>2 DEF Extend, InputInv, MatchCall, SplitCall, WaitCall
<1>3. CASE Extend("split", "argv", MaxArgs, Argument)
  BY <1>3 DEF Extend, InputInv, MatchCall, SplitCall, WaitCall
<1>4. CASE Extend("wait", "frames", MaxFrames, Frame)
  BY <1>4 DEF Extend, InputInv, MatchCall, SplitCall, WaitCall
<1>5. CASE UNCHANGED input
  BY <1>5 DEF InputInv
<1>6. QED
  BY <1>1, <1>2, <1>3, <1>4, <1>5 DEF Next

\* So every input of a run is one.
LEMMA InputAlways == Spec => []InputInv
BY InputInvInit, InputInvNext, PTL DEF Spec

\* What is known of the input of amqpWaitFrame.
LEMMA WaitCallType ==
  ASSUME InputInv, input.call = "wait"
  PROVE  /\ input.frames \in Seq(Frame)
         /\ input.status \in EndStatus
         /\ input.last \in LastRead
         /\ input.stale \in FrameContent
BY DEF InputInv, MatchCall, SplitCall, WaitCall

\* What the loop returns if the broker has closed the connection.
LEMMA CloseEndsLoop ==
  ASSUME NEW frames \in Seq(Frame), NEW status \in EndStatus, NEW last \in LastRead,
         NEW stale \in FrameContent, CloseIsPending(frames, status)
  PROVE  Outcome(frames, status, last, stale, 1) = "connection_closed"
<1>1. CASE Range(frames) \cap CloseMethod # {}
  <2>1. \E j \in 1 .. Len(frames) : frames[j] \in CloseMethod
    BY <1>1 DEF Range
  <2>2. QED
    BY <2>1, Zenon DEF Outcome
<1>2. CASE status = "connection_closed"
  <2>1. ~ (Len(frames) + 1 <= Len(frames))
    OBVIOUS
  <2>2. LoopStep(<<>>, frames, status, last, stale, Len(frames) + 1) = "connection_closed"
    BY <1>2, <2>1 DEF LoopStep, LoopEnds
  <2>3. QED
    BY <2>2 DEF Outcome
<1>3. QED
  BY <1>1, <1>2 DEF CloseIsPending

\* What it returns otherwise.
LEMMA OpenEndsLoop ==
  ASSUME NEW frames \in Seq(Frame), NEW status \in EndStatus, NEW last \in LastRead,
         NEW stale \in FrameContent, ~ CloseIsPending(frames, status),
         NEW frame, frame = FrameAfter(frames, last, stale, Len(frames) + 1),
         NEW res, res = Outcome(frames, status, last, stale, 1)
  PROVE  \/ res = (IF status = "timeout" THEN "ok" ELSE "error")
         \/ res = "connection_closed" /\ frame = stale /\ frames = <<>>
         \/ res = "spins" /\ frame = "method" /\ status = "error"
<1> DEFINE n == Len(frames)
<1>1. n \in Nat /\ ~ (n + 1 <= n)
  OBVIOUS
<1>2. ASSUME NEW j \in 1 .. n
      PROVE  frames[j] = "method"
  <2>1. frames[j] \in Frame /\ frames[j] \in Range(frames)
    BY DEF Range
  <2>2. frames[j] \notin CloseMethod
    BY <2>1, Zenon DEF CloseIsPending
  <2>3. QED
    BY <2>1, <2>2 DEF Frame
<1>3. status \in {"timeout", "error"}
  BY DEF CloseIsPending, EndStatus
<1>4. res = LoopStep(<<>>, frames, status, last, stale, n + 1)
  BY <1>2, Zenon DEF Outcome, CloseMethod
<1>5. res = CASE IsClose(frame) -> "connection_closed"
              [] ~IsClose(frame) /\ LoopEnds(status, frame)
                   -> IF status = "timeout" THEN "ok" ELSE status
              [] OTHER -> "spins"
  BY <1>1, <1>4 DEF LoopStep
<1>6. frame \in FrameContent /\ (IsClose(frame) => frame = stale /\ frames = <<>>)
  <2>1. CASE last # "untouched"
    BY <1>1, <2>1 DEF FrameAfter, FrameContent, LastRead, IsClose
  <2>2. CASE last = "untouched" /\ frames = <<>>
    BY <1>1, <2>2 DEF FrameAfter
  <2>3. CASE last = "untouched" /\ frames # <<>>
    <3>1. n \in 1 .. n
      BY <1>1, <2>3
    <3>2. frame = "method"
      BY <1>1, <1>2, <2>3, <3>1 DEF FrameAfter
    <3>3. QED
      BY <3>2 DEF FrameContent, Frame, IsClose
  <2>4. QED
    BY <2>1, <2>2, <2>3
<1>7. QED
  BY <1>3, <1>5, <1>6 DEF IsClose, LoopEnds, FrameContent, Frame, CloseMethod

\* amqpWaitFrame never takes a connection that the broker has closed for alive and
\* never waits on it forever, however many frames come before the close.
THEOREM ClosedConnectionAlwaysNoticed == Spec => []ClosedConnectionIsNoticed
<1>1. InputInv => ClosedConnectionIsNoticed
  <2> SUFFICES ASSUME InputInv, input.call = "wait",
                      CloseIsPending(input.frames, input.status)
               PROVE  WaitFrame(input.frames, input.status, input.last, input.stale)
                        = "connection_closed"
    BY Zenon DEF ClosedConnectionIsNoticed
  <2>1. QED
    BY WaitCallType, WaitFrameResult, CloseEndsLoop
<1>2. QED
  BY <1>1, InputAlways, PTL

\* On a connection that was not closed amqpWaitFrame returns "ok" or the error, except
\* for what an uninitialised or an old frame does to the condition of its loop.
THEOREM AlwaysReturnsUnlessStale == Spec => []ReturnsUnlessFrameIsStale
<1>1. InputInv => ReturnsUnlessFrameIsStale
  <2> SUFFICES ASSUME InputInv, input.call = "wait",
                      ~ CloseIsPending(input.frames, input.status)
               PROVE  ReturnsUnlessFrameIsStale
    BY Zenon DEF ReturnsUnlessFrameIsStale
  <2> DEFINE frame == FrameAfter(input.frames, input.last, input.stale, Len(input.frames) + 1)
             res   == WaitFrame(input.frames, input.status, input.last, input.stale)
  <2>1. \/ res = (IF input.status = "timeout" THEN "ok" ELSE "error")
        \/ res = "connection_closed" /\ frame = input.stale /\ input.frames = <<>>
        \/ res = "spins" /\ frame = "method" /\ input.status = "error"
    BY WaitCallType, WaitFrameResult, OpenEndsLoop
  <2>2. QED
    BY <2>1, Zenon DEF ReturnsUnlessFrameIsStale
<1>2. QED
  BY <1>1, InputAlways, PTL

-----------------------------------------------------------------------------
(* The arguments on the cluster bus.                                       *)

\* The function that FlattenSeq of the community modules defines.
IsFlattening(argv, f, n) ==
  f = [i \in 1 .. n |-> IF i = 1 THEN argv[i] ELSE f[i - 1] \o argv[i]]

\* There is such a function for every number of arguments.
LEMMA FlatteningExists ==
  ASSUME NEW argv
  PROVE  \A n \in Nat : \E f : IsFlattening(argv, f, n)
<1> DEFINE T == {n \in Nat : \E f : IsFlattening(argv, f, n)}
<1>1. 0 \in T
  <2> DEFINE f == [i \in 1 .. 0 |-> argv[i]]
  <2>1. f = [i \in 1 .. 0 |-> IF i = 1 THEN argv[i] ELSE f[i - 1] \o argv[i]]
    OBVIOUS
  <2>2. QED
    BY <2>1, Zenon DEF IsFlattening
<1>2. ASSUME NEW n \in Nat, n \in T
      PROVE  n + 1 \in T
  <2>1. PICK f : IsFlattening(argv, f, n)
    BY <1>2
  <2>2. \A i \in 1 .. n : f[i] = IF i = 1 THEN argv[i] ELSE f[i - 1] \o argv[i]
    BY <2>1 DEF IsFlattening
  <2> DEFINE g == [i \in 1 .. n + 1 |-> IF i = 1 THEN argv[i] ELSE f[i - 1] \o argv[i]]
  <2>3. ASSUME NEW i \in 1 .. n + 1
        PROVE  g[i] = IF i = 1 THEN argv[i] ELSE g[i - 1] \o argv[i]
    <3>1. CASE i = 1
      BY <3>1
    <3>2. CASE i # 1
      <4>1. i - 1 \in 1 .. n /\ i - 1 \in 1 .. n + 1
        BY <3>2
      <4>2. g[i - 1] = f[i - 1]
        BY <2>2, <4>1
      <4>3. QED
        BY <3>2, <4>2
    <3>3. QED
      BY <3>1, <3>2
  <2>4. g = [i \in 1 .. n + 1 |-> IF i = 1 THEN argv[i] ELSE g[i - 1] \o argv[i]]
    BY <2>3
  <2>5. IsFlattening(argv, g, n + 1)
    BY <2>4, Zenon DEF IsFlattening
  <2> HIDE DEF g
  <2>6. QED
    BY <2>5
<1>3. \A n \in Nat : n \in T
  <2>1. \A n \in Nat : n \in T => n + 1 \in T
    BY <1>2
  <2> HIDE DEF T
  <2>2. QED
    BY <1>1, <2>1, InductionOverSet
<1>4. QED
  BY <1>3

\* One line behind the others.
LEMMA ConcatLine ==
  ASSUME NEW S, NEW s \in Seq(S), NEW a \in Seq(S), NEW n \in Nat, Len(s) = n, Len(a) = 1
  PROVE  s \o a = [i \in 1 .. n + 1 |-> IF i <= n THEN s[i] ELSE a[1]]
<1> DEFINE t == s \o a
<1>1. /\ t \in Seq(S)
      /\ Len(t) = n + Len(a)
      /\ \A i \in 1 .. n + Len(a) : t[i] = IF i <= n THEN s[i] ELSE a[i - n]
  BY ConcatProperties, Zenon
<1> HIDE DEF t
<1>2. t = [i \in 1 .. n + 1 |-> t[i]]
  BY <1>1
<1>3. \A i \in 1 .. n + 1 : t[i] = IF i <= n THEN s[i] ELSE a[1]
  <2>1. \A i \in 1 .. n + 1 : ~ (i <= n) => i - n = 1
    OBVIOUS
  <2>2. QED
    BY <1>1, <2>1
<1>4. QED
  BY <1>2, <1>3, Zenon DEF t

\* The first lines of the first n arguments.
FirstLines(argv, n) == [i \in 1 .. n |-> argv[i][1]]

\* The same if the others are those lines.
LEMMA NextLine ==
  ASSUME NEW argv, NEW n \in Nat, NEW s \in Seq(STRING), NEW a \in Seq(STRING),
         s = FirstLines(argv, n), a = argv[n + 1], Len(a) = 1
  PROVE  s \o a = FirstLines(argv, n + 1)
<1>1. Len(s) = n
  BY DEF FirstLines
<1>2. s \o a = [i \in 1 .. n + 1 |-> IF i <= n THEN s[i] ELSE a[1]]
  BY <1>1, ConcatLine
<1>3. ASSUME NEW i \in 1 .. n + 1
      PROVE  (IF i <= n THEN s[i] ELSE a[1]) = argv[i][1]
  <2>1. CASE i <= n
    BY <2>1 DEF FirstLines
  <2>2. CASE i = n + 1
    BY <2>2
  <2>3. QED
    BY <2>1, <2>2
<1>4. QED
  BY <1>2, <1>3, Zenon DEF FirstLines

\* The rounds of FlattenSeq.
LEMMA FlatteningRounds ==
  ASSUME NEW argv, NEW last \in Nat, NEW f, IsFlattening(argv, f, last)
  PROVE  /\ last # 0 => f[1] = argv[1]
         /\ \A n \in Nat : n # 0 /\ n + 1 \in 1 .. last => f[n + 1] = f[n] \o argv[n + 1]
<1>1. \A i \in 1 .. last : i = 1 => f[i] = argv[i]
  BY Zenon DEF IsFlattening
<1>2. \A i \in 1 .. last : i # 1 => f[i] = f[i - 1] \o argv[i]
  BY Zenon DEF IsFlattening
<1>3. ASSUME NEW n \in Nat, n # 0, n + 1 \in 1 .. last
      PROVE  f[n + 1] = f[n] \o argv[n + 1]
  <2> DEFINE i == n + 1
  <2>1. i \in 1 .. last /\ i # 1 /\ i - 1 = n
    BY <1>3
  <2> HIDE DEF i
  <2>2. f[i] = f[i - 1] \o argv[i]
    BY <1>2, <2>1, Zenon
  <2>3. QED
    BY <2>1, <2>2, Zenon DEF i
<1>4. ASSUME last # 0
      PROVE  f[1] = argv[1]
  <2>1. 1 \in 1 .. last
    BY <1>4
  <2>2. QED
    BY <1>1, <2>1, Zenon
<1>5. QED
  BY <1>3, <1>4

\* What n arguments become are strings, and one line for each of them if each has one.
LEMMA FlatteningIs ==
  ASSUME NEW argv \in Seq(Seq(STRING)), NEW f, IsFlattening(argv, f, Len(argv))
  PROVE  \A n \in 1 .. Len(argv) :
           /\ f[n] \in Seq(STRING)
           /\ (\A i \in 1 .. Len(argv) : Len(argv[i]) = 1)
                => f[n] = FirstLines(argv, n)
<1> DEFINE last == Len(argv)
           Flat == \A i \in 1 .. last : Len(argv[i]) = 1
           Fits(n) == /\ f[n] \in Seq(STRING)
                      /\ Flat => f[n] = FirstLines(argv, n)
           T == {n \in Nat : n \in 1 .. last => Fits(n)}
<1>1. last \in Nat
  OBVIOUS
<1>2. \A i \in 1 .. last : argv[i] \in Seq(STRING)
  OBVIOUS
<1> HIDE DEF last
<1>3. /\ last # 0 => f[1] = argv[1]
      /\ \A n \in Nat : n # 0 /\ n + 1 \in 1 .. last => f[n + 1] = f[n] \o argv[n + 1]
  BY <1>1, FlatteningRounds, Zenon DEF last
<1>4. ASSUME 1 \in 1 .. last
      PROVE  Fits(1)
  <2>1. f[1] \in Seq(STRING) /\ f[1] = argv[1]
    BY <1>2, <1>3, <1>4
  <2>2. ASSUME Flat
        PROVE  f[1] = FirstLines(argv, 1)
    BY <1>4, <2>1, <2>2 DEF FirstLines
  <2>3. QED
    BY <2>1, <2>2
<1>5. ASSUME NEW n \in Nat, n # 0, Fits(n), n + 1 \in 1 .. last
      PROVE  Fits(n + 1)
  <2>1. f[n + 1] = f[n] \o argv[n + 1]
    BY <1>3, <1>5, Zenon
  <2>2. f[n] \in Seq(STRING) /\ argv[n + 1] \in Seq(STRING)
    BY <1>2, <1>5, Zenon
  <2>3. f[n + 1] \in Seq(STRING)
    BY <2>1, <2>2, ConcatProperties, Zenon
  <2>4. ASSUME Flat
        PROVE  f[n + 1] = FirstLines(argv, n + 1)
    <3>1. f[n] = FirstLines(argv, n) /\ Len(argv[n + 1]) = 1
      BY <1>5, <2>4, Zenon
    <3>2. QED
      BY <2>1, <2>2, <3>1, NextLine, Zenon
  <2>5. QED
    BY <2>3, <2>4, Zenon
<1> HIDE DEF Fits
<1>6. 0 \in T
  BY <1>1
<1>7. ASSUME NEW n \in Nat, n \in T
      PROVE  n + 1 \in T
  BY <1>1, <1>4, <1>5, <1>7
<1> HIDE DEF T
<1>8. \A n \in Nat : n \in T
  BY <1>6, <1>7, InductionOverSet
<1>9. QED
  BY <1>1, <1>8 DEF T, Fits, last

\* What is on the bus: strings, and one line for each argument if each has one.
LEMMA JoinIs ==
  ASSUME NEW argv \in Seq(Seq(STRING)), argv # <<>>
  PROVE  /\ Join(argv) \in Seq(STRING)
         /\ (\A i \in DOMAIN argv : Len(argv[i]) = 1) => Join(argv) = FirstLines(argv, Len(argv))
<1> DEFINE last == Len(argv)
           f == CHOOSE f : IsFlattening(argv, f, last)
<1>1. last \in Nat /\ last # 0 /\ DOMAIN argv = 1 .. last
  OBVIOUS
<1>2. Join(argv) = f[last]
  BY <1>1, Zenon DEF Join, FlattenSeq, IsFlattening
<1>3. IsFlattening(argv, f, last)
  BY <1>1, FlatteningExists, Zenon
<1> HIDE DEF f
<1>4. last \in 1 .. last
  BY <1>1
<1>5. QED
  BY <1>1, <1>2, <1>3, <1>4, FlatteningIs, Zenon

\* What the receiver makes of n lines.
LEMMA SplitIs ==
  ASSUME NEW n \in Nat \ {0}, NEW payload \in Seq(STRING), Len(payload) = n
  PROVE  /\ payload[n] # "" => Split(payload) = [i \in 1 .. n |-> <<payload[i]>>]
         /\ payload[n] = "" => Split(payload) = [i \in 1 .. n - 1 |-> <<payload[i]>>]
<1> DEFINE lines == [i \in DOMAIN payload |-> <<payload[i]>>]
<1>1. DOMAIN payload = 1 .. n
  OBVIOUS
<1>2. lines = [i \in 1 .. n |-> <<payload[i]>>] /\ Len(lines) = n
  BY <1>1
<1>3. /\ payload[n] = "" => Split(payload) = SubSeq(lines, 1, n - 1)
      /\ payload[n] # "" => Split(payload) = lines
  BY <1>2, Zenon DEF Split, Last, Front
<1>4. SubSeq(lines, 1, n - 1) = [i \in 1 .. n - 1 |-> <<payload[i]>>]
  <2>1. \A i \in 1 .. n - 1 : lines[i] = <<payload[i]>>
    BY <1>2
  <2> HIDE DEF lines
  <2>2. SubSeq(lines, 1, n - 1) = [i \in 1 .. n - 1 |-> lines[i]]
    OBVIOUS
  <2>3. QED
    BY <2>1, <2>2
<1> HIDE DEF lines
<1>5. QED
  BY <1>2, <1>3, <1>4, Zenon

\* Arguments of one line each are as many lines.
LEMMA LinesOfArguments ==
  ASSUME NEW n \in Nat \ {0}, NEW argv \in Seq(Seq(STRING)), Len(argv) = n,
         NEW payload \in Seq(STRING), payload = FirstLines(argv, n),
         \A i \in 1 .. n : Len(argv[i]) = 1
  PROVE  Len(payload) = n /\ argv = [i \in 1 .. n |-> <<payload[i]>>]
<1>1. Len(payload) = n /\ \A i \in 1 .. n : payload[i] = argv[i][1]
  BY DEF FirstLines
<1>2. ASSUME NEW i \in 1 .. n
      PROVE  argv[i] = <<payload[i]>>
  <2>1. argv[i] \in Seq(STRING) /\ Len(argv[i]) = 1
    OBVIOUS
  <2>2. argv[i] = <<argv[i][1]>>
    BY <2>1
  <2>3. QED
    BY <1>1, <2>2
<1>3. argv = [i \in 1 .. n |-> argv[i]]
  OBVIOUS
<1>4. QED
  BY <1>1, <1>2, <1>3

\* A command with arguments that the bus can carry arrives, and no other.
LEMMA SplitOfJoin ==
  ASSUME NEW argv \in Seq(Seq(STRING)), argv # <<>>
  PROVE  Split(Join(argv)) = argv <=> Transportable(argv)
<1> DEFINE n == Len(argv)
           payload == Join(argv)
           Flat == \A i \in 1 .. n : Len(argv[i]) = 1
<1>1. n \in Nat \ {0} /\ DOMAIN argv = 1 .. n /\ n \in 1 .. n
  OBVIOUS
<1>2. payload \in Seq(STRING)
  BY JoinIs
<1>3. Transportable(argv) <=> Flat /\ argv[n] # <<"">>
  BY <1>1, Zenon DEF Transportable, Last
<1>4. ASSUME Flat
      PROVE  Len(payload) = n /\ argv = [i \in 1 .. n |-> <<payload[i]>>]
  <2>1. payload = FirstLines(argv, n)
    BY <1>1, <1>4, JoinIs, Zenon
  <2> HIDE DEF payload
  <2>2. QED
    BY <1>1, <1>2, <1>4, <2>1, LinesOfArguments
<1> HIDE DEF payload, n
<1>5. ASSUME Flat, argv[n] # <<"">>
      PROVE  Split(payload) = argv
  <2>1. argv[n] = <<payload[n]>>
    BY <1>1, <1>4, <1>5
  <2>2. payload[n] # ""
    BY <1>5, <2>1, Zenon
  <2>3. QED
    BY <1>1, <1>2, <1>4, <1>5, <2>2, SplitIs, Zenon
<1>6. ASSUME Split(payload) = argv
      PROVE  Flat /\ argv[n] # <<"">>
  <2> DEFINE m == Len(payload)
  <2>1. m \in Nat
    BY <1>2
  <2>2. m # 0
    <3>1. ASSUME m = 0
          PROVE  Split(payload) = <<>>
      <4>1. payload = <<>>
        BY <1>2, <3>1
      <4>2. QED
        BY <4>1 DEF Split, Front
    <3>2. QED
      BY <1>6, <3>1
  <2> HIDE DEF m
  <2>3. \/ payload[m] # "" /\ argv = [i \in 1 .. m |-> <<payload[i]>>]
        \/ payload[m] = "" /\ argv = [i \in 1 .. m - 1 |-> <<payload[i]>>]
    BY <1>2, <1>6, <2>1, <2>2, SplitIs DEF m
  <2>4. Flat
    <3>1. \A i \in DOMAIN argv : argv[i] = <<payload[i]>>
      BY <2>3
    <3>2. \A i \in 1 .. n : Len(<<payload[i]>>) = 1
      OBVIOUS
    <3>3. QED
      BY <1>1, <3>1, <3>2, Zenon
  <2>5. m = n /\ argv = [i \in 1 .. n |-> <<payload[i]>>]
    BY <1>4, <2>4 DEF m
  <2>6. payload[n] # ""
    <3>1. DOMAIN argv # 1 .. n - 1
      BY <1>1
    <3>2. QED
      BY <2>3, <2>5, <3>1
  <2>7. argv[n] # <<"">>
    <3>1. argv[n] = <<payload[n]>>
      BY <1>1, <2>5
    <3>2. <<payload[n]>> # <<"">>
      BY <2>6, Zenon
    <3>3. QED
      BY <3>1, <3>2, Zenon
  <2>8. QED
    BY <2>4, <2>7, Zenon
<1>7. QED
  BY <1>3, <1>5, <1>6, Zenon DEF payload

\* A command reaches the other nodes with the arguments it was given exactly when none
\* of them contains a newline and the last is not empty, however many there are.
THEOREM BusAlwaysCarriesTransportable == Spec => []BusCarriesTransportable
<1>1. ASSUME InputInv, input.call = "split"
      PROVE  input.argv \in Seq(Seq(STRING)) /\ input.argv # <<>>
  <2>1. input.argv \in Seq(Argument) /\ input.argv # <<>>
    BY <1>1 DEF InputInv, MatchCall, SplitCall, WaitCall
  <2>2. Argument \subseteq Seq(STRING)
    BY ArgumentAssumption
  <2>3. QED
    BY <2>1, <2>2, SeqMonotonic
<1>2. InputInv => BusCarriesTransportable
  BY <1>1, SplitOfJoin, Zenon DEF BusCarriesTransportable
<1>3. QED
  BY <1>2, InputAlways, PTL

-----------------------------------------------------------------------------
(* Recursion and induction from the end.                                   *)

\* Induction downwards from n + 1.
LEMMA BackwardInduction ==
  ASSUME NEW n \in Nat, NEW T, n + 1 \in T,
         \A p \in 1 .. n : (\A k \in p + 1 .. n + 1 : k \in T) => p \in T
  PROVE  \A p \in 1 .. n + 1 : p \in T
<1> DEFINE D == {k \in Nat : \A p \in 1 .. n + 1 : n + 1 - p <= k => p \in T}
<1>1. 0 \in D
  OBVIOUS
<1>2. ASSUME NEW k \in Nat, k \in D
      PROVE  k + 1 \in D
  <2>1. ASSUME NEW p \in 1 .. n + 1, n + 1 - p = k + 1
        PROVE  p \in T
    <3>1. p \in 1 .. n /\ \A j \in p + 1 .. n + 1 : j \in 1 .. n + 1 /\ n + 1 - j <= k
      BY <2>1
    <3>2. \A j \in p + 1 .. n + 1 : j \in T
      BY <1>2, <3>1
    <3>3. QED
      BY <3>1, <3>2
  <2>2. \A p \in 1 .. n + 1 : n + 1 - p <= k + 1 => n + 1 - p <= k \/ n + 1 - p = k + 1
    OBVIOUS
  <2>3. QED
    BY <1>2, <2>1, <2>2
<1> HIDE DEF D
<1>3. \A k \in Nat : k \in D
  BY <1>1, <1>2, InductionOverSet
<1>4. n + 1 \in D
  BY <1>3
<1>5. QED
  BY <1>4 DEF D

\* A function whose values depend on the two that follow.
IsBackwards(f, n, S, x, step) ==
  /\ f \in [1 .. n + 2 -> S]
  /\ f[n + 1] = x
  /\ \A p \in 1 .. n : f[p] = step[p][f[p + 1]][f[p + 2]]

\* There is one for every step function.
LEMMA BackwardRecursion ==
  ASSUME NEW n \in Nat, NEW S, NEW x \in S, NEW step \in [1 .. n -> [S -> [S -> S]]]
  PROVE  \E f : IsBackwards(f, n, S, x, step)
<1> DEFINE Has(m) == \E f \in [m .. n + 2 -> S] :
                       /\ f[n + 1] = x
                       /\ \A p \in m .. n : f[p] = step[p][f[p + 1]][f[p + 2]]
           T == {m \in 1 .. n + 1 : Has(m)}
<1>1. Has(n + 1)
  <2> DEFINE f == [p \in n + 1 .. n + 2 |-> x]
  <2>1. f \in [n + 1 .. n + 2 -> S] /\ f[n + 1] = x
    OBVIOUS
  <2>2. \A p \in n + 1 .. n : FALSE
    OBVIOUS
  <2> HIDE DEF f
  <2>3. QED
    BY <2>1, <2>2
<1>2. ASSUME NEW m \in 1 .. n, Has(m + 1)
      PROVE  Has(m)
  <2>1. PICK f \in [m + 1 .. n + 2 -> S] :
               /\ f[n + 1] = x
               /\ \A p \in m + 1 .. n : f[p] = step[p][f[p + 1]][f[p + 2]]
    BY <1>2
  <2> DEFINE v == step[m][f[m + 1]][f[m + 2]]
             g == [p \in m .. n + 2 |-> IF p = m THEN v ELSE f[p]]
  <2>2. v \in S
    <3>1. f[m + 1] \in S /\ f[m + 2] \in S
      OBVIOUS
    <3>2. QED
      BY <3>1
  <2>3. g[m] = v /\ \A p \in m + 1 .. n + 2 : g[p] = f[p]
    OBVIOUS
  <2>4. g \in [m .. n + 2 -> S]
    BY <2>2
  <2> HIDE DEF g
  <2>5. g[n + 1] = x
    BY <2>1, <2>3
  <2>6. ASSUME NEW p \in m .. n
        PROVE  g[p] = step[p][g[p + 1]][g[p + 2]]
    <3>1. g[p + 1] = f[p + 1] /\ g[p + 2] = f[p + 2]
      BY <2>3
    <3>2. CASE p = m
      BY <2>3, <3>1, <3>2
    <3>3. CASE p \in m + 1 .. n
      BY <2>1, <2>3, <3>1, <3>3
    <3>4. QED
      BY <3>2, <3>3
  <2>7. QED
    BY <2>4, <2>5, <2>6
<1> HIDE DEF Has
<1>3. n + 1 \in T
  BY <1>1
<1>4. ASSUME NEW p \in 1 .. n, \A k \in p + 1 .. n + 1 : k \in T
      PROVE  p \in T
  BY <1>2, <1>4
<1> HIDE DEF T
<1>5. \A p \in 1 .. n + 1 : p \in T
  BY <1>3, <1>4, BackwardInduction
<1>6. Has(1)
  BY <1>5 DEF T
<1>7. QED
  BY <1>6, Zenon DEF Has, IsBackwards

-----------------------------------------------------------------------------
(* The items of a mask.                                                    *)

\* Where the item behind the one at p begins.
Following(regexp, p) == IF Starred(regexp, p) THEN p + 2 ELSE p + 1

\* The function in Items.
IsSuffixes(regexp, from) ==
  from = [p \in 1 .. Len(regexp) + 1 |->
            IF p > Len(regexp) THEN <<>>
            ELSE <<Item(regexp, p)>> \o from[IF Starred(regexp, p) THEN p + 2 ELSE p + 1]]

\* What a mask is made of.
ItemsOf(regexp) == {Item(regexp, p) : p \in 1 .. Len(regexp)}

\* The next item begins behind this one, at the latest behind the mask.
LEMMA FollowingType ==
  ASSUME NEW regexp, Len(regexp) \in Nat, NEW p \in 1 .. Len(regexp)
  PROVE  Following(regexp, p) \in p + 1 .. Len(regexp) + 1
BY DEF Following, Starred

\* There is such a function for every mask.
LEMMA SuffixesExist ==
  ASSUME NEW regexp, Len(regexp) \in Nat
  PROVE  \E from : IsSuffixes(regexp, from)
<1> DEFINE n == Len(regexp)
           S == Seq(ItemsOf(regexp))
           step == [p \in 1 .. n |-> [a \in S |-> [b \in S |->
                      <<Item(regexp, p)>> \o (IF Starred(regexp, p) THEN b ELSE a)]]]
<1>1. <<>> \in S
  OBVIOUS
<1>2. ASSUME NEW p \in 1 .. n, NEW a \in S, NEW b \in S
      PROVE  <<Item(regexp, p)>> \o (IF Starred(regexp, p) THEN b ELSE a) \in S
  <2>1. Item(regexp, p) \in ItemsOf(regexp)
    BY DEF ItemsOf
  <2>2. <<Item(regexp, p)>> \in S
    BY <2>1
  <2>3. (IF Starred(regexp, p) THEN b ELSE a) \in S
    OBVIOUS
  <2>4. QED
    BY <2>2, <2>3, ConcatProperties, Zenon
<1> HIDE DEF n, S
<1>3. step \in [1 .. n -> [S -> [S -> S]]]
  BY <1>2
<1>4. PICK f \in [1 .. n + 2 -> S] :
        f[n + 1] = <<>> /\ \A p \in 1 .. n : f[p] = step[p][f[p + 1]][f[p + 2]]
  <2> HIDE DEF step
  <2>1. n \in Nat
    BY DEF n
  <2>2. \E f : IsBackwards(f, n, S, <<>>, step)
    BY <1>1, <1>3, <2>1, BackwardRecursion
  <2>3. QED
    BY <2>2, Zenon DEF IsBackwards
<1> DEFINE from == [p \in 1 .. n + 1 |-> f[p]]
<1>5. n \in Nat
  BY DEF n
<1>6. ASSUME NEW p \in 1 .. n
      PROVE  from[p] = <<Item(regexp, p)>> \o from[Following(regexp, p)]
  <2>1. p + 1 \in 1 .. n + 1 /\ f[p + 1] \in S /\ f[p + 2] \in S
    BY <1>5
  <2>2. step[p][f[p + 1]][f[p + 2]]
          = <<Item(regexp, p)>> \o (IF Starred(regexp, p) THEN f[p + 2] ELSE f[p + 1])
    BY <2>1, Zenon
  <2>3. from[p] = step[p][f[p + 1]][f[p + 2]]
    <3> HIDE DEF step
    <3>1. from[p] = f[p]
      BY <1>5
    <3>2. QED
      BY <1>4, <3>1, Zenon
  <2>4. from[Following(regexp, p)] = IF Starred(regexp, p) THEN f[p + 2] ELSE f[p + 1]
    BY <1>5, FollowingType DEF Following, n
  <2> HIDE DEF from, step
  <2>5. QED
    BY <2>2, <2>3, <2>4, Zenon
<1>7. from[n + 1] = <<>>
  <2>1. from[n + 1] = f[n + 1]
    BY <1>5
  <2>2. QED
    BY <1>4, <2>1, Zenon
<1>8. from = [p \in 1 .. n + 1 |-> from[p]]
  OBVIOUS
<1> HIDE DEF from, step
<1>9. ASSUME NEW p \in 1 .. n + 1
      PROVE  from[p] = IF p > n THEN <<>>
                       ELSE <<Item(regexp, p)>> \o from[IF Starred(regexp, p) THEN p + 2 ELSE p + 1]
  <2>1. CASE p = n + 1
    <3>1. p > n
      BY <1>5, <2>1
    <3>2. QED
      BY <1>7, <2>1, <3>1, Zenon
  <2>2. CASE p \in 1 .. n
    <3>1. ~ (p > n)
      BY <1>5, <2>2
    <3>2. QED
      BY <1>6, <2>2, <3>1, Zenon DEF Following
  <2>3. QED
    BY <1>5, <2>1, <2>2
<1>10. IsSuffixes(regexp, from)
  BY <1>8, <1>9, Zenon DEF IsSuffixes, n
<1>11. QED
  BY <1>10, Zenon

\* Each value is a sequence of items, which begins with the item at its position.
LEMMA SuffixesAre ==
  ASSUME NEW regexp, Len(regexp) \in Nat, NEW from, IsSuffixes(regexp, from)
  PROVE  /\ \A p \in 1 .. Len(regexp) + 1 : from[p] \in Seq(ItemsOf(regexp))
         /\ from[Len(regexp) + 1] = <<>>
         /\ \A p \in 1 .. Len(regexp) :
              from[p] = <<Item(regexp, p)>> \o from[Following(regexp, p)]
<1> DEFINE n == Len(regexp)
           S == Seq(ItemsOf(regexp))
           T == {p \in 1 .. n + 1 : from[p] \in S}
<1>1. n \in Nat
  OBVIOUS
<1>2. from[n + 1] = <<>>
  <2>1. n + 1 \in 1 .. n + 1 /\ n + 1 > n
    BY <1>1
  <2>2. QED
    BY <2>1, Zenon DEF IsSuffixes
<1>3. ASSUME NEW p \in 1 .. n
      PROVE  from[p] = <<Item(regexp, p)>> \o from[Following(regexp, p)]
  <2>1. p \in 1 .. n + 1 /\ ~ (p > n)
    BY <1>1
  <2>2. QED
    BY <2>1, Zenon DEF IsSuffixes, Following
<1>4. ASSUME NEW p \in 1 .. n, \A k \in p + 1 .. n + 1 : k \in T
      PROVE  p \in T
  <2>1. from[Following(regexp, p)] \in S
    BY <1>1, <1>4, FollowingType
  <2>2. Item(regexp, p) \in ItemsOf(regexp)
    BY DEF ItemsOf
  <2>3. <<Item(regexp, p)>> \in S
    BY <2>2
  <2>4. from[p] \in S
    BY <1>3, <2>1, <2>3, ConcatProperties, Zenon
  <2>5. QED
    BY <1>1, <2>4
<1>5. n + 1 \in T
  <2>1. <<>> \in S
    OBVIOUS
  <2>2. from[n + 1] \in S
    BY <1>2, <2>1, Zenon
  <2> HIDE DEF S
  <2>3. QED
    BY <1>1, <2>2
<1> HIDE DEF T
<1>6. \A p \in 1 .. n + 1 : p \in T
  BY <1>1, <1>4, <1>5, BackwardInduction
<1>7. QED
  BY <1>2, <1>3, <1>6 DEF T

-----------------------------------------------------------------------------
(* matchhere.                                                              *)

\* The body of matchhere for the regexp at p and the text at q.
HereBody(regexp, text, here, p, q) ==
  \/ p > Len(regexp)
  \/ /\ Starred(regexp, p)
     /\ here[p + 2][q] \/ (Accepts(regexp, p, text, q) /\ here[p][q + 1])
  \/ /\ p <= Len(regexp) /\ ~Starred(regexp, p)
     /\ IF EndAnchor(regexp, p)
          THEN q > Len(text)
          ELSE Accepts(regexp, p, text, q) /\ here[p + 1][q + 1]

IsHere(regexp, text, here) ==
  here = [p \in 1 .. Len(regexp) + 1 |->
            [q \in 1 .. Len(text) + 1 |-> HereBody(regexp, text, here, p, q)]]

\* After some characters that a starred item accepts the rest of the mask matches.
Run(regexp, p, text, row, q) ==
  \E r \in q .. Len(text) + 1 :
    row[r] /\ \A i \in q .. r - 1 : Accepts(regexp, p, text, i)

\* A round of the do loop over the characters that a starred item accepts.
LEMMA RunRound ==
  ASSUME NEW regexp, NEW text, Len(text) \in Nat, NEW p, NEW row,
         NEW q \in 1 .. Len(text) + 1
  PROVE  Run(regexp, p, text, row, q)
           <=> row[q] \/ (Accepts(regexp, p, text, q) /\ Run(regexp, p, text, row, q + 1))
<1> DEFINE n == Len(text)
           A(i) == Accepts(regexp, p, text, i)
<1>1. ASSUME Run(regexp, p, text, row, q), ~ row[q]
      PROVE  A(q) /\ Run(regexp, p, text, row, q + 1)
  <2>1. PICK r \in q .. n + 1 : row[r] /\ \A i \in q .. r - 1 : A(i)
    BY <1>1, Zenon DEF Run
  <2>2. r # q
    BY <1>1, <2>1, Zenon
  <2>3. r \in q + 1 .. n + 1 /\ q \in q .. r - 1 /\ q + 1 .. r - 1 \subseteq q .. r - 1
    BY <2>2
  <2>4. QED
    BY <2>1, <2>3, Zenon DEF Run
<1>2. ASSUME row[q]
      PROVE  Run(regexp, p, text, row, q)
  <2>1. q \in q .. n + 1 /\ q .. q - 1 = {}
    OBVIOUS
  <2>2. QED
    BY <1>2, <2>1, Zenon DEF Run
<1>3. ASSUME A(q), Run(regexp, p, text, row, q + 1)
      PROVE  Run(regexp, p, text, row, q)
  <2>1. PICK r \in q + 1 .. n + 1 : row[r] /\ \A i \in q + 1 .. r - 1 : A(i)
    BY <1>3, Zenon DEF Run
  <2>2. r \in q .. n + 1 /\ \A i \in q .. r - 1 : i = q \/ i \in q + 1 .. r - 1
    OBVIOUS
  <2>3. QED
    BY <1>3, <2>1, <2>2, Zenon DEF Run
<1>4. QED
  BY <1>1, <1>2, <1>3, Zenon

\* What a function with the body of matchhere maps a position in the mask to, from
\* what it maps the two behind it to.
RowBody(regexp, text, p, one, two, q) ==
  \/ Starred(regexp, p) /\ Run(regexp, p, text, two, q)
  \/ ~ Starred(regexp, p) /\ EndAnchor(regexp, p) /\ q > Len(text)
  \/ ~ Starred(regexp, p) /\ ~ EndAnchor(regexp, p)
       /\ Accepts(regexp, p, text, q) /\ one[q + 1]

Row(regexp, text, p, one, two) ==
  [q \in 1 .. Len(text) + 1 |-> RowBody(regexp, text, p, one, two, q)]

\* There is such a function for every mask and text: the row of a position is made from
\* the rows of the two positions that follow.
LEMMA HereExists ==
  ASSUME NEW regexp, Len(regexp) \in Nat, NEW text, Len(text) \in Nat
  PROVE  \E here : IsHere(regexp, text, here)
<1> DEFINE n == Len(regexp)
           m == Len(text)
           S == [1 .. m + 1 -> BOOLEAN]
           last == [q \in 1 .. m + 1 |-> TRUE]
           step == [p \in 1 .. n |-> [a \in S |-> [b \in S |-> Row(regexp, text, p, a, b)]]]
<1>1. last \in S
  OBVIOUS
<1>2. ASSUME NEW p \in 1 .. n, NEW a \in S, NEW b \in S
      PROVE  Row(regexp, text, p, a, b) \in S
  <2>1. \A q \in 1 .. m + 1 : RowBody(regexp, text, p, a, b, q) \in BOOLEAN
    BY DEF RowBody
  <2>2. QED
    BY <2>1 DEF Row
<1>3. n \in Nat /\ m \in Nat
  OBVIOUS
<1> HIDE DEF n, m, last
<1>4. step \in [1 .. n -> [S -> [S -> S]]]
  BY <1>2
<1>5. PICK f \in [1 .. n + 2 -> S] :
        f[n + 1] = last /\ \A p \in 1 .. n : f[p] = step[p][f[p + 1]][f[p + 2]]
  <2> HIDE DEF step, S
  <2>1. \E f : IsBackwards(f, n, S, last, step)
    BY <1>1, <1>3, <1>4, BackwardRecursion
  <2>2. QED
    BY <2>1, Zenon DEF IsBackwards
<1> DEFINE here == [p \in 1 .. n + 1 |-> f[p]]
<1>6. ASSUME NEW p \in 1 .. n
      PROVE  here[p] = Row(regexp, text, p, f[p + 1], f[p + 2])
  <2>1. f[p + 1] \in S /\ f[p + 2] \in S
    BY <1>3
  <2>2. step[p][f[p + 1]][f[p + 2]] = Row(regexp, text, p, f[p + 1], f[p + 2])
    BY <2>1, Zenon
  <2> HIDE DEF step, S
  <2>3. here[p] = f[p]
    BY <1>3
  <2>4. QED
    BY <1>5, <2>2, <2>3, Zenon
<1>7. here[n + 1] = last
  <2>1. here[n + 1] = f[n + 1]
    BY <1>3
  <2>2. QED
    BY <1>5, <2>1, Zenon
<1>8. here = [p \in 1 .. n + 1 |-> here[p]]
  OBVIOUS
<1>9. \A p \in 1 .. n + 1 : here[p] = f[p]
  OBVIOUS
<1> HIDE DEF here, step, S
<1>10. ASSUME NEW p \in 1 .. n + 1
       PROVE  here[p] = [q \in 1 .. m + 1 |-> HereBody(regexp, text, here, p, q)]
  <2>1. CASE p = n + 1
    <3>1. p > n
      BY <1>3, <2>1
    <3>2. \A q \in 1 .. m + 1 : HereBody(regexp, text, here, p, q) = TRUE
      BY <3>1, Zenon DEF HereBody, n
    <3>3. here[p] = [q \in 1 .. m + 1 |-> TRUE]
      BY <1>7, <2>1, Zenon DEF last
    <3>4. QED
      BY <3>2, <3>3, Zenon
  <2>2. CASE p \in 1 .. n
    <3>1. here[p] = [q \in 1 .. m + 1 |-> RowBody(regexp, text, p, f[p + 1], f[p + 2], q)]
      BY <1>6, <2>2, Zenon DEF Row, m
    <3>2. ASSUME NEW q \in 1 .. m + 1
          PROVE  RowBody(regexp, text, p, f[p + 1], f[p + 2], q)
                   <=> HereBody(regexp, text, here, p, q)
      <4> DEFINE A == Accepts(regexp, p, text, q)
      <4>1. ~ (p > n) /\ p <= n /\ p + 1 \in 1 .. n + 1
        BY <1>3, <2>2
      <4>2. A => q + 1 \in 1 .. m + 1
        BY <1>3 DEF Accepts, m
      <4>3. CASE Starred(regexp, p)
        <5>1. p + 2 \in 1 .. n + 1
          BY <1>3, <2>2, <4>3 DEF Starred, n
        <5>2. here[p + 2] = f[p + 2]
          BY <1>9, <5>1, Zenon
        <5>3. HereBody(regexp, text, here, p, q)
                <=> f[p + 2][q] \/ (A /\ here[p][q + 1])
          BY <4>1, <4>3, <5>2, Zenon DEF HereBody, n
        <5>4. A => (here[p][q + 1] <=> Run(regexp, p, text, f[p + 2], q + 1))
          BY <3>1, <4>2, <4>3, Zenon DEF RowBody
        <5>5. Run(regexp, p, text, f[p + 2], q)
                <=> f[p + 2][q] \/ (A /\ Run(regexp, p, text, f[p + 2], q + 1))
          BY <1>3, RunRound DEF m
        <5>6. RowBody(regexp, text, p, f[p + 1], f[p + 2], q)
                <=> Run(regexp, p, text, f[p + 2], q)
          BY <4>3, Zenon DEF RowBody
        <5>7. QED
          BY <5>3, <5>4, <5>5, <5>6, Zenon
      <4>4. CASE ~ Starred(regexp, p)
        <5>1. here[p + 1] = f[p + 1]
          BY <1>9, <4>1, Zenon
        <5>2. QED
          BY <4>1, <4>4, <5>1, Zenon DEF RowBody, HereBody, n
      <4>5. QED
        BY <4>3, <4>4, Zenon
    <3>3. \A q \in 1 .. m + 1 : RowBody(regexp, text, p, f[p + 1], f[p + 2], q)
                                  = HereBody(regexp, text, here, p, q)
      BY <3>2, Zenon DEF RowBody, HereBody
    <3>4. QED
      BY <3>1, <3>3, Zenon
  <2>3. QED
    BY <1>3, <2>1, <2>2
<1>11. here = [p \in 1 .. n + 1 |-> [q \in 1 .. m + 1 |-> HereBody(regexp, text, here, p, q)]]
  BY <1>8, <1>10, Zenon
<1>12. IsHere(regexp, text, here)
  BY <1>11, Zenon DEF IsHere, n, m
<1>13. QED
  BY <1>12, Zenon

\* Every value of the function is that of the body.
LEMMA HereValue ==
  ASSUME NEW regexp, NEW text, NEW here, IsHere(regexp, text, here),
         NEW p \in 1 .. Len(regexp) + 1, NEW q \in 1 .. Len(text) + 1
  PROVE  here[p][q] <=> HereBody(regexp, text, here, p, q)
<1>1. here[p] = [k \in 1 .. Len(text) + 1 |-> HereBody(regexp, text, here, p, k)]
  BY Zenon DEF IsHere
<1>2. QED
  BY <1>1, Zenon

\* The cases of matchhere. Behind the mask everything matches.
LEMMA HereAtEnd ==
  ASSUME NEW regexp, Len(regexp) \in Nat, NEW text, NEW here, IsHere(regexp, text, here),
         NEW q \in 1 .. Len(text) + 1
  PROVE  here[Len(regexp) + 1][q]
<1>1. Len(regexp) + 1 \in 1 .. Len(regexp) + 1 /\ Len(regexp) + 1 > Len(regexp)
  OBVIOUS
<1>2. HereBody(regexp, text, here, Len(regexp) + 1, q)
  BY <1>1, Zenon DEF HereBody
<1>3. QED
  BY <1>1, <1>2, HereValue, Zenon

\* At an item that is not repeated.
LEMMA HereAtSingle ==
  ASSUME NEW regexp, Len(regexp) \in Nat, NEW text, NEW here, IsHere(regexp, text, here),
         NEW p \in 1 .. Len(regexp), ~ Starred(regexp, p), NEW q \in 1 .. Len(text) + 1
  PROVE  here[p][q] <=> IF EndAnchor(regexp, p) THEN q > Len(text)
                        ELSE Accepts(regexp, p, text, q) /\ here[p + 1][q + 1]
<1>1. p \in 1 .. Len(regexp) + 1 /\ ~ (p > Len(regexp)) /\ p <= Len(regexp)
  OBVIOUS
<1>2. here[p][q] <=> HereBody(regexp, text, here, p, q)
  BY <1>1, HereValue, Zenon
<1>3. QED
  BY <1>1, <1>2, Zenon DEF HereBody

\* At an item that is repeated.
LEMMA HereAtRepeated ==
  ASSUME NEW regexp, Len(regexp) \in Nat, NEW text, Len(text) \in Nat,
         NEW here, IsHere(regexp, text, here),
         NEW p \in 1 .. Len(regexp), Starred(regexp, p)
  PROVE  \A q \in 1 .. Len(text) + 1 :
           here[p][q] <=> Run(regexp, p, text, here[p + 2], q)
<1> DEFINE m == Len(text)
           A(q) == Accepts(regexp, p, text, q)
           R(q) == Run(regexp, p, text, here[p + 2], q)
           T == {q \in 1 .. m + 1 : here[p][q] <=> R(q)}
<1>1. p \in 1 .. Len(regexp) + 1 /\ ~ (p > Len(regexp))
  OBVIOUS
<1>2. ASSUME NEW q \in 1 .. m + 1
      PROVE  here[p][q] <=> here[p + 2][q] \/ (A(q) /\ here[p][q + 1])
  <2>1. here[p][q] <=> HereBody(regexp, text, here, p, q)
    BY <1>1, HereValue, Zenon
  <2>2. QED
    BY <1>1, <2>1, Zenon DEF HereBody
<1>3. ASSUME NEW q \in 1 .. m + 1
      PROVE  R(q) <=> here[p + 2][q] \/ (A(q) /\ R(q + 1))
  BY RunRound
<1>4. ~ A(m + 1)
  BY DEF Accepts
<1> HIDE DEF R, A
<1>5. m + 1 \in T
  <2>1. m + 1 \in 1 .. m + 1
    OBVIOUS
  <2>2. here[p][m + 1] <=> R(m + 1)
    BY <1>2, <1>3, <1>4, <2>1, Zenon
  <2>3. QED
    BY <2>1, <2>2
<1>6. ASSUME NEW q \in 1 .. m, \A k \in q + 1 .. m + 1 : k \in T
      PROVE  q \in T
  <2>1. q \in 1 .. m + 1 /\ q + 1 \in q + 1 .. m + 1
    OBVIOUS
  <2>2. here[p][q + 1] <=> R(q + 1)
    BY <1>6, <2>1
  <2>3. here[p][q] <=> R(q)
    BY <1>2, <1>3, <2>1, <2>2, Zenon
  <2>4. QED
    BY <2>1, <2>3
<1> HIDE DEF T
<1>7. \A q \in 1 .. m + 1 : q \in T
  BY <1>5, <1>6, BackwardInduction
<1>8. QED
  BY <1>7, Zenon DEF T, R

\* From some of the positions in `from' the mask matches, exactly if the rest of it
\* matches from some position where its first item can end.
LEMMA FirstItem ==
  ASSUME NEW regexp, Len(regexp) \in Nat, NEW text, Len(text) \in Nat,
         NEW here, IsHere(regexp, text, here),
         NEW p \in 1 .. Len(regexp), Starred(regexp, p) \/ ~ EndAnchor(regexp, p),
         NEW from, from \subseteq 0 .. Len(text)
  PROVE  (\E r \in from : here[p][r + 1])
           <=> \E r \in ItemEnds(Item(regexp, p), text, from) : here[Following(regexp, p)][r + 1]
<1> DEFINE m == Len(text)
           A(i) == Accepts(regexp, p, text, i)
           item == Item(regexp, p)
           next == here[Following(regexp, p)]
           Fits(i) == item.char \in {".", text[i]}
           Ends1(r, s) == /\ r <= s
                          /\ item.repeated \/ s = r + 1
                          /\ \A i \in r + 1 .. s : Fits(i)
<1>1. \A i : i <= m => (A(i) <=> Fits(i))
  BY Zenon DEF Accepts, Item
<1>2. \A i : A(i) => i <= m
  BY Zenon DEF Accepts
<1>3. item.repeated <=> Starred(regexp, p)
  BY Zenon DEF Item
<1>4. \A s : s \in ItemEnds(item, text, from) <=> s \in 0 .. m /\ \E r \in from : Ends1(r, s)
  BY Zenon DEF ItemEnds
<1> HIDE DEF A, Fits, item
<1>5. CASE Starred(regexp, p)
  <2>1. next = here[p + 2]
    BY <1>5, Zenon DEF Following
  <2>2. ASSUME NEW r \in from
        PROVE  here[p][r + 1] <=> \E s \in 0 .. m : Ends1(r, s) /\ next[s + 1]
    <3>1. r \in 0 .. m /\ r + 1 \in 1 .. m + 1
      OBVIOUS
    <3>2. here[p][r + 1] <=> \E k \in r + 1 .. m + 1 : next[k] /\ \A i \in r + 1 .. k - 1 : A(i)
      <4>1. here[p][r + 1] <=> Run(regexp, p, text, here[p + 2], r + 1)
        BY <1>5, <3>1, HereAtRepeated, Zenon
      <4>2. QED
        BY <2>1, <4>1, Zenon DEF Run, A
    <3>3. ASSUME NEW k \in r + 1 .. m + 1, next[k], \A i \in r + 1 .. k - 1 : A(i)
          PROVE  \E s \in 0 .. m : Ends1(r, s) /\ next[s + 1]
      <4>1. k - 1 \in 0 .. m /\ r <= k - 1 /\ k - 1 + 1 = k
        BY <3>1
      <4>2. \A i \in r + 1 .. k - 1 : i <= m
        BY <3>1
      <4>3. \A i \in r + 1 .. k - 1 : Fits(i)
        BY <1>1, <3>3, <4>2, Zenon
      <4>4. QED
        BY <1>3, <1>5, <3>3, <4>1, <4>3, Zenon
    <3>4. ASSUME NEW s \in 0 .. m, Ends1(r, s), next[s + 1]
          PROVE  \E k \in r + 1 .. m + 1 : next[k] /\ \A i \in r + 1 .. k - 1 : A(i)
      <4>1. s + 1 \in r + 1 .. m + 1
        BY <3>1, <3>4
      <4>2. \A i \in r + 1 .. s : i <= m
        BY <3>1
      <4>3. \A i \in r + 1 .. s : A(i)
        BY <1>1, <3>4, <4>2, Zenon
      <4> DEFINE k == s + 1
      <4>4. k \in r + 1 .. m + 1 /\ k - 1 = s
        BY <4>1
      <4>5. next[k]
        BY <3>4
      <4> HIDE DEF k
      <4>6. QED
        BY <4>3, <4>4, <4>5, Zenon
    <3>5. QED
      BY <3>2, <3>3, <3>4, Zenon
  <2> HIDE DEF next, Ends1, m
  <2>3. (\E r \in from : here[p][r + 1])
          <=> \E s \in ItemEnds(item, text, from) : next[s + 1]
    BY <1>4, <2>2, Zenon
  <2>4. QED
    BY <2>3, Zenon DEF item, next
<1>6. CASE ~ Starred(regexp, p)
  <2>1. next = here[p + 1] /\ ~ EndAnchor(regexp, p)
    BY <1>6, Zenon DEF Following
  <2>2. ASSUME NEW r \in from
        PROVE  here[p][r + 1] <=> \E s \in 0 .. m : Ends1(r, s) /\ next[s + 1]
    <3>1. r \in 0 .. m /\ r + 1 \in 1 .. m + 1
      OBVIOUS
    <3>2. here[p][r + 1] <=> A(r + 1) /\ next[r + 1 + 1]
      BY <1>6, <2>1, <3>1, HereAtSingle, Zenon DEF A
    <3>3. ASSUME A(r + 1), next[r + 1 + 1]
          PROVE  \E s \in 0 .. m : Ends1(r, s) /\ next[s + 1]
      <4>1. r + 1 <= m
        BY <1>2, <3>3
      <4>2. r + 1 \in 0 .. m /\ r <= r + 1 /\ \A i \in r + 1 .. r + 1 : i = r + 1
        BY <3>1, <4>1
      <4>3. Fits(r + 1)
        BY <1>1, <3>3, <4>1, Zenon
      <4>4. Ends1(r, r + 1)
        BY <4>2, <4>3, Zenon
      <4>5. QED
        BY <3>3, <4>2, <4>4, Zenon
    <3>4. ASSUME NEW s \in 0 .. m, Ends1(r, s), next[s + 1]
          PROVE  A(r + 1) /\ next[r + 1 + 1]
      <4>1. s = r + 1
        BY <1>3, <1>6, <3>4, Zenon
      <4>2. r + 1 <= m /\ r + 1 \in r + 1 .. r + 1
        BY <3>1, <4>1
      <4>3. Fits(r + 1)
        BY <3>4, <4>1, <4>2, Zenon
      <4>4. QED
        BY <1>1, <3>4, <4>1, <4>2, <4>3, Zenon
    <3>5. QED
      BY <3>2, <3>3, <3>4, Zenon
  <2> HIDE DEF next, Ends1, m
  <2>3. (\E r \in from : here[p][r + 1])
          <=> \E s \in ItemEnds(item, text, from) : next[s + 1]
    BY <1>4, <2>2, Zenon
  <2>4. QED
    BY <2>3, Zenon DEF item, next
<1>7. QED
  BY <1>5, <1>6, Zenon

-----------------------------------------------------------------------------
(* match against the language.                                             *)

\* The function in Ends.
IsEnds(items, n, text, from, ends) ==
  ends = [i \in 0 .. n |-> IF i = 0 THEN from ELSE ItemEnds(items[i], text, ends[i - 1])]

\* There is such a function for every number of items.
LEMMA EndsExist ==
  ASSUME NEW items, NEW text, NEW from
  PROVE  \A n \in Nat : \E ends : IsEnds(items, n, text, from, ends)
<1> DEFINE T == {n \in Nat : \E ends : IsEnds(items, n, text, from, ends)}
<1>1. 0 \in T
  <2> DEFINE f == [i \in 0 .. 0 |-> from]
  <2>1. \A i \in 0 .. 0 : i = 0
    OBVIOUS
  <2>2. f = [i \in 0 .. 0 |-> IF i = 0 THEN from ELSE ItemEnds(items[i], text, f[i - 1])]
    BY <2>1, Zenon
  <2> HIDE DEF f
  <2>3. IsEnds(items, 0, text, from, f)
    BY <2>2, Zenon DEF IsEnds
  <2>4. QED
    BY <2>3
<1>2. ASSUME NEW n \in Nat, n \in T
      PROVE  n + 1 \in T
  <2>1. PICK f : IsEnds(items, n, text, from, f)
    BY <1>2
  <2>2. \A i \in 0 .. n : f[i] = IF i = 0 THEN from ELSE ItemEnds(items[i], text, f[i - 1])
    BY <2>1 DEF IsEnds
  <2> DEFINE g == [i \in 0 .. n + 1 |->
                     IF i = 0 THEN from ELSE ItemEnds(items[i], text, f[i - 1])]
  <2>3. ASSUME NEW i \in 0 .. n + 1
        PROVE  g[i] = IF i = 0 THEN from ELSE ItemEnds(items[i], text, g[i - 1])
    <3>1. CASE i = 0
      BY <3>1
    <3>2. CASE i # 0
      <4>1. i - 1 \in 0 .. n /\ i - 1 \in 0 .. n + 1
        BY <3>2
      <4>2. g[i - 1] = f[i - 1]
        BY <2>2, <4>1
      <4>3. QED
        BY <3>2, <4>2
    <3>3. QED
      BY <3>1, <3>2
  <2>4. g = [i \in 0 .. n + 1 |-> IF i = 0 THEN from ELSE ItemEnds(items[i], text, g[i - 1])]
    BY <2>3
  <2> HIDE DEF g
  <2>5. IsEnds(items, n + 1, text, from, g)
    BY <2>4, Zenon DEF IsEnds
  <2>6. QED
    BY <2>5
<1> HIDE DEF T
<1>3. \A n \in Nat : n \in T
  BY <1>1, <1>2, InductionOverSet
<1>4. QED
  BY <1>3 DEF T

\* It begins with the positions given.
LEMMA EndsFirst ==
  ASSUME NEW items, NEW text, NEW from, NEW n \in Nat, NEW ends,
         IsEnds(items, n, text, from, ends)
  PROVE  ends[0] = from
<1>1. \A i \in 0 .. n : i = 0 => ends[i] = from
  BY Zenon DEF IsEnds
<1>2. QED
  BY <1>1

\* The items from a position on are the item there and the items behind it.
LEMMA SuffixParts ==
  ASSUME NEW regexp, Len(regexp) \in Nat, NEW suffix, IsSuffixes(regexp, suffix),
         NEW p \in 1 .. Len(regexp)
  PROVE  /\ Len(suffix[Following(regexp, p)]) \in Nat
         /\ Len(suffix[p]) = Len(suffix[Following(regexp, p)]) + 1
         /\ suffix[p][1] = Item(regexp, p)
         /\ \A j \in 1 .. Len(suffix[Following(regexp, p)]) :
              suffix[p][j + 1] = suffix[Following(regexp, p)][j]
<1> DEFINE rest == suffix[Following(regexp, p)]
           S == ItemsOf(regexp)
           n == Len(rest)
           one == <<Item(regexp, p)>>
           s == one \o rest
<1>1. Following(regexp, p) \in 1 .. Len(regexp) + 1
  BY FollowingType
<1>2. rest \in Seq(S)
  BY <1>1, SuffixesAre
<1>3. Item(regexp, p) \in S
  BY DEF ItemsOf
<1>4. one \in Seq(S) /\ Len(one) = 1 /\ one[1] = Item(regexp, p)
  BY <1>3
<1>5. suffix[p] = s
  BY SuffixesAre
<1> HIDE DEF S, one, rest
<1>6. /\ s \in Seq(S)
      /\ Len(s) = Len(one) + Len(rest)
      /\ \A i \in 1 .. Len(one) + Len(rest) : s[i] = IF i <= Len(one) THEN one[i] ELSE rest[i - Len(one)]
  BY <1>2, <1>4, ConcatProperties, Zenon
<1> HIDE DEF s
<1>7. n \in Nat
  BY <1>2
<1> HIDE DEF n
<1>8. Len(s) = n + 1 /\ s[1] = Item(regexp, p)
  BY <1>4, <1>6, <1>7 DEF n
<1>9. ASSUME NEW j \in 1 .. n
      PROVE  s[j + 1] = rest[j]
  <2> DEFINE i == j + 1
  <2>1. i \in 1 .. 1 + n /\ ~ (i <= 1) /\ i - 1 = j
    BY <1>7
  <2> HIDE DEF i
  <2>2. s[i] = rest[i - 1]
    BY <1>4, <1>6, <2>1, Zenon DEF n
  <2>3. QED
    BY <2>1, <2>2, Zenon DEF i
<1>10. QED
  BY <1>5, <1>7, <1>8, <1>9, Zenon DEF n, rest

\* The '$' that ends a mask, as an item.
Anchor == [char |-> "$", repeated |-> FALSE]

EndsWithAnchor(items) == items # <<>> /\ items[Len(items)] = Anchor

\* The item at the end of a mask is a '$' that is not repeated exactly if the mask ends
\* with the anchor of matchhere.
LEMMA AnchorIsLast ==
  ASSUME NEW regexp, Len(regexp) \in Nat, NEW p \in 1 .. Len(regexp)
  PROVE  Item(regexp, p) = Anchor /\ Following(regexp, p) = Len(regexp) + 1
           <=> ~ Starred(regexp, p) /\ EndAnchor(regexp, p)
<1>1. Item(regexp, p) = Anchor <=> regexp[p] = "$" /\ ~ Starred(regexp, p)
  BY DEF Item, Anchor, Starred
<1>2. ~ Starred(regexp, p) => (Following(regexp, p) = Len(regexp) + 1 <=> p = Len(regexp))
  BY DEF Following
<1>3. QED
  BY <1>1, <1>2, Zenon DEF EndAnchor

\* The position behind the first i items: from there the mask matches behind one of the
\* ends of these items, exactly if all of it matches from some position in `from'.
Reached(regexp, text, here, suffix, all, from, ends, i, p) ==
  /\ Len(suffix[p]) = Len(all) - i
  /\ \A j \in 1 .. Len(suffix[p]) : suffix[p][j] = all[i + j]
  /\ ends[i] \subseteq 0 .. Len(text)
  /\ (\E r \in from : here[1][r + 1]) <=> (\E r \in ends[i] : here[p][r + 1])

\* From behind i items one step of the mask leads behind i + 1 of them.
LEMMA ReachedNext ==
  ASSUME NEW regexp, Len(regexp) \in Nat, NEW text, Len(text) \in Nat,
         NEW here, IsHere(regexp, text, here),
         NEW suffix, IsSuffixes(regexp, suffix),
         NEW all, NEW from, NEW n \in Nat, NEW ends, IsEnds(all, n, text, from, ends),
         Len(all) \in Nat,
         n = Len(all) \/ n = Len(all) - 1,
         EndsWithAnchor(all) => n = Len(all) - 1,
         NEW i \in Nat, i < n,
         NEW p \in 1 .. Len(regexp) + 1,
         Reached(regexp, text, here, suffix, all, from, ends, i, p)
  PROVE  \E k \in 1 .. Len(regexp) + 1 :
           Reached(regexp, text, here, suffix, all, from, ends, i + 1, k)
<1> DEFINE m == Len(text)
           last == Len(all)
           k == Following(regexp, p)
           rest == suffix[k]
<1>1. Len(suffix[p]) = last - i /\ last - i # 0
  BY DEF Reached
<1>2. p \in 1 .. Len(regexp)
  <2>1. suffix[Len(regexp) + 1] = <<>>
    BY SuffixesAre
  <2>2. Len(<<>>) = 0
    OBVIOUS
  <2>3. p # Len(regexp) + 1
    BY <1>1, <2>1, <2>2, Zenon
  <2>4. QED
    BY <2>3
<1>3. k \in 1 .. Len(regexp) + 1
  BY <1>2, FollowingType
<1>4. /\ Len(rest) \in Nat
      /\ Len(suffix[p]) = Len(rest) + 1
      /\ suffix[p][1] = Item(regexp, p)
      /\ \A j \in 1 .. Len(rest) : suffix[p][j + 1] = rest[j]
  <2> HIDE DEF k, rest
  <2>1. /\ Len(suffix[Following(regexp, p)]) \in Nat
        /\ Len(suffix[p]) = Len(suffix[Following(regexp, p)]) + 1
        /\ suffix[p][1] = Item(regexp, p)
        /\ \A j \in 1 .. Len(suffix[Following(regexp, p)]) :
             suffix[p][j + 1] = suffix[Following(regexp, p)][j]
    BY <1>2, SuffixParts
  <2>2. QED
    BY <2>1, Zenon DEF k, rest
<1>5. Item(regexp, p) = all[i + 1]
  <2>1. 1 \in 1 .. Len(suffix[p])
    BY <1>4
  <2>2. suffix[p][1] = all[i + 1]
    BY <2>1, Zenon DEF Reached
  <2>3. QED
    BY <1>4, <2>2, Zenon
<1>6. Len(rest) = last - (i + 1)
  <2>1. last \in Nat
    OBVIOUS
  <2> DEFINE l == Len(rest)
             s == Len(suffix[p])
  <2>2. l \in Nat /\ s = l + 1 /\ s = last - i
    BY <1>1, <1>4, Zenon
  <2> HIDE DEF l, s, last
  <2>3. l = last - (i + 1)
    BY <2>1, <2>2
  <2>4. QED
    BY <2>3, Zenon DEF l
<1>7. ASSUME NEW j \in 1 .. Len(rest)
      PROVE  rest[j] = all[i + 1 + j]
  <2>1. j + 1 \in 1 .. Len(suffix[p])
    BY <1>4
  <2>2. suffix[p][j + 1] = all[i + (j + 1)]
    BY <2>1, Zenon DEF Reached
  <2>3. i + (j + 1) = i + 1 + j
    BY <1>4
  <2>4. QED
    BY <1>4, <2>2, <2>3, Zenon
<1>8. Starred(regexp, p) \/ ~ EndAnchor(regexp, p)
  <2>1. SUFFICES ASSUME ~ Starred(regexp, p), EndAnchor(regexp, p)
                 PROVE  FALSE
    BY Zenon
  <2>2. Item(regexp, p) = Anchor /\ k = Len(regexp) + 1
    BY <1>2, <2>1, AnchorIsLast
  <2>3. rest = <<>>
    BY <2>2, SuffixesAre
  <2>4. last = i + 1
    BY <1>6, <2>3
  <2>5. all[last] = Anchor
    BY <1>5, <2>2, <2>4, Zenon
  <2>6. n = last - 1
    <3>1. Len(<<>>) = 0 /\ last # 0
      BY <2>4
    <3>2. all # <<>>
      BY <3>1, Zenon
    <3>3. QED
      BY <2>5, <3>2, Zenon DEF EndsWithAnchor
  <2>7. QED
    BY <2>4, <2>6
<1>9. ends[i + 1] = ItemEnds(Item(regexp, p), text, ends[i])
  <2> DEFINE q == i + 1
  <2>1. \A j \in 0 .. n : j # 0 => ends[j] = ItemEnds(all[j], text, ends[j - 1])
    BY Zenon DEF IsEnds
  <2>2. q \in 0 .. n /\ q # 0 /\ q - 1 = i
    OBVIOUS
  <2>3. Item(regexp, p) = all[q]
    BY <1>5, Zenon
  <2> HIDE DEF q
  <2>4. ends[q] = ItemEnds(all[q], text, ends[q - 1])
    BY <2>1, <2>2, Zenon
  <2>5. QED
    BY <2>2, <2>3, <2>4, Zenon DEF q
<1>10. ends[i + 1] \subseteq 0 .. m
  BY <1>9 DEF ItemEnds
<1>11. (\E r \in ends[i] : here[p][r + 1]) <=> \E r \in ends[i + 1] : here[k][r + 1]
  <2>1. ends[i] \subseteq 0 .. m
    BY DEF Reached
  <2>2. (\E r \in ends[i] : here[p][r + 1])
          <=> \E r \in ItemEnds(Item(regexp, p), text, ends[i]) : here[k][r + 1]
    BY <1>2, <1>8, <2>1, FirstItem, Zenon
  <2>3. QED
    BY <1>9, <2>2, Zenon
<1>12. (\E r \in from : here[1][r + 1]) <=> (\E r \in ends[i] : here[p][r + 1])
  BY Zenon DEF Reached
<1>13. Reached(regexp, text, here, suffix, all, from, ends, i + 1, k)
  BY <1>6, <1>7, <1>10, <1>11, <1>12, Zenon DEF Reached
<1>14. QED
  BY <1>3, <1>13, Zenon

\* Behind every number of items, up to the anchor, there is such a position.
LEMMA ReachedAll ==
  ASSUME NEW regexp, Len(regexp) \in Nat, NEW text, Len(text) \in Nat,
         NEW here, IsHere(regexp, text, here),
         NEW suffix, IsSuffixes(regexp, suffix),
         NEW all, NEW from, NEW n \in Nat, NEW ends, IsEnds(all, n, text, from, ends),
         all = suffix[1], from \subseteq 0 .. Len(text),
         Len(all) \in Nat,
         n = Len(all) \/ n = Len(all) - 1,
         EndsWithAnchor(all) => n = Len(all) - 1
  PROVE  \E p \in 1 .. Len(regexp) + 1 :
           Reached(regexp, text, here, suffix, all, from, ends, n, p)
<1> DEFINE R(i, p) == Reached(regexp, text, here, suffix, all, from, ends, i, p)
           T == {i \in Nat : i <= n => \E p \in 1 .. Len(regexp) + 1 : R(i, p)}
<1>1. 0 \in T
  <2>1. 1 \in 1 .. Len(regexp) + 1
    OBVIOUS
  <2>2. ends[0] = from
    BY EndsFirst, Zenon
  <2>3. Len(suffix[1]) = Len(all) - 0
    <3> DEFINE l == Len(all)
    <3>1. Len(suffix[1]) = l /\ l \in Nat
      BY Zenon
    <3> HIDE DEF l
    <3>2. Len(suffix[1]) = l - 0
      BY <3>1
    <3>3. QED
      BY <3>2, Zenon DEF l
  <2>4. ASSUME NEW j \in 1 .. Len(suffix[1])
        PROVE  suffix[1][j] = all[0 + j]
    <3>1. 0 + j = j
      OBVIOUS
    <3>2. QED
      BY <3>1, Zenon
  <2>5. R(0, 1)
    BY <2>2, <2>3, <2>4, Zenon DEF Reached
  <2> HIDE DEF R
  <2>6. QED
    BY <2>1, <2>5
<1>2. ASSUME NEW i \in Nat, i \in T
      PROVE  i + 1 \in T
  <2>1. SUFFICES ASSUME i < n
                 PROVE  \E p \in 1 .. Len(regexp) + 1 : R(i + 1, p)
    <3> HIDE DEF R
    <3>1. QED
      OBVIOUS
  <2>2. PICK p \in 1 .. Len(regexp) + 1 : R(i, p)
    <3> HIDE DEF R
    <3>1. QED
      BY <1>2, <2>1
  <2>3. QED
    BY <2>1, <2>2, ReachedNext, Zenon
<1> HIDE DEF R, T
<1>3. \A i \in Nat : i \in T
  BY <1>1, <1>2, InductionOverSet
<1>4. n <= n
  OBVIOUS
<1>5. QED
  BY <1>3, <1>4, Zenon DEF T, R

\* There are no items only behind the mask.
LEMMA EmptySuffix ==
  ASSUME NEW regexp, Len(regexp) \in Nat, NEW suffix, IsSuffixes(regexp, suffix),
         NEW p \in 1 .. Len(regexp) + 1
  PROVE  Len(suffix[p]) = 0 <=> p = Len(regexp) + 1
<1>1. CASE p = Len(regexp) + 1
  <2>1. suffix[Len(regexp) + 1] = <<>>
    BY SuffixesAre
  <2>2. Len(<<>>) = 0
    OBVIOUS
  <2>3. QED
    BY <1>1, <2>1, <2>2, Zenon
<1>2. CASE p # Len(regexp) + 1
  <2>1. p \in 1 .. Len(regexp)
    BY <1>2
  <2>2. /\ Len(suffix[Following(regexp, p)]) \in Nat
        /\ Len(suffix[p]) = Len(suffix[Following(regexp, p)]) + 1
    BY <2>1, SuffixParts
  <2> DEFINE l == Len(suffix[Following(regexp, p)])
  <2> HIDE DEF l
  <2>3. l \in Nat /\ Len(suffix[p]) = l + 1
    BY <2>2, Zenon DEF l
  <2>4. QED
    BY <1>2, <2>3
<1>3. QED
  BY <1>1, <1>2

\* A mask without anchor matches if its items fit.
LEMMA MatchWithoutAnchor ==
  ASSUME NEW regexp, Len(regexp) \in Nat, NEW text, Len(text) \in Nat,
         NEW here, IsHere(regexp, text, here),
         NEW suffix, IsSuffixes(regexp, suffix),
         NEW all, NEW from, NEW ends, IsEnds(all, Len(all), text, from, ends),
         all = suffix[1], from \subseteq 0 .. Len(text),
         Len(all) \in Nat, ~ EndsWithAnchor(all)
  PROVE  (\E r \in from : here[1][r + 1]) <=> \E r : r \in ends[Len(all)]
<1> DEFINE n == Len(all)
<1>1. PICK p \in 1 .. Len(regexp) + 1 :
        Reached(regexp, text, here, suffix, all, from, ends, n, p)
  BY ReachedAll, Zenon
<1>2. Len(suffix[p]) = Len(all) - n
  BY <1>1, Zenon DEF Reached
<1>3. p = Len(regexp) + 1
  <2>1. Len(suffix[p]) = 0
    BY <1>2
  <2>2. QED
    BY <2>1, EmptySuffix, Zenon
<1>4. ends[n] \subseteq 0 .. Len(text)
  BY <1>1, Zenon DEF Reached
<1>5. \A r \in ends[n] : here[p][r + 1]
  <2>1. \A r \in ends[n] : r + 1 \in 1 .. Len(text) + 1
    BY <1>4
  <2>2. QED
    BY <1>3, <2>1, HereAtEnd, Zenon
<1>6. (\E r \in from : here[1][r + 1]) <=> (\E r \in ends[n] : here[p][r + 1])
  BY <1>1, Zenon DEF Reached
<1>7. (\E r \in ends[n] : here[p][r + 1]) <=> \E r : r \in ends[n]
  BY <1>5, Zenon
<1>8. QED
  BY <1>6, <1>7, Zenon

\* A mask with an anchor matches if the items before it fit up to the end of the text.
LEMMA MatchWithAnchor ==
  ASSUME NEW regexp, Len(regexp) \in Nat, NEW text, Len(text) \in Nat,
         NEW here, IsHere(regexp, text, here),
         NEW suffix, IsSuffixes(regexp, suffix),
         NEW all, NEW from, NEW n \in Nat, NEW ends, IsEnds(all, n, text, from, ends),
         all = suffix[1], from \subseteq 0 .. Len(text),
         Len(all) \in Nat, n = Len(all) - 1, EndsWithAnchor(all)
  PROVE  (\E r \in from : here[1][r + 1]) <=> Len(text) \in ends[n]
<1> DEFINE m == Len(text)
<1>1. PICK p \in 1 .. Len(regexp) + 1 :
        Reached(regexp, text, here, suffix, all, from, ends, n, p)
  BY ReachedAll, Zenon
<1>2. Len(suffix[p]) = 1
  <2>1. Len(suffix[p]) = Len(all) - n
    BY <1>1, Zenon DEF Reached
  <2> DEFINE l == Len(all)
  <2>2. l \in Nat /\ n = l - 1 /\ Len(suffix[p]) = l - n
    BY <2>1, Zenon
  <2> HIDE DEF l
  <2>3. QED
    BY <2>2
<1>3. p \in 1 .. Len(regexp)
  <2>1. Len(suffix[p]) # 0
    BY <1>2
  <2>2. p # Len(regexp) + 1
    BY <2>1, EmptySuffix, Zenon
  <2>3. QED
    BY <2>2
<1>4. /\ Len(suffix[Following(regexp, p)]) \in Nat
      /\ Len(suffix[p]) = Len(suffix[Following(regexp, p)]) + 1
      /\ suffix[p][1] = Item(regexp, p)
  BY <1>3, SuffixParts
<1>5. Item(regexp, p) = Anchor
  <2>1. 1 \in 1 .. Len(suffix[p]) /\ n + 1 = Len(all)
    BY <1>2
  <2>2. suffix[p][1] = all[n + 1]
    BY <1>1, <2>1, Zenon DEF Reached
  <2>3. QED
    BY <1>4, <2>1, <2>2, Zenon DEF EndsWithAnchor
<1>6. Following(regexp, p) = Len(regexp) + 1
  <2> DEFINE k == Following(regexp, p)
             l == Len(suffix[k])
  <2>1. k \in 1 .. Len(regexp) + 1
    BY <1>3, FollowingType
  <2>2. l = 0
    <3>1. l \in Nat /\ 1 = l + 1
      BY <1>2, <1>4, Zenon
    <3> HIDE DEF l
    <3>2. QED
      BY <3>1
  <2> HIDE DEF k
  <2>3. k = Len(regexp) + 1
    BY <2>1, <2>2, EmptySuffix, Zenon
  <2>4. QED
    BY <2>3, Zenon DEF k
<1>7. ~ Starred(regexp, p) /\ EndAnchor(regexp, p)
  BY <1>3, <1>5, <1>6, AnchorIsLast, Zenon
<1>8. ends[n] \subseteq 0 .. m
  BY <1>1, Zenon DEF Reached
<1>9. \A r \in ends[n] : here[p][r + 1] <=> r = m
  <2>1. ASSUME NEW r \in ends[n]
        PROVE  here[p][r + 1] <=> r = m
    <3>1. r + 1 \in 1 .. m + 1 /\ (r + 1 > m <=> r = m)
      BY <1>8
    <3>2. here[p][r + 1] <=> r + 1 > m
      BY <1>3, <1>7, <3>1, HereAtSingle, Zenon
    <3>3. QED
      BY <3>1, <3>2, Zenon
  <2>2. QED
    BY <2>1, Zenon
<1>10. (\E r \in from : here[1][r + 1]) <=> (\E r \in ends[n] : here[p][r + 1])
  BY <1>1, Zenon DEF Reached
<1>11. QED
  BY <1>9, <1>10, Zenon

\* The language, from some of the positions on.
ItemsFit(regexp, text, from) ==
  LET all   == Items(regexp)
      atEnd == EndsWithAnchor(all)
  IN  IF atEnd THEN Len(text) \in Ends(all, Len(all) - 1, text, from)
               ELSE Ends(all, Len(all), text, from) # {}

\* matchhere succeeds at one of some positions, exactly if the items fit from one of them.
LEMMA MatchFrom ==
  ASSUME NEW regexp, Len(regexp) \in Nat, NEW text, Len(text) \in Nat,
         NEW from, from \subseteq 0 .. Len(text)
  PROVE  (\E r \in from : MatchHere(regexp, text)[1][r + 1]) <=> ItemsFit(regexp, text, from)
<1> DEFINE here == CHOOSE h : IsHere(regexp, text, h)
           suffix == CHOOSE s : IsSuffixes(regexp, s)
           all == suffix[1]
           ends(n) == CHOOSE e : IsEnds(all, n, text, from, e)
<1>1. MatchHere(regexp, text) = here
  BY Zenon DEF MatchHere, IsHere, HereBody
<1>2. Items(regexp) = all
  BY Zenon DEF Items, IsSuffixes
<1>3. \A n : Ends(all, n, text, from) = ends(n)[n]
  BY Zenon DEF Ends, IsEnds
<1>4. IsHere(regexp, text, here)
  BY HereExists, Zenon
<1>5. IsSuffixes(regexp, suffix)
  BY SuffixesExist, Zenon
<1>6. \A n \in Nat : IsEnds(all, n, text, from, ends(n))
  BY EndsExist, Zenon
<1> HIDE DEF here, suffix, ends
<1>7. Len(all) \in Nat
  <2>1. 1 \in 1 .. Len(regexp) + 1
    OBVIOUS
  <2>2. suffix[1] \in Seq(ItemsOf(regexp))
    BY <1>5, <2>1, SuffixesAre
  <2>3. QED
    BY <2>2
<1>8. CASE EndsWithAnchor(all)
  <2> DEFINE n == Len(all) - 1
  <2>1. n \in Nat
    <3>1. Len(all) # 0
      <4>1. suffix[1] \in Seq(ItemsOf(regexp))
        BY <1>5, SuffixesAre
      <4>2. QED
        BY <1>8, <4>1 DEF EndsWithAnchor
    <3>2. QED
      BY <1>7, <3>1
  <2>2. (\E r \in from : here[1][r + 1]) <=> Len(text) \in ends(n)[n]
    <3> HIDE DEF all
    <3>1. all = suffix[1] /\ n = Len(all) - 1
      BY Zenon DEF all
    <3> HIDE DEF n
    <3>2. IsEnds(all, n, text, from, ends(n))
      BY <1>6, <2>1, Zenon
    <3>3. QED
      BY <1>4, <1>5, <1>7, <1>8, <2>1, <3>1, <3>2, MatchWithAnchor, Zenon
  <2>3. QED
    BY <1>1, <1>2, <1>3, <1>8, <2>2, Zenon DEF ItemsFit
<1>9. CASE ~ EndsWithAnchor(all)
  <2> DEFINE n == Len(all)
  <2>1. (\E r \in from : here[1][r + 1]) <=> \E r : r \in ends(n)[n]
    <3> HIDE DEF all
    <3>1. all = suffix[1]
      BY Zenon DEF all
    <3>2. IsEnds(all, n, text, from, ends(n))
      BY <1>6, <1>7, Zenon
    <3>3. QED
      BY <1>4, <1>5, <1>7, <1>9, <3>1, <3>2, MatchWithoutAnchor, Zenon
  <2>2. (\E r : r \in ends(n)[n]) <=> ends(n)[n] # {}
    OBVIOUS
  <2>3. QED
    BY <1>1, <1>2, <1>3, <1>9, <2>1, <2>2, Zenon DEF ItemsFit
<1>10. QED
  BY <1>8, <1>9, Zenon

\* match is its language on every mask and key.
LEMMA MatchIsLanguage ==
  ASSUME NEW C, NEW D, NEW regexp \in Seq(C), NEW text \in Seq(D)
  PROVE  Match(regexp, text) <=> InLanguage(regexp, text)
<1> DEFINE m == Len(text)
           atStart == regexp # <<>> /\ regexp[1] = "^"
<1>1. m \in Nat /\ Len(regexp) \in Nat
  OBVIOUS
<1>2. CASE atStart
  <2> DEFINE rest == Tail(regexp)
             H(q) == MatchHere(rest, text)[1][q]
  <2>1. Len(rest) \in Nat
    BY <1>2
  <2>2. {0} \subseteq 0 .. m
    BY <1>1
  <2>3. (\E r \in {0} : H(r + 1)) <=> ItemsFit(rest, text, {0})
    BY <1>1, <2>1, <2>2, MatchFrom, Zenon
  <2>4. (\E r \in {0} : H(r + 1)) <=> H(1)
    <3>1. 0 + 1 = 1 /\ \A r : r \in {0} <=> r = 0
      OBVIOUS
    <3> HIDE DEF H
    <3>2. QED
      BY <3>1, Zenon
  <2>5. Match(regexp, text) <=> H(1)
    BY <1>2, Zenon DEF Match
  <2>6. InLanguage(regexp, text) <=> ItemsFit(rest, text, {0})
    BY <1>2, Zenon DEF InLanguage, ItemsFit, EndsWithAnchor, Anchor
  <2>7. QED
    BY <2>3, <2>4, <2>5, <2>6, Zenon
<1>3. CASE ~ atStart
  <2> DEFINE H(q) == MatchHere(regexp, text)[1][q]
  <2>1. 0 .. m \subseteq 0 .. m
    OBVIOUS
  <2>2. (\E r \in 0 .. m : H(r + 1)) <=> ItemsFit(regexp, text, 0 .. m)
    BY <1>1, <2>1, MatchFrom, Zenon
  <2>3. (\E r \in 0 .. m : H(r + 1)) <=> \E q \in 1 .. m + 1 : H(q)
    <3>1. \A r \in 0 .. m : r + 1 \in 1 .. m + 1
      BY <1>1
    <3>2. \A q \in 1 .. m + 1 : \E r \in 0 .. m : r + 1 = q
      <4>1. SUFFICES ASSUME NEW q \in 1 .. m + 1
                     PROVE  \E r \in 0 .. m : r + 1 = q
        OBVIOUS
      <4>2. q - 1 \in 0 .. m /\ q - 1 + 1 = q
        BY <1>1
      <4>3. QED
        BY <4>2
    <3> HIDE DEF H, m
    <3>3. QED
      BY <3>1, <3>2, Zenon
  <2>4. Match(regexp, text) <=> \E q \in 1 .. m + 1 : H(q)
    BY <1>3, Zenon DEF Match
  <2>5. InLanguage(regexp, text) <=> ItemsFit(regexp, text, 0 .. m)
    BY <1>3, Zenon DEF InLanguage, ItemsFit, EndsWithAnchor, Anchor
  <2>6. QED
    BY <2>2, <2>3, <2>4, <2>5, Zenon
<1>4. QED
  BY <1>2, <1>3, Zenon

\* match() accepts a key exactly when the key is in the language of the mask, whatever
\* characters they are made of and however long they are.
THEOREM MatchAlwaysAgreesWithLanguage == Spec => []MatchAgreesWithLanguage
<1>1. InputInv => MatchAgreesWithLanguage
  <2>1. SUFFICES ASSUME InputInv, input.call = "match"
                 PROVE  Match(input.mask, input.key) <=> InLanguage(input.mask, input.key)
    BY Zenon DEF MatchAgreesWithLanguage
  <2>2. input.mask \in Seq(MaskChar) /\ input.key \in Seq(KeyChar)
    BY <2>1 DEF InputInv, MatchCall, SplitCall, WaitCall
  <2>3. QED
    BY <2>2, MatchIsLanguage, Zenon
<1>2. QED
  BY <1>1, InputAlways, PTL
=============================================================================
