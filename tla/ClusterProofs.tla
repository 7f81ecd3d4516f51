----------------------------- MODULE ClusterProofs -----------------------------
(***************************************************************************)
(* The nodes of a cluster agree once everything has arrived, for every     *)
(* number of nodes, operators, commands and failures.                      *)
(*                                                                         *)
(* The argument: while the nodes should agree, only one node sends, and    *)
(* for every other node there is a sequence of configurations which leads, *)
(* over the messages on their way to it, to the configuration of the       *)
(* sender: from the configuration the node has, or from a message that     *)
(* determines all of it.                                                   *)
(***************************************************************************)
EXTENDS Cluster, SequenceTheorems, TLAPS

\* One of the two aspects of a configuration.
Part(a, config) ==
  IF a = "config" THEN <<config.setting, config.masks>> ELSE config.enabled

IsConfig(c) ==
  /\ c = [setting |-> c.setting, masks |-> c.masks, enabled |-> c.enabled]
  /\ c.setting = [i \in Slot |-> c.setting[i]]
  /\ c.enabled \in BOOLEAN

\* Whoever has `from' and receives the message has `to' then.
Turns(a, from, message, to) ==
  \A config : IsConfig(config) /\ Part(a, config) = from
                => \A new \in Received(config, Split(message)) : Part(a, new) = to

\* Whoever receives the message has `to' then.
Sets(a, message, to) ==
  \A config : IsConfig(config)
                => \A new \in Received(config, Split(message)) : Part(a, new) = to

\* f[i] is what a node has after the first i messages of the list; it follows from
\* what the node has now, or from message k.
IsPath(a, from, list, to, k, f) ==
  /\ k = 0 => f[0] = from
  /\ k # 0 => Sets(a, list[k], f[k])
  /\ \A i \in k .. Len(list) - 1 : Turns(a, f[i], list[i + 1], f[i + 1])
  /\ f[Len(list)] = to

Leads(a, from, list, to) == \E k \in 0 .. Len(list) : \E f : IsPath(a, from, list, to, k, f)

-----------------------------------------------------------------------------
(***************************************************************************)
(* Paths.                                                                  *)
(***************************************************************************)

LEMMA LeadsEmpty ==
  ASSUME NEW a, NEW from, NEW to
  PROVE  Leads(a, from, <<>>, to) <=> from = to
<1>1. Len(<<>>) = 0
  BY EmptySeq
<1>2. ASSUME Leads(a, from, <<>>, to) PROVE from = to
  BY <1>1, <1>2 DEF Leads, IsPath
<1>3. ASSUME from = to PROVE Leads(a, from, <<>>, to)
  <2> DEFINE f == [i \in {0} |-> from]
  <2>1. f[0] = from
    OBVIOUS
  <2> HIDE DEF f
  <2>2. IsPath(a, from, <<>>, to, 0, f)
    BY <1>1, <1>3, <2>1 DEF IsPath
  <2>3. 0 \in 0 .. Len(<<>>)
    BY <1>1
  <2> QED
    BY <2>2, <2>3 DEF Leads
<1> QED
  BY <1>2, <1>3

\* A message that turns the end of the path into something else extends it.
LEMMA LeadsOn ==
  ASSUME NEW S, NEW list \in Seq(S), NEW m \in S, NEW a, NEW from, NEW to, NEW next,
         Leads(a, from, list, to), Turns(a, to, m, next)
  PROVE  Leads(a, from, Append(list, m), next)
<1>1. PICK k \in 0 .. Len(list) : \E f : IsPath(a, from, list, to, k, f)
  BY DEF Leads
<1>2. PICK f : IsPath(a, from, list, to, k, f)
  BY <1>1
<1> DEFINE longer == Append(list, m)
           g == [i \in 0 .. Len(list) + 1 |-> IF i <= Len(list) THEN f[i] ELSE next]
<1>3. /\ Len(list) \in Nat
      /\ Len(longer) = Len(list) + 1
      /\ \A i \in 1 .. Len(list) : longer[i] = list[i]
      /\ longer[Len(list) + 1] = m
  BY LenProperties, AppendProperties
<1>4. /\ \A i \in 0 .. Len(list) : g[i] = f[i]
      /\ g[Len(list) + 1] = next
  BY <1>3
<1> HIDE DEF longer, g
<1>5. k = 0 => g[0] = from
  BY <1>2, <1>3, <1>4 DEF IsPath
<1>6. k # 0 => Sets(a, longer[k], g[k])
  BY <1>2, <1>3, <1>4 DEF IsPath
<1>7. ASSUME NEW i \in k .. Len(longer) - 1 PROVE Turns(a, g[i], longer[i + 1], g[i + 1])
  <2>1. CASE i = Len(list)
    BY <1>2, <1>3, <1>4, <2>1 DEF IsPath
  <2>2. CASE i # Len(list)
    <3>1. i \in k .. Len(list) - 1 /\ i + 1 \in 1 .. Len(list) /\ i \in 0 .. Len(list)
      BY <1>3, <2>2
    <3>2. Turns(a, f[i], list[i + 1], f[i + 1])
      BY <1>2, <3>1 DEF IsPath
    <3> QED
      BY <1>3, <1>4, <3>1, <3>2
  <2> QED
    BY <2>1, <2>2
<1>8. IsPath(a, from, longer, next, k, g)
  BY <1>3, <1>4, <1>5, <1>6, <1>7 DEF IsPath
<1>9. k \in 0 .. Len(longer)
  BY <1>3
<1>10. Leads(a, from, longer, next)
  BY <1>8, <1>9 DEF Leads
<1> QED
  BY <1>10 DEF longer

\* A message that determines everything starts a path of its own.
LEMMA LeadsAnew ==
  ASSUME NEW S, NEW list \in Seq(S), NEW m \in S, NEW a, NEW from, NEW next,
         Sets(a, m, next)
  PROVE  Leads(a, from, Append(list, m), next)
<1> DEFINE longer == Append(list, m)
           k == Len(longer)
           g == [i \in {k} |-> next]
<1>1. /\ Len(list) \in Nat
      /\ Len(longer) = Len(list) + 1
      /\ longer[Len(longer)] = m
  BY LenProperties, AppendProperties
<1>2. g[k] = next
  OBVIOUS
<1> HIDE DEF longer, g
<1>3. IsPath(a, from, longer, next, k, g)
  BY <1>1, <1>2 DEF IsPath
<1>4. Leads(a, from, longer, next)
  BY <1>1, <1>3 DEF Leads
<1> QED
  BY <1>4 DEF longer

\* The node that receives the first message is one step further on the path.
LEMMA LeadsAfterReceive ==
  ASSUME NEW S, NEW list \in Seq(S), list # <<>>, NEW a, NEW to,
         NEW config, IsConfig(config), Leads(a, Part(a, config), list, to),
         NEW new \in Received(config, Split(Head(list)))
  PROVE  Leads(a, Part(a, new), Tail(list), to)
<1>1. PICK k \in 0 .. Len(list) : \E f : IsPath(a, Part(a, config), list, to, k, f)
  BY DEF Leads
<1>2. PICK f : IsPath(a, Part(a, config), list, to, k, f)
  BY <1>1
<1> DEFINE rest == Tail(list)
           g == [i \in 0 .. Len(list) - 1 |-> f[i + 1]]
           j == IF k = 0 THEN 0 ELSE k - 1
<1>3. /\ Len(list) \in Nat \ {0}
      /\ Len(rest) = Len(list) - 1
      /\ \A i \in 1 .. Len(list) - 1 : rest[i] = list[i + 1]
      /\ Head(list) = list[1]
  BY EmptySeq, HeadTailProperties
<1>4. \A i \in 0 .. Len(list) - 1 : g[i] = f[i + 1]
  OBVIOUS
<1> HIDE DEF rest, g
<1>5. k \in {0, 1} => f[1] = Part(a, new)
  <2>1. CASE k = 0
    <3>1. 0 \in k .. Len(list) - 1 /\ f[0] = Part(a, config)
      BY <1>2, <1>3, <2>1 DEF IsPath
    <3>2. Turns(a, Part(a, config), list[1], f[1])
      BY <1>2, <3>1 DEF IsPath
    <3> QED
      BY <1>3, <3>2 DEF Turns
  <2>2. CASE k = 1
    <3>1. Sets(a, list[1], f[1])
      BY <1>2, <2>2 DEF IsPath
    <3> QED
      BY <1>3, <3>1 DEF Sets
  <2> QED
    BY <2>1, <2>2
<1>6. j = 0 => g[0] = Part(a, new)
  BY <1>3, <1>4, <1>5
<1>7. j # 0 => Sets(a, rest[j], g[j])
  BY <1>2, <1>3, <1>4 DEF IsPath
<1>8. ASSUME NEW i \in j .. Len(rest) - 1 PROVE Turns(a, g[i], rest[i + 1], g[i + 1])
  <2>1. i + 1 \in k .. Len(list) - 1 /\ i + 1 \in 0 .. Len(list) - 1 /\ i \in 0 .. Len(list) - 1
    BY <1>3
  <2>2. Turns(a, f[i + 1], list[i + 2], f[i + 2])
    BY <1>2, <2>1 DEF IsPath
  <2>3. rest[i + 1] = list[i + 2] /\ g[i] = f[i + 1] /\ g[i + 1] = f[i + 2]
    BY <1>3, <1>4, <2>1
  <2> QED
    BY <2>2, <2>3
<1>9. g[Len(rest)] = to
  BY <1>2, <1>3, <1>4 DEF IsPath
<1>10. IsPath(a, Part(a, new), rest, to, j, g)
  BY <1>6, <1>7, <1>8, <1>9 DEF IsPath
<1>11. j \in 0 .. Len(rest)
  BY <1>3
<1>12. Leads(a, Part(a, new), rest, to)
  BY <1>10, <1>11 DEF Leads
<1> QED
  BY <1>12 DEF rest

-----------------------------------------------------------------------------
(***************************************************************************)
(* The handlers.                                                           *)
(***************************************************************************)

Name == Dispatched \cup {"keymask_set"}

LEMMA AfterSetupType ==
  ASSUME NEW c, IsConfig(c), NEW args
  PROVE  /\ IsConfig(AfterSetup(c, args))
         /\ AfterSetup(c, args).enabled = c.enabled
<1> DEFINE new == AfterSetup(c, args)
           masks == SubSeq(args, MaxSize + 1, Len(args))
           newSetting == [i \in Slot |-> IF i \in AssignedSlots(args) THEN SlotValue(i, args[i])
                                                                    ELSE c.setting[i]]
           newMasks == IF masks = <<>> THEN c.masks
                       ELSE IF IsRejected(args) THEN <<>> ELSE WithMasks(<<>>, masks)
<1>1. c = [setting |-> c.setting, masks |-> c.masks, enabled |-> c.enabled]
  BY DEF IsConfig
<1>2. new = [c EXCEPT !.setting = newSetting, !.masks = newMasks]
  BY <1>1 DEF AfterSetup
<1>3. newSetting = [i \in Slot |-> newSetting[i]]
  OBVIOUS
<1> HIDE DEF new, newSetting, newMasks
<1>4. new = [setting |-> newSetting, masks |-> newMasks, enabled |-> c.enabled]
  BY <1>1, <1>2
<1>5. IsConfig(new) /\ new.enabled = c.enabled
  BY <1>3, <1>4 DEF IsConfig
<1> QED
  BY <1>5 DEF new

LEMMA HandledType ==
  ASSUME NEW c, IsConfig(c), NEW name \in Name, NEW argv, NEW new \in Handled(name, c, argv)
  PROVE  IsConfig(new)
<1>1. CASE name = "connect"
  <2>1. IsConfig(AfterSetup(c, Tail(argv)))
    BY AfterSetupType
  <2>2. \/ new = AfterSetup(c, Tail(argv))
        \/ new = [AfterSetup(c, Tail(argv)) EXCEPT !.enabled = TRUE]
    BY <1>1 DEF Handled, AfterConnect
  <2> QED
    BY <2>1, <2>2 DEF IsConfig
<1>2. CASE name = "disconnect"
  BY <1>2 DEF Handled, AfterDisconnect, IsConfig
<1>3. CASE name = "config_set"
  BY <1>3, AfterSetupType DEF Handled
<1>4. CASE name = "fallback_storage_size_set"
  BY <1>4 DEF Handled, AfterSizeSet, IsConfig
<1>5. CASE name = "keymask_clean"
  BY <1>5 DEF Handled, AfterKeymaskClean, IsConfig
<1>6. CASE name = "keymask_add"
  BY <1>6 DEF Handled, AfterKeymaskAdd, IsConfig
<1>7. CASE name = "keymask_set"
  BY <1>7 DEF Handled, AfterKeymaskAdd, AfterKeymaskClean, IsConfig
<1> QED
  BY <1>1, <1>2, <1>3, <1>4, <1>5, <1>6, <1>7 DEF Name, Dispatched

LEMMA ReceivedType ==
  ASSUME NEW c, IsConfig(c), NEW argv, NEW new \in Received(c, argv)
  PROVE  IsConfig(new)
<1>1. CASE \E name \in Dispatched : argv[1] = Str(name)
  <2> PICK name \in Dispatched : argv[1] = Str(name)
    BY <1>1
  <2>1. argv[1][1] = name
    BY DEF Str
  <2> QED
    BY <1>1, <2>1, HandledType DEF Received, Name
<1>2. CASE ~\E name \in Dispatched : argv[1] = Str(name)
  BY <1>2 DEF Received
<1> QED
  BY <1>1, <1>2

\* setupConfig makes the same of equal settings and masks.
LEMMA AfterSetupPart ==
  ASSUME NEW c1, NEW c2, IsConfig(c1), IsConfig(c2), Part("config", c1) = Part("config", c2),
         NEW args
  PROVE  Part("config", AfterSetup(c1, args)) = Part("config", AfterSetup(c2, args))
BY DEF IsConfig, AfterSetup, Part

\* Whether the connection can be made does not matter to settings and masks.
LEMMA SetupCommandPart ==
  ASSUME NEW c, IsConfig(c), NEW name \in {"connect", "config_set"}, NEW argv,
         NEW new \in Handled(name, c, argv)
  PROVE  Part("config", new) = Part("config", AfterSetup(c, Tail(argv)))
<1> DEFINE setup == AfterSetup(c, Tail(argv))
<1>1. IsConfig(setup)
  BY AfterSetupType
<1>2. new = setup \/ new = [setup EXCEPT !.enabled = TRUE]
  BY DEF Handled, AfterConnect
<1> HIDE DEF setup
<1>3. Part("config", new) = Part("config", setup)
  BY <1>1, <1>2 DEF IsConfig, Part
<1> QED
  BY <1>3 DEF setup

\* So does every handler, whatever becomes of the connection.
LEMMA HandledPart ==
  ASSUME NEW c1, NEW c2, IsConfig(c1), IsConfig(c2), Part("config", c1) = Part("config", c2),
         NEW name \in Name, NEW argv,
         NEW new1 \in Handled(name, c1, argv), NEW new2 \in Handled(name, c2, argv)
  PROVE  Part("config", new1) = Part("config", new2)
<1>1. CASE name = "connect"
  BY <1>1, SetupCommandPart, AfterSetupPart
<1>2. CASE name = "disconnect"
  BY <1>2 DEF Handled, AfterDisconnect, IsConfig, Part
<1>3. CASE name = "config_set"
  BY <1>3, AfterSetupPart DEF Handled
<1>4. CASE name = "fallback_storage_size_set"
  BY <1>4 DEF Handled, AfterSizeSet, IsConfig, Part
<1>5. CASE name = "keymask_clean"
  BY <1>5 DEF Handled, AfterKeymaskClean, IsConfig, Part
<1>6. CASE name = "keymask_add"
  BY <1>6 DEF Handled, AfterKeymaskAdd, IsConfig, Part
<1>7. CASE name = "keymask_set"
  BY <1>7 DEF Handled, AfterKeymaskAdd, AfterKeymaskClean, IsConfig, Part
<1> QED
  BY <1>1, <1>2, <1>3, <1>4, <1>5, <1>6, <1>7 DEF Name, Dispatched

\* A complete set of arguments leaves nothing of the configuration before.
LEMMA AfterSetupDetermines ==
  ASSUME NEW c1, NEW c2, IsConfig(c1), IsConfig(c2),
         NEW args \in Seq(Seq(STRING)), Len(args) > MaxSize, ~IsRejected(args)
  PROVE  Part("config", AfterSetup(c1, args)) = Part("config", AfterSetup(c2, args))
<1> DEFINE masks == SubSeq(args, MaxSize + 1, Len(args))
<1>1. masks # <<>>
  <2>1. Len(args) \in Nat /\ \A i \in 10 .. Len(args) : args[i] \in Seq(STRING)
    BY LenProperties
  <2>2. Len(args) > 9 /\ masks = SubSeq(args, 10, Len(args))
    BY DEF MaxSize
  <2> HIDE DEF masks
  <2>3. Len(masks) = Len(args) - 9
    BY <2>1, <2>2, SubSeqProperties
  <2>4. \A n \in Nat : n > 9 => n - 9 # 0
    OBVIOUS
  <2>5. Len(args) \in Nat /\ Len(args) > 9
    BY <2>1, <2>2
  <2>6. Len(args) - 9 # 0
    BY <2>4, <2>5
  <2> QED
    BY <2>3, <2>6, EmptySeq
<1>2. AssignedSlots(args) = Slot
  BY LenProperties DEF AssignedSlots, Slot, MaxSize
<1> HIDE DEF masks
<1>3. \A c : IsConfig(c) =>
        /\ AfterSetup(c, args).setting = [i \in Slot |-> SlotValue(i, args[i])]
        /\ AfterSetup(c, args).masks = WithMasks(<<>>, masks)
  BY <1>1, <1>2 DEF AfterSetup, IsConfig, masks
<1> QED
  BY <1>3 DEF Part

LEMMA HandledDetermines ==
  ASSUME NEW c1, NEW c2, IsConfig(c1), IsConfig(c2), NEW name \in {"connect", "config_set"},
         NEW argv \in Seq(Seq(STRING)), Len(argv) > MaxSize + 1, ~IsRejected(Tail(argv)),
         NEW new1 \in Handled(name, c1, argv), NEW new2 \in Handled(name, c2, argv)
  PROVE  Part("config", new1) = Part("config", new2)
<1>1. Tail(argv) \in Seq(Seq(STRING)) /\ Len(Tail(argv)) > MaxSize
  <2>1. Len(argv) \in Nat /\ argv # <<>>
    BY LenProperties, EmptySeq DEF MaxSize
  <2> QED
    BY <2>1, HeadTailProperties DEF MaxSize
<1>2. /\ Part("config", new1) = Part("config", AfterSetup(c1, Tail(argv)))
      /\ Part("config", new2) = Part("config", AfterSetup(c2, Tail(argv)))
  BY SetupCommandPart
<1>3. Part("config", AfterSetup(c1, Tail(argv))) = Part("config", AfterSetup(c2, Tail(argv)))
  BY <1>1, AfterSetupDetermines
<1> QED
  BY <1>2, <1>3

\* disconnect disables, and only connect enables.
LEMMA HandledSwitch ==
  ASSUME NEW c, IsConfig(c), NEW name \in Name \ {"connect"}, NEW argv,
         name = "disconnect" \/ ~c.enabled,
         NEW new \in Handled(name, c, argv)
  PROVE  new.enabled = FALSE
<1>2. CASE name = "disconnect"
  BY <1>2 DEF Handled, AfterDisconnect, IsConfig
<1>3. CASE name = "config_set"
  BY <1>3, AfterSetupType DEF Handled
<1>4. CASE name = "fallback_storage_size_set"
  BY <1>4 DEF Handled, AfterSizeSet, IsConfig
<1>5. CASE name = "keymask_clean"
  BY <1>5 DEF Handled, AfterKeymaskClean, IsConfig
<1>6. CASE name = "keymask_add"
  BY <1>6 DEF Handled, AfterKeymaskAdd, IsConfig
<1>7. CASE name = "keymask_set"
  BY <1>7 DEF Handled, AfterKeymaskAdd, AfterKeymaskClean, IsConfig
<1> QED
  BY <1>2, <1>3, <1>4, <1>5, <1>6, <1>7 DEF Name, Dispatched

-----------------------------------------------------------------------------
(***************************************************************************)
(* A command on its way.                                                   *)
(***************************************************************************)

\* What the receiver makes of a command it knows is what the sender made of it.
LEMMA ReceivedAsIssued ==
  ASSUME NEW argv, IsCarried(argv)
  PROVE  /\ NameOf[argv[1]] \in Dispatched
         /\ \A c : Received(c, Split(Join(argv))) = Handled(NameOf[argv[1]], c, argv)
<1>1. PICK name \in Dispatched : argv[1] = Str(name)
  BY DEF IsCarried
<1>2. argv[1][1] = name /\ NameOf[argv[1]] = name
  BY <1>1, ConfigAssumption DEF Str
<1>3. Split(Join(argv)) = argv
  BY DEF IsCarried
<1>4. \A c : Received(c, argv) = Handled(name, c, argv)
  BY <1>1, <1>2 DEF Received
<1> QED
  BY <1>2, <1>3, <1>4

\* Whoever had what the sender had before gets what the sender has after.
LEMMA CommandTurns ==
  ASSUME NEW argv, IsCarried(argv), NEW c, IsConfig(c), NEW new \in IssuedHere(c, argv),
         NEW a \in Aspect, a = "switch" => NameOf[argv[1]] # "connect" /\ ~c.enabled
  PROVE  /\ Turns(a, Part(a, c), Join(argv), Part(a, new))
         /\ a = "switch" => ~new.enabled
<1> DEFINE name == NameOf[argv[1]]
<1>1. name \in Dispatched /\ name \in Name
  BY ReceivedAsIssued DEF Name
<1>2. new \in Handled(name, c, argv)
  BY DEF IssuedHere
<1>3. \A d : Received(d, Split(Join(argv))) = Handled(name, d, argv)
  BY ReceivedAsIssued
<1> HIDE DEF name
<1>4. CASE a = "config"
  <2>1. \A d : IsConfig(d) /\ Part("config", d) = Part("config", c)
                 => \A other \in Handled(name, d, argv) :
                      Part("config", other) = Part("config", new)
    BY <1>1, <1>2, HandledPart
  <2> QED
    BY <1>3, <1>4, <2>1 DEF Turns
<1>5. CASE a = "switch"
  <2>1. name \in Name \ {"connect"} /\ ~c.enabled
    BY <1>1, <1>5 DEF name
  <2>2. new.enabled = FALSE
    BY <1>2, <2>1, HandledSwitch
  <2>3. c.enabled = FALSE
    BY <2>1 DEF IsConfig
  <2>4. ASSUME NEW d, IsConfig(d), d.enabled = FALSE, NEW other \in Handled(name, d, argv)
        PROVE  other.enabled = FALSE
    BY <2>1, <2>4, HandledSwitch
  <2>5. Part(a, c) = FALSE /\ Part(a, new) = FALSE /\ \A d : Part(a, d) = d.enabled
    BY <1>5, <2>2, <2>3 DEF Part
  <2> QED
    BY <1>3, <2>2, <2>4, <2>5 DEF Turns
<1> QED
  BY <1>4, <1>5 DEF Aspect

\* A command that determines an aspect gives it to whoever receives it.
LEMMA CommandSets ==
  ASSUME NEW argv \in Seq(Seq(STRING)), IsCarried(argv), NEW c, IsConfig(c),
         NEW new \in IssuedHere(c, argv), NEW a \in Determines(argv)
  PROVE  /\ Sets(a, Join(argv), Part(a, new))
         /\ a = "switch" => ~new.enabled
<1> DEFINE name == NameOf[argv[1]]
<1>1. new \in Handled(name, c, argv)
  BY DEF IssuedHere
<1>2. \A d : Received(d, Split(Join(argv))) = Handled(name, d, argv)
  BY ReceivedAsIssued
<1>3. CASE name = "disconnect"
  <2>1. a = "switch"
    BY <1>3 DEF Determines
  <2>2. name \in Name \ {"connect"}
    BY <1>3 DEF Name, Dispatched
  <2> HIDE DEF name
  <2>3. ASSUME NEW d, IsConfig(d), NEW other \in Handled(name, d, argv)
        PROVE  other.enabled = FALSE
    BY <1>3, <2>2, <2>3, HandledSwitch
  <2>4. new.enabled = FALSE
    BY <1>1, <2>3
  <2>5. Part(a, new) = FALSE /\ \A d : Part(a, d) = d.enabled
    BY <2>1, <2>4 DEF Part
  <2> QED
    BY <1>2, <2>3, <2>4, <2>5 DEF Sets
<1>4. CASE name # "disconnect"
  <2>1. /\ a = "config" /\ name \in {"connect", "config_set"}
        /\ Len(argv) > MaxSize + 1 /\ ~IsRejected(Tail(argv))
    BY <1>4 DEF Determines
  <2> HIDE DEF name
  <2>2. \A d : IsConfig(d) => \A other \in Handled(name, d, argv) :
                                Part("config", other) = Part("config", new)
    BY <1>1, <2>1, HandledDetermines
  <2> QED
    BY <1>2, <2>1, <2>2 DEF Sets
<1> QED
  BY <1>3, <1>4

-----------------------------------------------------------------------------
(***************************************************************************)
(* The invariant.                                                          *)
(***************************************************************************)

Payload == {Join(argv) : argv \in CommandArgs}

TypeInv ==
  /\ node = [n \in Node |-> node[n]]
  /\ \A n \in Node : IsConfig(node[n])
  /\ link \in [Node -> [Node -> Seq(Payload)]]
  /\ \A n \in Node : link[n][n] = <<>>
  /\ settled \subseteq Aspect
  /\ wanted \in BOOLEAN

SoleSender(n) == \A o \in Node \ {n}, p \in Node : link[o][p] = <<>>

\* What is on its way from n brings every other node to where n is.
Leader(a, n) ==
  /\ a = "switch" => ~node[n].enabled
  /\ \A p \in Node \ {n} : Leads(a, Part(a, node[p]), link[n][p], Part(a, node[n]))

\* The nodes should agree on the aspect; for the switch, on disabled.
Expected(a) == a \in settled /\ (a = "switch" => ~wanted)

AgreeInv ==
  \A a \in Aspect : Expected(a) => \E n \in Node : SoleSender(n) /\ Leader(a, n)

LEMMA ClusterInit == Init => TypeInv /\ AgreeInv
<1> SUFFICES ASSUME Init PROVE TypeInv /\ AgreeInv
  OBVIOUS
<1> DEFINE loaded == Loaded(LoadArgs)
<1>1. IsConfig(loaded)
  <2>1. IsConfig(DefaultConfig)
    BY DEF DefaultConfig, IsConfig, Slot
  <2>2. IsConfig(AfterSetup(DefaultConfig, LoadArgs))
    BY <2>1, AfterSetupType
  <2> QED
    BY <2>2 DEF Loaded, IsConfig
<1>2. node = [n \in Node |-> loaded] /\ wanted = loaded.enabled
  BY DEF Init
<1> HIDE DEF loaded
<1>3. link = [n \in Node |-> [p \in Node |-> <<>>]] /\ settled = Aspect
  BY DEF Init
<1>4. TypeInv
  <2>1. <<>> \in Seq(Payload)
    BY EmptySeq
  <2>2. wanted \in BOOLEAN
    BY <1>1, <1>2 DEF IsConfig
  <2> QED
    BY <1>1, <1>2, <1>3, <2>1, <2>2 DEF TypeInv
<1>5. AgreeInv
  <2> SUFFICES ASSUME NEW a \in Aspect, Expected(a)
               PROVE  \E n \in Node : SoleSender(n) /\ Leader(a, n)
    BY DEF AgreeInv
  <2>1. PICK n : n \in Node
    BY ClusterAssumption
  <2>2. a = "switch" => ~node[n].enabled
    BY <1>2, <2>1 DEF Expected
  <2>3. \A p \in Node : Leads(a, Part(a, node[p]), link[n][p], Part(a, node[n]))
    BY <1>2, <1>3, <2>1, LeadsEmpty
  <2> QED
    BY <1>3, <2>1, <2>2, <2>3 DEF SoleSender, Leader
<1> QED
  BY <1>4, <1>5

LEMMA IssueType ==
  ASSUME TypeInv, NEW n \in Node, NEW argv \in CommandArgs, Issue(n, argv)
  PROVE  TypeInv'
<1>1. PICK new \in IssuedHere(node[n], argv) : node' = [node EXCEPT ![n] = new]
  BY DEF Issue
<1>2. NameOf[argv[1]] \in Name
  BY ClusterAssumption, ConfigAssumption DEF Name
<1>3. IsConfig(new)
  BY <1>1, <1>2, HandledType DEF TypeInv, IssuedHere
<1>4. /\ node' = [m \in Node |-> node'[m]]
      /\ \A m \in Node : IsConfig(node'[m])
  BY <1>1, <1>3 DEF TypeInv
<1>5. Join(argv) \in Payload
  BY DEF Payload
<1>6. /\ link' \in [Node -> [Node -> Seq(Payload)]]
      /\ \A m \in Node : link'[m][m] = <<>>
  BY <1>5, AppendProperties DEF TypeInv, Issue, Broadcast
<1>7. settled' \subseteq Aspect /\ wanted' \in BOOLEAN
  BY DEF Issue, Record, Determines, Aspect, TypeInv
<1> QED
  BY <1>4, <1>6, <1>7 DEF TypeInv

\* Without an overlap whoever led before, the node that issues leads now.
LEMMA IssuerLeads ==
  ASSUME TypeInv, AgreeInv, NEW n \in Node, ~Overlaps(n), NEW a \in Aspect, Expected(a)
  PROVE  Leader(a, n)
<1>1. PICK m \in Node : SoleSender(m) /\ Leader(a, m)
  BY DEF AgreeInv
<1>2. CASE m = n
  BY <1>1, <1>2
<1>3. CASE m # n
  <2>1. \A p \in Node : link[m][p] = <<>> /\ link[n][p] = <<>>
    BY <1>1, <1>3 DEF SoleSender, Overlaps
  <2>2. \A p \in Node : Part(a, node[p]) = Part(a, node[m])
    BY <1>1, <2>1, LeadsEmpty DEF Leader
  <2>3. \A p \in Node : Leads(a, Part(a, node[p]), link[n][p], Part(a, node[n]))
    BY <2>1, <2>2, LeadsEmpty
  <2>4. a = "switch" => ~node[n].enabled
    BY <1>1, <2>2 DEF Leader, Part
  <2> QED
    BY <2>3, <2>4 DEF Leader
<1> QED
  BY <1>2, <1>3

LEMMA IssueAgree ==
  ASSUME TypeInv, AgreeInv, NEW n \in Node, NEW argv \in CommandArgs, Issue(n, argv)
  PROVE  AgreeInv'
<1> SUFFICES ASSUME NEW a \in Aspect, Expected(a)'
             PROVE  (\E m \in Node : SoleSender(m) /\ Leader(a, m))'
  BY DEF AgreeInv
<1>1. PICK new \in IssuedHere(node[n], argv) : node' = [node EXCEPT ![n] = new]
  BY DEF Issue
<1>2. /\ ~Overlaps(n) /\ IsCarried(argv)
      /\ a \in settled \cup Determines(argv)
      /\ a = "switch" => ~wanted'
  BY DEF Issue, Record, Expected
<1>3. SoleSender(n)'
  BY <1>2 DEF Issue, Broadcast, SoleSender, Overlaps, TypeInv
<1>4. /\ Join(argv) \in Payload
      /\ IsConfig(node[n])
      /\ argv \in Seq(Seq(STRING))
  BY ClusterAssumption DEF Payload, TypeInv
<1>5. ASSUME NEW p \in Node \ {n}
      PROVE  /\ link[n][p] \in Seq(Payload)
             /\ link'[n][p] = Append(link[n][p], Join(argv))
             /\ node'[p] = node[p]
  BY <1>1 DEF Issue, Broadcast, TypeInv
<1>6. node'[n] = new
  BY <1>1 DEF TypeInv
<1>7. CASE a \in Determines(argv)
  <2>1. Sets(a, Join(argv), Part(a, new)) /\ (a = "switch" => ~new.enabled)
    BY <1>2, <1>4, <1>7, CommandSets
  <2>2. \A p \in Node \ {n} :
          Leads(a, Part(a, node[p]), Append(link[n][p], Join(argv)), Part(a, new))
    BY <1>4, <1>5, <2>1, LeadsAnew
  <2>3. Leader(a, n)'
    BY <1>5, <1>6, <2>1, <2>2 DEF Leader
  <2> QED
    BY <1>3, <2>3
<1>8. CASE a \notin Determines(argv)
  <2>1. a = "switch" => NameOf[argv[1]] # "connect" /\ ~wanted
    BY <1>2, <1>8 DEF Issue, Record, Determines
  <2>2. Leader(a, n)
    BY <1>2, <1>8, <2>1, IssuerLeads DEF Expected
  <2>3. /\ Turns(a, Part(a, node[n]), Join(argv), Part(a, new))
        /\ a = "switch" => ~new.enabled
    BY <1>2, <1>4, <2>1, <2>2, CommandTurns DEF Leader
  <2>4. \A p \in Node \ {n} :
          Leads(a, Part(a, node[p]), Append(link[n][p], Join(argv)), Part(a, new))
    BY <1>4, <1>5, <2>2, <2>3, LeadsOn DEF Leader
  <2>5. Leader(a, n)'
    BY <1>5, <1>6, <2>3, <2>4 DEF Leader
  <2> QED
    BY <1>3, <2>5
<1> QED
  BY <1>7, <1>8

LEMMA ReceiveKeeps ==
  ASSUME TypeInv, AgreeInv, NEW n \in Node, NEW p \in Node, Receive(n, p)
  PROVE  TypeInv' /\ AgreeInv'
<1>1. PICK new \in Received(node[p], Split(Head(link[n][p]))) :
        node' = [node EXCEPT ![p] = new]
  BY DEF Receive
<1>2. /\ n # p
      /\ link[n][p] \in Seq(Payload) /\ link[n][p] # <<>>
      /\ IsConfig(node[p])
  BY DEF Receive, TypeInv
<1>3. IsConfig(new)
  BY <1>1, <1>2, ReceivedType
<1>4. TypeInv'
  <2>1. /\ node' = [m \in Node |-> node'[m]]
        /\ \A m \in Node : IsConfig(node'[m])
    BY <1>1, <1>3 DEF TypeInv
  <2>2. Tail(link[n][p]) \in Seq(Payload)
    BY <1>2, HeadTailProperties
  <2>3. /\ link' \in [Node -> [Node -> Seq(Payload)]]
        /\ \A m \in Node : link'[m][m] = <<>>
    BY <1>2, <2>2 DEF TypeInv, Receive
  <2> QED
    BY <2>1, <2>3 DEF TypeInv, Receive
<1>5. AgreeInv'
  <2> SUFFICES ASSUME NEW a \in Aspect, Expected(a)'
               PROVE  (\E m \in Node : SoleSender(m) /\ Leader(a, m))'
    BY DEF AgreeInv
  <2>1. PICK m \in Node : SoleSender(m) /\ Leader(a, m)
    BY DEF AgreeInv, Expected, Receive
  <2>2. m = n
    BY <1>2, <2>1 DEF SoleSender
  <2>3. SoleSender(n)'
    BY <2>1, <2>2 DEF SoleSender, Receive, TypeInv
  <2>4. node'[n] = node[n] /\ node'[p] = new /\ link'[n][p] = Tail(link[n][p])
    BY <1>1, <1>2 DEF TypeInv, Receive
  <2>5. Leads(a, Part(a, node[p]), link[n][p], Part(a, node[n]))
    BY <1>2, <2>1, <2>2 DEF Leader
  <2>6. Leads(a, Part(a, new), Tail(link[n][p]), Part(a, node[n]))
    BY <1>2, <2>5, LeadsAfterReceive
  <2>7. \A q \in Node \ {n, p} : node'[q] = node[q] /\ link'[n][q] = link[n][q]
    BY <1>1 DEF TypeInv, Receive
  <2>8. Leader(a, n)'
    BY <2>1, <2>2, <2>4, <2>6, <2>7 DEF Leader
  <2> QED
    BY <2>3, <2>8
<1> QED
  BY <1>4, <1>5

\* Where something was lost nothing is expected.
LEMMA FailureKeeps ==
  ASSUME TypeInv,
         \/ \E n, p \in Node : LinkFails(n, p)
         \/ \E p \in Node : NodeRestarts(p)
  PROVE  TypeInv' /\ AgreeInv'
<1>1. AgreeInv'
  BY DEF LinkFails, NodeRestarts, AgreeInv, Expected
<1>2. <<>> \in Seq(Payload)
  BY EmptySeq
<1>3. ASSUME NEW n \in Node, NEW p \in Node, LinkFails(n, p)
      PROVE  TypeInv'
  BY <1>2, <1>3 DEF LinkFails, TypeInv
<1>4. ASSUME NEW p \in Node, NodeRestarts(p)
      PROVE  TypeInv'
  <2>1. IsConfig(Loaded(LoadArgs))
    <3>1. IsConfig(DefaultConfig)
      BY DEF DefaultConfig, IsConfig, Slot
    <3>2. IsConfig(AfterSetup(DefaultConfig, LoadArgs))
      BY <3>1, AfterSetupType
    <3> QED
      BY <3>2 DEF Loaded, IsConfig
  <2>2. /\ node' = [m \in Node |-> node'[m]]
        /\ \A m \in Node : IsConfig(node'[m])
    BY <1>4, <2>1 DEF NodeRestarts, TypeInv
  <2>3. /\ link' \in [Node -> [Node -> Seq(Payload)]]
        /\ \A m \in Node : link'[m][m] = <<>>
    BY <1>2, <1>4 DEF NodeRestarts, TypeInv
  <2> QED
    BY <1>4, <2>2, <2>3 DEF NodeRestarts, TypeInv
<1> QED
  BY <1>1, <1>3, <1>4

LEMMA ClusterStep == TypeInv /\ AgreeInv /\ [Next]_vars => TypeInv' /\ AgreeInv'
<1> SUFFICES ASSUME TypeInv, AgreeInv, [Next]_vars PROVE TypeInv' /\ AgreeInv'
  OBVIOUS
<1>1. ASSUME NEW n \in Operators, NEW argv \in CommandArgs, Issue(n, argv)
      PROVE  TypeInv' /\ AgreeInv'
  <2>1. n \in Node
    BY ClusterAssumption
  <2> QED
    BY <1>1, <2>1, IssueType, IssueAgree
<1>2. ASSUME NEW n \in Node, NEW p \in Node, Receive(n, p)
      PROVE  TypeInv' /\ AgreeInv'
  BY <1>2, ReceiveKeeps
<1>3. CASE \/ \E n, p \in Node : LinkFails(n, p)
           \/ \E p \in Node : NodeRestarts(p)
  BY <1>3, FailureKeeps
<1>4. CASE UNCHANGED vars
  BY <1>4 DEF vars, TypeInv, AgreeInv, Expected, SoleSender, Leader
<1> QED
  BY <1>1, <1>2, <1>3, <1>4 DEF Next

LEMMA ClusterInvHolds == Spec => [](TypeInv /\ AgreeInv)
BY ClusterInit, ClusterStep, PTL DEF Spec

-----------------------------------------------------------------------------
(***************************************************************************)
(* Theorems.                                                               *)
(***************************************************************************)

\* When nothing is on its way every node has what the leader has.
LEMMA QuietNodesAgree ==
  ASSUME AgreeInv, Quiet, NEW a \in Aspect, Expected(a)
  PROVE  \E n \in Node : /\ a = "switch" => ~node[n].enabled
                         /\ \A p \in Node : Part(a, node[p]) = Part(a, node[n])
<1>1. PICK n \in Node : Leader(a, n)
  BY DEF AgreeInv
<1>2. \A p \in Node \ {n} : Part(a, node[p]) = Part(a, node[n])
  BY <1>1, LeadsEmpty DEF Quiet, Leader
<1> QED
  BY <1>1, <1>2 DEF Leader

\* SettledNodesAgree for any number of nodes, operators and commands: if no two nodes
\* issue commands at once and nothing is lost, or a complete set of arguments has
\* followed, all nodes end with the same settings and masks.
THEOREM SettledNodesAlwaysAgree == Spec => []SettledNodesAgree
<1>1. AgreeInv => SettledNodesAgree
  <2> SUFFICES ASSUME AgreeInv, "config" \in settled, Quiet, NEW n \in Node, NEW p \in Node
               PROVE  ConfigOf(n) = ConfigOf(p)
    BY DEF SettledNodesAgree
  <2>1. Part("config", node[n]) = Part("config", node[p])
    BY QuietNodesAgree DEF Aspect, Expected
  <2> QED
    BY <2>1 DEF Part, ConfigOf
<1> QED
  BY <1>1, ClusterInvHolds, PTL

\* DisconnectReachesAll: a disconnect that nobody missed disables every node until the
\* next connect, whatever else is issued in between.
THEOREM DisconnectAlwaysReachesAll == Spec => []DisconnectReachesAll
<1>1. AgreeInv => DisconnectReachesAll
  <2> SUFFICES ASSUME AgreeInv, "switch" \in settled, Quiet, ~wanted, NEW n \in Node
               PROVE  ~node[n].enabled
    BY DEF DisconnectReachesAll
  <2>1. PICK m \in Node : /\ ~node[m].enabled
                          /\ \A p \in Node : Part("switch", node[p]) = Part("switch", node[m])
    BY QuietNodesAgree DEF Aspect, Expected
  <2> QED
    BY <2>1 DEF Part
<1> QED
  BY <1>1, ClusterInvHolds, PTL
=============================================================================
