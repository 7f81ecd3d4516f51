----------------------------- MODULE ModuleConfig -----------------------------
(***************************************************************************)
(* The configuration of the module as one value, and what a command given  *)
(* as an argument vector makes of it: setupConfig with its positional      *)
(* arguments, the limit, the masks and the enabled flag.                   *)
(*                                                                         *)
(* Strings are sequences of lines as in CommandSerialization. The          *)
(* connection itself is EventForwarder's: whether an attempt to connect    *)
(* succeeds is left open here.                                             *)
(***************************************************************************)
EXTENDS Integers, Sequences, Functions

CONSTANTS
  NumberOf,   \* what strtol makes of a string
  SlotSize,   \* numeric slot -> the number of values of the variable behind it
  NameOf      \* command name as typed -> the command Redis looks up, in lower case

\* The positions of setupConfig: host, port, user, password, heartbeat, exchange,
\* routing key, delivery mode and size of the fallback storage; masks follow.
Slot == 1 .. 9
DeliveryMode == 8
MaxSize == 9

Str(line) == <<line>>
All == Str("ALL")

\* Slot i holds a copy of the string, or its number in the width of the variable.
SlotValue(i, s) ==
  IF i \in DOMAIN SlotSize THEN NumberOf[s] % SlotSize[i] ELSE s

\* The initial values and setupDefaultConfig; the port is not the one documented.
DefaultConfig ==
  [setting |-> <<Str("127.0.0.1"), 5627 % SlotSize[2], Str("guest"), Str("guest"),
                 30 % SlotSize[5], Str("amq.direct"), Str("redis_keyspace_events"),
                 1 % SlotSize[DeliveryMode], 10000000 % SlotSize[MaxSize]>>,
   masks |-> <<>>,
   enabled |-> FALSE]

\* stringArrayAdd for each of args in turn, until "ALL" replaces everything.
WithMasks(arr, args) == IF All \in Range(args) THEN <<All>> ELSE arr \o args

\* The delivery mode is checked after the cast to 8 bits.
IsRejected(args) ==
  Len(args) >= DeliveryMode /\ SlotValue(DeliveryMode, args[DeliveryMode]) > 2

\* The slots that setupConfig assigns: it stops at a wrong delivery mode.
AssignedSlots(args) ==
  {i \in Slot : i <= Len(args) /\ (IsRejected(args) => i < DeliveryMode)}

\* setupConfig: masks, when given, replace the others; a rejected call has emptied
\* the filter and changed the slots before the delivery mode.
AfterSetup(config, args) ==
  LET masks == SubSeq(args, MaxSize + 1, Len(args))
  IN  [config EXCEPT
        !.setting = [i \in Slot |-> IF i \in AssignedSlots(args) THEN SlotValue(i, args[i])
                                                                 ELSE @[i]],
        !.masks = IF masks = <<>> THEN @
                  ELSE IF IsRejected(args) THEN <<>> ELSE WithMasks(<<>>, masks)]

\* init and the end of RedisModule_OnLoad, which fails when setupConfig does.
Loaded(args) ==
  LET config == AfterSetup(DefaultConfig, args)
  IN  [config EXCEPT !.enabled = (config.masks # <<>>)]

-----------------------------------------------------------------------------
(***************************************************************************)
(* The handlers shared by clients and the cluster bus: the configurations  *)
(* that argv, its name included, can lead to.                              *)
(***************************************************************************)

\* connectAmqpCommand enables the module if the connection can be made.
AfterConnect(config, argv) ==
  LET new == AfterSetup(config, Tail(argv))
  IN  {new} \cup (IF IsRejected(Tail(argv)) THEN {} ELSE {[new EXCEPT !.enabled = TRUE]})

AfterDisconnect(config) == {[config EXCEPT !.enabled = FALSE]}

\* setupFallbackStorageSizeCommand; with another number of arguments nothing happens.
AfterSizeSet(config, argv) ==
  {IF Len(argv) = 2 THEN [config EXCEPT !.setting[MaxSize] = SlotValue(MaxSize, argv[2])]
                    ELSE config}

AfterKeymaskClean(config) == [config EXCEPT !.masks = <<>>]

\* keymaskAddCommand adds the name of the command as well.
AfterKeymaskAdd(config, argv) == [config EXCEPT !.masks = WithMasks(@, argv)]

\* The handler called for a command name, already looked up.
Handled(name, config, argv) ==
  CASE name = "connect"       -> AfterConnect(config, argv)
    [] name = "disconnect"    -> AfterDisconnect(config)
    [] name = "config_set"    -> {AfterSetup(config, Tail(argv))}
    [] name = "fallback_storage_size_set" -> AfterSizeSet(config, argv)
    [] name = "keymask_clean" -> {AfterKeymaskClean(config)}
    [] name = "keymask_add"   -> {AfterKeymaskAdd(config, argv)}
    [] name = "keymask_set"   -> {AfterKeymaskAdd(AfterKeymaskClean(config), argv)}

\* The *_RedisCommand functions: Redis finds them by name in any case.
IssuedHere(config, argv) == Handled(NameOf[argv[1]], config, argv)

\* The names clusterMessageReceiver compares argv[0] with: keymask_add twice and
\* keymask_set never.
Dispatched == {"connect", "disconnect", "config_set", "fallback_storage_size_set",
               "keymask_clean", "keymask_add"}

ASSUME ConfigAssumption ==
  /\ DOMAIN SlotSize = {2, 5, DeliveryMode, MaxSize}
  /\ \A i \in DOMAIN SlotSize : SlotSize[i] \in Nat \ {0}
  /\ \A name \in Dispatched : NameOf[Str(name)] = name
  /\ \A s \in DOMAIN NameOf : NameOf[s] \in Dispatched \cup {"keymask_set"}

\* Mutant: the receiver's setupConfig does not skip the name.
ReceivedWithName(config, argv) ==
  IF argv[1] = Str("config_set") THEN {AfterSetup(config, argv)}
  ELSE IF \E name \in Dispatched : argv[1] = Str(name)
         THEN Handled(argv[1][1], config, argv)
         ELSE {config}

\* Mutant: the receiver has no branch for disconnect.
ReceivedWithoutDisconnect(config, argv) ==
  IF \E name \in Dispatched \ {"disconnect"} : argv[1] = Str(name)
    THEN Handled(argv[1][1], config, argv)
    ELSE {config}

\* clusterMessageReceiver: names are compared as they are.
Received(config, argv) ==
  IF \E name \in Dispatched : argv[1] = Str(name)
    THEN Handled(argv[1][1], config, argv)
    ELSE {config}
=============================================================================
