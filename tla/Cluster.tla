-------------------------------- MODULE Cluster --------------------------------
(***************************************************************************)
(* The nodes of a Redis cluster with the module on each: a command is      *)
(* sent to all other nodes and executed where it was issued, and the       *)
(* others execute what arrives.                                            *)
(*                                                                         *)
(* External: the cluster bus has one link per pair of nodes in each        *)
(* direction. It keeps the order of messages and forgets all of them when  *)
(* it breaks; nobody is told.                                              *)
(***************************************************************************)
EXTENDS ModuleConfig, CommandSerialization

CONSTANTS
  Node,
  Operators,     \* nodes whose clients issue commands
  LoadArgs,      \* arguments at load, without the event types, the same on every node
  CommandArgs,   \* argument vectors that are issued, with the name as typed
  MaxCommands,   \* bound: commands in a run
  MaxFailures    \* bound: link failures and restarts in a run

ASSUME ClusterAssumption ==
  /\ Node # {}
  /\ Operators \subseteq Node
  /\ ~IsRejected(LoadArgs)
  /\ CommandArgs \subseteq Seq(Seq(STRING))
  /\ \A argv \in CommandArgs : argv # <<>> /\ argv[1] \in DOMAIN NameOf
  /\ MaxCommands \in Nat
  /\ MaxFailures \in Nat

VARIABLES
  node,       \* node -> its configuration
  link,       \* sender -> receiver -> payloads on their way
  commands,   \* number of commands so far
  failures,   \* failures that may still happen
  settled,    \* history: what the nodes should agree on, see below
  wanted      \* history: the last command of connect and disconnect was connect

vars == <<node, link, commands, failures, settled, wanted>>

\* "config": settings and masks; "switch": whether the module is disabled.
Aspect == {"config", "switch"}

Init ==
  /\ node = [n \in Node |-> Loaded(LoadArgs)]
  /\ link = [n \in Node |-> [p \in Node |-> <<>>]]
  /\ commands = 0
  /\ failures = MaxFailures
  /\ settled = Aspect
  /\ wanted = Loaded(LoadArgs).enabled

-----------------------------------------------------------------------------
(***************************************************************************)
(* The history variables. The nodes should agree after a command that all  *)
(* of them execute in the same order with the commands before it, if they  *)
(* agreed before or if it leaves nothing of what was before.               *)
(***************************************************************************)

\* Commands of another node are on their way: the order differs between nodes.
Overlaps(n) == \E o, p \in Node : o # n /\ link[o][p] # <<>>

\* The command arrives as it was given, under a name the receiver knows.
IsCarried(argv) ==
  /\ Split(Join(argv)) = argv
  /\ \E name \in Dispatched : argv[1] = Str(name)

\* The aspects that the command determines, whatever they were before.
Determines(argv) ==
  CASE NameOf[argv[1]] = "disconnect" -> {"switch"}
    [] /\ NameOf[argv[1]] \in {"connect", "config_set"}
       /\ Len(argv) > MaxSize + 1 /\ ~IsRejected(Tail(argv)) -> {"config"}
    [] OTHER -> {}

Record(n, argv) ==
  /\ settled' = IF Overlaps(n) \/ ~IsCarried(argv) THEN {} ELSE settled \cup Determines(argv)
  /\ wanted' = CASE NameOf[argv[1]] = "connect" -> TRUE
                 [] NameOf[argv[1]] = "disconnect" -> FALSE
                 [] OTHER -> wanted

-----------------------------------------------------------------------------

\* broadcastRedisCommand: RedisModule_SendClusterMessage to all other nodes.
Broadcast(n, argv) ==
  link' = [link EXCEPT ![n] = [p \in Node |-> IF p = n THEN @[p] ELSE Append(@[p], Join(argv))]]

\* A client of node n: the *_RedisCommand functions.
Issue(n, argv) ==
  /\ commands < MaxCommands
  /\ commands' = commands + 1
  /\ Broadcast(n, argv)
  /\ \E new \in IssuedHere(node[n], argv) : node' = [node EXCEPT ![n] = new]
  /\ Record(n, argv)
  /\ UNCHANGED failures

\* clusterMessageReceiver of node p.
Receive(n, p) ==
  /\ link[n][p] # <<>>
  /\ link' = [link EXCEPT ![n][p] = Tail(@)]
  /\ \E new \in Received(node[p], Split(Head(link[n][p]))) : node' = [node EXCEPT ![p] = new]
  /\ UNCHANGED <<commands, failures, settled, wanted>>

Failure == failures > 0 /\ failures' = failures - 1

\* External: the link breaks, or a message is sent while there is none.
LinkFails(n, p) ==
  /\ Failure
  /\ link[n][p] # <<>>
  /\ link' = [link EXCEPT ![n][p] = <<>>]
  /\ settled' = {}
  /\ UNCHANGED <<node, commands, wanted>>

\* A node is restarted: RedisModule_OnLoad with the arguments of its configuration
\* file. What the commands had changed is gone, and so are its links.
NodeRestarts(p) ==
  /\ Failure
  /\ node' = [node EXCEPT ![p] = Loaded(LoadArgs)]
  /\ link' = [n \in Node |-> [q \in Node |-> IF p \in {n, q} THEN <<>> ELSE link[n][q]]]
  /\ settled' = {}
  /\ UNCHANGED <<commands, wanted>>

Next ==
  \/ \E n \in Operators, argv \in CommandArgs : Issue(n, argv)
  \/ \E n, p \in Node : Receive(n, p) \/ LinkFails(n, p)
  \/ \E p \in Node : NodeRestarts(p)

Spec == Init /\ [][Next]_vars

-----------------------------------------------------------------------------

Quiet == \A n, p \in Node : link[n][p] = <<>>

ConfigOf(n) == [setting |-> node[n].setting, masks |-> node[n].masks]

\* README, cluster mode: "you don't need to execute every command on each node".
\* Once everything has arrived all nodes have the same settings and masks, if no two
\* nodes issued commands at the same time, none was lost in a link, a restart or the
\* serialization, or if a complete set of arguments has made good for it since.
SettledNodesAgree ==
  "config" \in settled /\ Quiet => \A n, p \in Node : ConfigOf(n) = ConfigOf(p)

\* A disconnect that nobody missed disables the module on every node until the next
\* connect, whatever happened before it.
DisconnectReachesAll ==
  "switch" \in settled /\ Quiet /\ ~wanted => \A n \in Node : ~node[n].enabled

\* The sentence of the README without a condition, for instances with one operator
\* and no failures: what the operator's node executes, the others execute.
NodesAgree == Quiet => \A n, p \in Node : ConfigOf(n) = ConfigOf(p)
=============================================================================
