------------------------------- MODULE MCCluster -------------------------------
(***************************************************************************)
(* Small instances of Cluster for TLC.                                     *)
(***************************************************************************)
EXTENDS Cluster, TLC

CONSTANTS n1, n2, n3

ThreeNodes == {n1, n2, n3}
OneOperator == {n1}
Symmetry == Permutations(ThreeNodes)

\* strtol on the strings used, and a few values for each numeric variable.
MCLine == {"10.0.0.1", "10.0.0.2", "5672", "user", "pass", "20", "exchange", "routing",
           "2", "3", "0", "-1", "own", "ALL", "connect", "config_set"}
MCNumber(line) ==
  CASE line \in {"10.0.0.1", "10.0.0.2"} -> 10
    [] line = "5672" -> 5672
    [] line = "20" -> 20
    [] line = "2" -> 2
    [] line = "3" -> 3
    [] line = "-1" -> -1
    [] OTHER -> 0
MCNumberOf ==
  [s \in {Str(l) : l \in MCLine} \cup {<<"2", "0">>} |-> MCNumber(s[1])]
MCSlotSize == [i \in {2, 5, 8, 9} |-> IF i = 8 THEN 256 ELSE 65536]

MCName == {"connect", "disconnect", "config_set", "fallback_storage_size_set",
           "keymask_clean", "keymask_add", "keymask_set"}
MCNameOf == [s \in {Str(l) : l \in MCName \cup {"KEYMASK_CLEAN"}} |->
               IF s = Str("KEYMASK_CLEAN") THEN "keymask_clean" ELSE s[1]]

Command(name, args) == <<Str(name)>> \o [i \in DOMAIN args |-> Str(args[i])]

\* The nine settings, and the same with a delivery mode that is rejected.
Settings == <<"10.0.0.1", "5672", "user", "pass", "20", "exchange", "routing", "2", "0">>
WrongMode == [Settings EXCEPT ![8] = "3"]

MCLoadArgs == Tail(Command("", Settings \o <<"own">>))

MCCommandArgs ==
  {Command("connect", <<>>),
   Command("disconnect", <<>>),
   Command("config_set", Settings \o <<"ALL">>),
   Command("config_set", WrongMode \o <<"ALL">>),
   Command("config_set", <<"10.0.0.2">>),
   Command("config_set", <<"10.0.0.2">>) \o << <<"2", "0">> >>,
   Command("fallback_storage_size_set", <<"-1">>),
   Command("KEYMASK_CLEAN", <<>>),
   Command("keymask_clean", <<>>),
   Command("keymask_add", <<"own">>),
   Command("keymask_set", <<"ALL">>)}

KeymaskSetOnly == {Command("keymask_set", <<"own">>)}
=============================================================================
