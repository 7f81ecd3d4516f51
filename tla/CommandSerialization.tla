------------------------- MODULE CommandSerialization -------------------------
(***************************************************************************)
(* The cluster bus carries a command as one string: utils.c joins the      *)
(* arguments with newlines and splits them at newlines again.              *)
(*                                                                         *)
(* Only newlines and emptiness matter to it, so a string is the non-empty  *)
(* sequence of its lines: "x" is <<"x">>, "" is <<"">>, "x\n" is           *)
(* <<"x", "">>.                                                            *)
(***************************************************************************)
EXTENDS Sequences, SequencesExt

\* redisArgsToSerializedString.
Join(argv) == FlattenSeq(argv)

\* Mutant: what follows the last newline is an argument even if it is empty.
SplitKeepingEmptyEnd(payload) == [i \in DOMAIN payload |-> <<payload[i]>>]

\* serializedStringToRedisArgs: an argument ends at every newline, and at the end
\* of the string if anything is left.
Split(payload) ==
  LET lines == [i \in DOMAIN payload |-> <<payload[i]>>]
  IN  IF Last(payload) = "" THEN Front(lines) ELSE lines

\* The arguments that the bus can carry.
Transportable(argv) ==
  /\ \A i \in DOMAIN argv : Len(argv[i]) = 1
  /\ Last(argv) # <<"">>
=============================================================================
