------------------------------- MODULE KeyMask -------------------------------
(***************************************************************************)
(* The key filter: the string array keyMaskArr of library.c and the        *)
(* commands that change it. Which keys a single mask matches is a          *)
(* parameter here.                                                         *)
(***************************************************************************)
EXTENDS Integers, Sequences, Functions

CONSTANTS
  Key,        \* key names
  Mask,       \* strings that can get into the array
  MatchedBy,  \* mask -> the keys match() accepts
  MaxMasks    \* bound: length of the array

AllMask == "ALL"
REDIS_COMMAND_KEYMASK_ADD == "key_evt_amqp.keymask_add"
REDIS_COMMAND_KEYMASK_SET == "key_evt_amqp.keymask_set"

ASSUME MaskAssumption ==
  /\ {AllMask, REDIS_COMMAND_KEYMASK_ADD, REDIS_COMMAND_KEYMASK_SET} \subseteq Mask
  /\ MatchedBy \in [Mask -> SUBSET Key]
  /\ MaxMasks \in Nat

VARIABLE keyMaskArr

\* The scan of onKeyspaceEvent: "ALL" takes every key, otherwise match() decides.
KeyIsSelected(k) ==
  \E i \in DOMAIN keyMaskArr :
    keyMaskArr[i] = AllMask \/ k \in MatchedBy[keyMaskArr[i]]

\* Mutant: "ALL" is added like any other mask.
AddMasksInTurn(arr, args) == arr \o args

\* stringArrayAdd for each argument in turn; "ALL" first empties the array and
\* ends the scan, so what precedes or follows it does not count.
AddMasks(arr, args) ==
  IF AllMask \in Range(args) THEN <<AllMask>> ELSE arr \o args

SetMasks(arr) == Len(arr) <= MaxMasks /\ keyMaskArr' = arr

KeymaskClean == SetMasks(<<>>)

\* The loop starts at argv[0], the name the command was called by.
KeymaskAdd(args) ==
  SetMasks(AddMasks(keyMaskArr, <<REDIS_COMMAND_KEYMASK_ADD>> \o args))

KeymaskSet(args) ==
  SetMasks(AddMasks(<<>>, <<REDIS_COMMAND_KEYMASK_SET>> \o args))
=============================================================================
