-------------------------- MODULE MCEventForwarder ---------------------------
(***************************************************************************)
(* Small instances of EventForwarder for TLC: constant values the .cfg     *)
(* files substitute.                                                       *)
(***************************************************************************)
EXTENDS EventForwarderRefinement

OneDb == {0}
TwoDbs == {0, 1}

OneTimer == {1}
TwoTimers == {1, 2}

\* One key that the mask "own" selects and one that no mask but "ALL" selects.
OneKey == {"k"}
TwoKeys == {"k", "other"}
MCMask == {AllMask, "own", REDIS_COMMAND_KEYMASK_ADD, REDIS_COMMAND_KEYMASK_SET}
MCMatchedBy == [m \in MCMask |-> IF m = "own" THEN {"k"} ELSE {}]

OwnMask == {<<"own">>}
OwnOrNoMask == {<<>>, <<"own">>}
AddedMasks == {<<"own">>, <<AllMask, "own">>}

NoArgs == {}

\* connect without arguments, and configurations that are accepted or rejected
\* before and after they touch the storage size and the masks.
Plain == [n |-> 0, deliveryMode |-> 1, size |-> 0, masks |-> <<>>]
PlainArgs == {Plain}
AllArgs == {Plain,
            [Plain EXCEPT !.n = 9, !.size = 1],
            [Plain EXCEPT !.n = 9, !.size = 1, !.masks = <<"own", AllMask>>],
            [Plain EXCEPT !.n = 9, !.deliveryMode = 3, !.masks = <<"own">>]}

Unlimited == {0}
AtMostTwo == {2}
UnlimitedOrTwo == {0, 2}
TurnedOff == {-1}

NoCommands == {}
ConnectCommands == {"connect", "disconnect"}
DisconnectOnly == {"disconnect"}
AllCommands == {"connect", "disconnect", "config_set", "fallback_storage_size_set",
                "keymask_clean", "keymask_add", "keymask_set"}
=============================================================================
