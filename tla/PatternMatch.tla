----------------------------- MODULE PatternMatch -----------------------------
(***************************************************************************)
(* match and matchhere of utils.c, which decide whether a key mask selects *)
(* a key, and the language of masks they stand for. Masks and keys are     *)
(* sequences of characters; the terminating 0 is the position behind the   *)
(* last one.                                                               *)
(***************************************************************************)
EXTENDS Integers, Sequences

\* Character p of a mask is followed by a '*'.
Starred(regexp, p) == p < Len(regexp) /\ regexp[p + 1] = "*"

\* Character p of a mask accepts character q of a key.
Accepts(regexp, p, text, q) == q <= Len(text) /\ regexp[p] \in {".", text[q]}

\* The '$' that ends a mask.
EndAnchor(regexp, p) == p = Len(regexp) /\ regexp[p] = "$"

\* matchhere on regexp + p - 1 and text + q - 1. In the starred case here[p][q + 1]
\* is the next round of the do loop.
MatchHere(regexp, text) ==
  LET here[p \in 1 .. Len(regexp) + 1] ==
        [q \in 1 .. Len(text) + 1 |->
           \/ p > Len(regexp)
           \/ /\ Starred(regexp, p)
              /\ here[p + 2][q] \/ (Accepts(regexp, p, text, q) /\ here[p][q + 1])
           \/ /\ p <= Len(regexp) /\ ~Starred(regexp, p)
              /\ IF EndAnchor(regexp, p)
                   THEN q > Len(text)
                   ELSE Accepts(regexp, p, text, q) /\ here[p + 1][q + 1]]
  IN  here

\* Mutant: the empty rest of the text is not tried.
MatchNotAtEnd(regexp, text) ==
  IF regexp # <<>> /\ regexp[1] = "^"
    THEN MatchHere(Tail(regexp), text)[1][1]
    ELSE \E q \in 1 .. Len(text) : MatchHere(regexp, text)[1][q]

\* match: at the beginning after '^', anywhere - the end included - otherwise.
Match(regexp, text) ==
  IF regexp # <<>> /\ regexp[1] = "^"
    THEN MatchHere(Tail(regexp), text)[1][1]
    ELSE \E q \in 1 .. Len(text) + 1 : MatchHere(regexp, text)[1][q]

-----------------------------------------------------------------------------
(***************************************************************************)
(* The reference: a mask is a list of items, each of which takes the text  *)
(* from a set of positions to a set of positions.                          *)
(***************************************************************************)

\* The item at position p of a mask: a character and whether it is repeated.
Item(regexp, p) == [char |-> regexp[p], repeated |-> Starred(regexp, p)]

\* The items of a mask.
Items(regexp) ==
  LET from[p \in 1 .. Len(regexp) + 1] ==
        IF p > Len(regexp) THEN <<>>
        ELSE <<Item(regexp, p)>> \o from[IF Starred(regexp, p) THEN p + 2 ELSE p + 1]
  IN  from[1]

\* Where an item that begins behind one of the positions `from' can end.
ItemEnds(item, text, from) ==
  LET fits(i) == item.char \in {".", text[i]}
  IN  {r \in 0 .. Len(text) :
         \E q \in from :
           /\ q <= r
           /\ item.repeated \/ r = q + 1
           /\ \A i \in q + 1 .. r : fits(i)}

\* Where the first n items can end.
Ends(items, n, text, from) ==
  LET ends[i \in 0 .. n] == IF i = 0 THEN from ELSE ItemEnds(items[i], text, ends[i - 1])
  IN  ends[n]

\* The documented meaning of the mask language (README, key_mask).
InLanguage(regexp, text) ==
  LET atStart == regexp # <<>> /\ regexp[1] = "^"
      all     == Items(IF atStart THEN Tail(regexp) ELSE regexp)
      atEnd   == all # <<>> /\ all[Len(all)] = [char |-> "$", repeated |-> FALSE]
      from    == IF atStart THEN {0} ELSE 0 .. Len(text)
  IN  IF atEnd THEN Len(text) \in Ends(all, Len(all) - 1, text, from)
               ELSE Ends(all, Len(all), text, from) # {}
=============================================================================
