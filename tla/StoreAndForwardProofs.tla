------------------------- MODULE StoreAndForwardProofs -------------------------
(***************************************************************************)
(* Every event is kept or sent at most once, for all databases and any     *)
(* number of events and failures.                                          *)
(***************************************************************************)
EXTENDS StoreAndForward, SequenceTheorems, FiniteSets, FiniteSetTheorems, TLAPS

TypeInv ==
  /\ NoMessage \notin Event
  /\ occurred \in Nat
  /\ limited \in BOOLEAN
  /\ fresh \in Event \cup {NoMessage}
  /\ backlog \in [DB -> Seq(Event)]
  /\ wire \in Seq(Event)
  /\ delivered \in Seq(Event)

\* The number of a fresh event is the latest, and no other event has it yet; a list
\* holds events of its own database, so no two lists share one.
Numbered ==
  /\ \A m \in Kept \cup Range(Sent) : m.id <= (IF fresh = NoMessage THEN occurred ELSE occurred - 1)
  /\ fresh # NoMessage => fresh.id = occurred
  /\ \A d \in DB : \A i \in DOMAIN backlog[d] : backlog[d][i].db = d

Inv == TypeInv /\ Numbered /\ AtMostOnce

-----------------------------------------------------------------------------
(***************************************************************************)
(* Lists without repetition.                                               *)
(***************************************************************************)

\* A list that agrees with an injective one as far as it goes is injective.
LEMMA PrefixOfInjective ==
  ASSUME NEW S, NEW s \in Seq(S), NEW t \in Seq(S), IsInjective(s), Len(t) <= Len(s),
         \A i \in 1 .. Len(t) : t[i] = s[i]
  PROVE  IsInjective(t) /\ Range(t) \subseteq Range(s)
BY LenProperties DEF IsInjective, Range

\* It has no other elements.
LEMMA PrefixRange ==
  ASSUME NEW S, NEW s \in Seq(S), NEW t \in Seq(S), Len(t) <= Len(s),
         \A i \in 1 .. Len(t) : t[i] = s[i]
  PROVE  Range(t) \subseteq Range(s)
BY LenProperties DEF Range

\* An element more at the end.
LEMMA AppendRange ==
  ASSUME NEW S, NEW s \in Seq(S), NEW e \in S
  PROVE  Range(Append(s, e)) = Range(s) \cup {e}
<1>1. /\ Len(Append(s, e)) = Len(s) + 1
      /\ \A i \in 1 .. Len(s) : Append(s, e)[i] = s[i]
      /\ Append(s, e)[Len(s) + 1] = e
      /\ Len(s) \in Nat
      /\ Append(s, e) \in Seq(S)
  BY AppendProperties, LenProperties
<1>2. DOMAIN s = 1 .. Len(s) /\ DOMAIN Append(s, e) = 1 .. Len(s) + 1
  BY <1>1, LenProperties
<1> QED
  BY <1>1, <1>2 DEF Range

\* The tail of an injective list is injective, and the head is not in it.
LEMMA TailOfInjective ==
  ASSUME NEW S, NEW s \in Seq(S), IsInjective(s), s # <<>>
  PROVE  /\ Tail(s) \in Seq(S) /\ Head(s) \in S
         /\ IsInjective(Tail(s))
         /\ Range(Tail(s)) = Range(s) \ {Head(s)}
         /\ Head(s) \in Range(s)
<1>1. /\ Head(s) = s[1] /\ Head(s) \in S
      /\ Tail(s) \in Seq(S)
      /\ Len(Tail(s)) = Len(s) - 1
      /\ \A i \in 1 .. Len(Tail(s)) : Tail(s)[i] = s[i + 1]
      /\ Len(s) \in Nat \ {0}
  BY HeadTailProperties, LenProperties, EmptySeq
<1>2. DOMAIN s = 1 .. Len(s) /\ DOMAIN Tail(s) = 1 .. Len(s) - 1
  BY <1>1, LenProperties
<1>3. IsInjective(Tail(s))
  BY <1>1, <1>2 DEF IsInjective
<1>4. Range(Tail(s)) \subseteq Range(s) \ {Head(s)}
  BY <1>1, <1>2 DEF IsInjective, Range
<1>5. Range(s) \ {Head(s)} \subseteq Range(Tail(s))
  <2> SUFFICES ASSUME NEW i \in 1 .. Len(s), s[i] # s[1] PROVE s[i] \in Range(Tail(s))
    BY <1>1, <1>2 DEF Range
  <2>1. i - 1 \in 1 .. Len(s) - 1 /\ Tail(s)[i - 1] = s[i]
    BY <1>1
  <2> QED
    BY <2>1, <1>2 DEF Range
<1> QED
  BY <1>1, <1>2, <1>3, <1>4, <1>5 DEF Range

\* A new element at the end keeps a list injective.
LEMMA AppendToInjective ==
  ASSUME NEW S, NEW s \in Seq(S), NEW e \in S, IsInjective(s), e \notin Range(s)
  PROVE  /\ Append(s, e) \in Seq(S)
         /\ IsInjective(Append(s, e))
         /\ Range(Append(s, e)) = Range(s) \cup {e}
<1>1. /\ Append(s, e) \in Seq(S)
      /\ Len(Append(s, e)) = Len(s) + 1
      /\ \A i \in 1 .. Len(s) : Append(s, e)[i] = s[i]
      /\ Append(s, e)[Len(s) + 1] = e
      /\ Len(s) \in Nat
  BY AppendProperties, LenProperties
<1>2. DOMAIN s = 1 .. Len(s) /\ DOMAIN Append(s, e) = 1 .. Len(s) + 1
  BY <1>1, LenProperties
<1>3. \A i \in 1 .. Len(s) : s[i] # e
  BY <1>2 DEF Range
<1>4. IsInjective(Append(s, e))
  <2> SUFFICES ASSUME NEW i \in 1 .. Len(s) + 1, NEW j \in 1 .. Len(s) + 1,
                      Append(s, e)[i] = Append(s, e)[j]
               PROVE  i = j
    BY <1>2 DEF IsInjective
  <2>1. CASE i \in 1 .. Len(s) /\ j \in 1 .. Len(s)
    BY <2>1, <1>1, <1>2 DEF IsInjective
  <2>2. CASE i = Len(s) + 1 \/ j = Len(s) + 1
    BY <2>2, <1>1, <1>3
  <2> QED
    BY <2>1, <2>2, <1>1
<1> QED
  BY <1>1, <1>4, AppendRange

-----------------------------------------------------------------------------
(***************************************************************************)
(* What the sub-actions do to the events sent.                             *)
(***************************************************************************)

LEMMA SentType == TypeInv => Sent \in Seq(Event)
BY ConcatProperties DEF TypeInv, Sent

LEMMA SentTypeNext == TypeInv' => Sent' \in Seq(Event)
BY ConcatProperties DEF TypeInv, Sent

\* A list is its head and its tail.
LEMMA HeadThenTail ==
  ASSUME NEW S, NEW s \in Seq(S), s # <<>>
  PROVE  <<Head(s)>> \o Tail(s) = s
<1>1. /\ Head(s) \in S /\ Head(s) = s[1]
      /\ Tail(s) \in Seq(S)
      /\ Len(Tail(s)) = Len(s) - 1
      /\ \A i \in 1 .. Len(Tail(s)) : Tail(s)[i] = s[i + 1]
  BY HeadTailProperties
<1>2. <<Head(s)>> \in Seq(S) /\ Len(<<Head(s)>>) = 1
  BY <1>1
<1>3. /\ <<Head(s)>> \o Tail(s) \in Seq(S)
      /\ Len(<<Head(s)>> \o Tail(s)) = Len(s)
      /\ \A i \in 1 .. Len(s) :
           (<<Head(s)>> \o Tail(s))[i] = IF i <= 1 THEN <<Head(s)>>[i] ELSE Tail(s)[i - 1]
  BY <1>1, <1>2, LenProperties, ConcatProperties
<1>4. \A i \in 1 .. Len(s) : (<<Head(s)>> \o Tail(s))[i] = s[i]
  BY <1>1, <1>3, LenProperties
<1> QED
  BY <1>3, <1>4, SeqEqual

\* Arrival moves an event within Sent and changes nothing.
LEMMA ArriveKeepsSent ==
  ASSUME TypeInv, Arrive
  PROVE  /\ Sent' = Sent
         /\ wire' \in Seq(Event) /\ delivered' \in Seq(Event)
<1>1. /\ Head(wire) \in Event /\ <<Head(wire)>> \in Seq(Event)
      /\ wire' = Tail(wire) /\ wire' \in Seq(Event)
  BY HeadTailProperties DEF TypeInv, Arrive
<1>2. delivered' = delivered \o <<Head(wire)>> /\ delivered' \in Seq(Event)
  BY <1>1, AppendProperties, AppendIsConcat DEF TypeInv, Arrive
<1>3. Sent' = delivered \o (<<Head(wire)>> \o Tail(wire))
  BY <1>1, <1>2, ConcatAssociative DEF TypeInv, Sent
<1> QED
  BY <1>1, <1>2, <1>3, HeadThenTail DEF TypeInv, Arrive, Sent

\* A break leaves a prefix of Sent.
LEMMA WireBreaksSent ==
  ASSUME TypeInv, WireBreaks
  PROVE  /\ wire' \in Seq(Event) /\ delivered' \in Seq(Event)
         /\ Len(Sent') <= Len(Sent)
         /\ \A i \in 1 .. Len(Sent') : Sent'[i] = Sent[i]
<1>1. PICK k \in 0 .. Len(wire) : delivered' = delivered \o SubSeq(wire, 1, k)
  BY DEF WireBreaks
<1>2. Len(wire) \in Nat /\ Len(delivered) \in Nat
  BY LenProperties DEF TypeInv
<1>3. /\ SubSeq(wire, 1, k) \in Seq(Event)
      /\ Len(SubSeq(wire, 1, k)) = k
      /\ \A i \in 1 .. k : SubSeq(wire, 1, k)[i] = wire[i]
  <2>1. \A i \in 1 .. k : wire[i] \in Event
    BY <1>2, LenProperties DEF TypeInv
  <2> QED
    BY <2>1, <1>2, SubSeqProperties
<1>4. /\ delivered' \in Seq(Event) /\ Len(delivered') = Len(delivered) + k
      /\ \A i \in 1 .. Len(delivered) + k :
           delivered'[i] = IF i <= Len(delivered) THEN delivered[i] ELSE wire[i - Len(delivered)]
  BY <1>1, <1>2, <1>3, ConcatProperties DEF TypeInv
<1>5. wire' = <<>> /\ wire' \in Seq(Event) /\ Len(wire') = 0
  BY EmptySeq, LenProperties DEF WireBreaks
<1>6. Sent' = delivered'
  BY <1>4, <1>5, ConcatEmptySeq DEF Sent
<1>7. /\ Len(Sent) = Len(delivered) + Len(wire)
      /\ \A i \in 1 .. Len(delivered) + Len(wire) :
           Sent[i] = IF i <= Len(delivered) THEN delivered[i] ELSE wire[i - Len(delivered)]
  BY ConcatProperties DEF TypeInv, Sent
<1>8. Len(Sent') = Len(delivered) + k /\ Len(Sent') <= Len(Sent)
  <2>1. Len(Sent') = Len(delivered) + k
    BY <1>4, <1>6
  <2>2. Len(Sent) = Len(delivered) + Len(wire)
    BY <1>7
  <2> QED
    BY <2>1, <2>2, <1>2
<1>9. ASSUME NEW i \in 1 .. Len(Sent') PROVE Sent'[i] = Sent[i]
  <2>1. i \in 1 .. Len(delivered) + k /\ i \in 1 .. Len(delivered) + Len(wire)
    BY <1>2, <1>8
  <2>2. delivered'[i] = IF i <= Len(delivered) THEN delivered[i] ELSE wire[i - Len(delivered)]
    BY <1>4, <2>1
  <2>3. Sent[i] = IF i <= Len(delivered) THEN delivered[i] ELSE wire[i - Len(delivered)]
    BY <1>7, <2>1
  <2>4. Sent'[i] = delivered'[i]
    BY <1>6
  <2> QED
    BY <2>2, <2>3, <2>4
<1> QED
  BY <1>4, <1>5, <1>8, <1>9

\* Sending an event adds it to Sent, or changes nothing.
LEMMA SendAppends ==
  ASSUME TypeInv, NEW m \in Event, Send(m)
  PROVE  /\ wire' \in Seq(Event) /\ delivered' \in Seq(Event)
         /\ Sent' = Sent \/ Sent' = Append(Sent, m)
<1>1. CASE wire' = wire
  BY <1>1 DEF Send, Sent, TypeInv
<1>2. CASE wire' = Append(wire, m)
  <2>1. wire' \in Seq(Event) /\ delivered' = delivered
    BY <1>2, AppendProperties DEF Send, TypeInv
  <2>2. Sent' = Append(Sent, m)
    BY <1>2, <2>1, AppendIsConcat, ConcatAssociative DEF Sent, TypeInv
  <2> QED
    BY <2>1, <2>2 DEF TypeInv
<1> QED
  BY <1>1, <1>2 DEF Send

\* An event that was never sent is not sent twice.
LEMMA SendSent ==
  ASSUME TypeInv, NEW m \in Event, Send(m), IsInjective(Sent), m \notin Range(Sent)
  PROVE  /\ wire' \in Seq(Event) /\ delivered' \in Seq(Event)
         /\ IsInjective(Sent')
         /\ Range(Sent') \subseteq Range(Sent) \cup {m}
<1>1. CASE Sent' = Sent
  BY <1>1, SendAppends
<1>2. CASE Sent' = Append(Sent, m)
  BY <1>2, SendAppends, SentType, AppendToInjective, Zenon
<1> QED
  BY <1>1, <1>2, SendAppends

-----------------------------------------------------------------------------
(***************************************************************************)
(* The invariant.                                                          *)
(***************************************************************************)

LEMMA InvInit == NoMessage \notin Event /\ Init => Inv
<1> SUFFICES ASSUME NoMessage \notin Event, Init PROVE Inv
  OBVIOUS
<1>1. TypeInv
  BY EmptySeq DEF Init, TypeInv
<1>2. Kept = {} /\ Sent = <<>>
  BY ConcatEmptySeq, EmptySeq DEF Init, Kept, Sent, Range
<1> QED
  BY <1>1, <1>2 DEF Init, Inv, Numbered, AtMostOnce, IsInjective, Range

\* A step that adds nothing to the events kept and only takes from those sent keeps
\* everything, as long as the fresh event stays.
LEMMA SentShrinks ==
  ASSUME Inv, TypeInv', UNCHANGED <<occurred, fresh, backlog>>,
         Len(Sent') <= Len(Sent), \A i \in 1 .. Len(Sent') : Sent'[i] = Sent[i]
  PROVE  Inv'
<1>1. Sent \in Seq(Event) /\ Sent' \in Seq(Event)
  BY SentType, ConcatProperties DEF Inv, TypeInv, Sent
<1>2. IsInjective(Sent') /\ Range(Sent') \subseteq Range(Sent)
  BY <1>1, PrefixOfInjective DEF Inv, AtMostOnce
<1>3. Kept' = Kept
  BY DEF Kept
<1>4. AtMostOnce'
  BY <1>2, <1>3 DEF Inv, AtMostOnce
<1>5. Numbered'
  BY <1>2, <1>3 DEF Inv, Numbered
<1> QED
  BY <1>4, <1>5 DEF Inv

LEMMA EventsSoFar == TypeInv => Kept \cup Range(Sent) \subseteq Event
BY SentType, RangeOfSeq DEF TypeInv, Kept

\* No number is later than the latest.
LEMMA NumbersSoFar ==
  ASSUME TypeInv, Numbered
  PROVE  \A m \in Kept \cup Range(Sent) : m.id \in Nat /\ m.id <= occurred
<1> TAKE m \in Kept \cup Range(Sent)
<1>1. m.id \in Nat
  BY EventsSoFar DEF Event
<1>2. m.id <= occurred \/ m.id <= occurred - 1
  BY DEF Numbered
<1>3. occurred \in Nat
  BY DEF TypeInv
<1> QED
  BY <1>1, <1>2, <1>3

LEMMA OccurStep ==
  ASSUME Inv, NEW d \in DB, Occur(d)
  PROVE  Inv'
<1>1. TypeInv'
  <2>1. occurred' \in Nat /\ fresh' \in Event
    BY DEF Inv, TypeInv, Occur, Event
  <2> QED
    BY <2>1 DEF Inv, TypeInv, Occur
<1>2. Kept' = Kept /\ Sent' = Sent
  BY DEF Occur, Kept, Sent
<1>3. fresh' # NoMessage
  BY <1>1 DEF Inv, TypeInv, Occur, Event
<1>4. Numbered'
  BY <1>2, <1>3 DEF Inv, TypeInv, Numbered, Occur
<1>5. fresh' \notin Kept \cup Range(Sent)
  BY <1>2 DEF Inv, TypeInv, Numbered, Occur
<1>6. AtMostOnce'
  BY <1>2, <1>5 DEF Inv, AtMostOnce, Occur
<1> QED
  BY <1>1, <1>4, <1>6 DEF Inv

LEMMA SendFreshStep ==
  ASSUME Inv, SendFresh
  PROVE  Inv'
<1>1. fresh \in Event /\ fresh \notin Range(Sent) /\ fresh \notin Kept
  BY DEF Inv, TypeInv, AtMostOnce, SendFresh
<1>2. /\ wire' \in Seq(Event) /\ delivered' \in Seq(Event)
      /\ IsInjective(Sent')
      /\ Range(Sent') \subseteq Range(Sent) \cup {fresh}
  BY <1>1, SendSent DEF Inv, AtMostOnce, SendFresh
<1>3. TypeInv'
  BY <1>2 DEF Inv, TypeInv, SendFresh
<1>4. Kept' = Kept
  BY DEF SendFresh, Kept
<1>5. \A m \in Kept \cup Range(Sent) : m.id <= occurred
  BY NumbersSoFar DEF Inv, SendFresh
<1>6. NoMessage \notin Kept' \cup Range(Sent')
  <2>1. Range(Sent') \subseteq Event
    BY <1>2, RangeOfSeq, ConcatProperties DEF Sent
  <2>2. Kept \subseteq Event
    BY EventsSoFar DEF Inv
  <2> QED
    BY <2>1, <2>2, <1>4 DEF Inv, TypeInv
<1>7. Numbered'
  BY <1>1, <1>2, <1>4, <1>5 DEF Inv, TypeInv, Numbered, SendFresh
<1>8. AtMostOnce'
  BY <1>1, <1>2, <1>4, <1>6 DEF Inv, AtMostOnce, SendFresh
<1> QED
  BY <1>3, <1>7, <1>8 DEF Inv

\* The oldest event of a list leaves the events kept for those sent; the lists of
\* the other databases hold other events.
LEMMA SendOldestStep ==
  ASSUME Inv, NEW d \in DB, SendOldest(d)
  PROVE  Inv'
<1> DEFINE m == Head(backlog[d])
<1>1. backlog[d] \in Seq(Event) /\ backlog[d] # <<>> /\ IsInjective(backlog[d])
  BY DEF Inv, TypeInv, AtMostOnce, SendOldest
<1>2. /\ Tail(backlog[d]) \in Seq(Event) /\ m \in Event
      /\ IsInjective(Tail(backlog[d]))
      /\ Range(Tail(backlog[d])) = Range(backlog[d]) \ {m}
      /\ m \in Range(backlog[d])
  BY <1>1, TailOfInjective, Zenon
<1>3. m \in Kept /\ m \notin Range(Sent)
  BY <1>2 DEF Inv, AtMostOnce, Kept
<1>4. /\ wire' \in Seq(Event) /\ delivered' \in Seq(Event)
      /\ IsInjective(Sent')
      /\ Range(Sent') \subseteq Range(Sent) \cup {m}
  BY <1>2, <1>3, SendSent DEF Inv, AtMostOnce, SendOldest
<1>5. backlog' = [backlog EXCEPT ![d] = Tail(@)] /\ UNCHANGED <<occurred, limited, fresh>>
  BY DEF SendOldest
<1>6. TypeInv'
  BY <1>2, <1>4, <1>5 DEF Inv, TypeInv
<1>7. \A e \in DB \ {d} : m \notin Range(backlog[e])
  <2> SUFFICES ASSUME NEW e \in DB \ {d}, m \in Range(backlog[e]) PROVE FALSE
    OBVIOUS
  <2>1. m.db = e /\ m.db = d
    BY <1>2 DEF Inv, Numbered, Range
  <2> QED
    BY <2>1
<1>8. Kept' \subseteq Kept \ {m}
  BY <1>2, <1>5, <1>7 DEF Kept, Inv, TypeInv
<1>9. Numbered'
  <2>1. \A i \in DOMAIN Tail(backlog[d]) : Tail(backlog[d])[i].db = d
    <3>1. \A x \in Range(backlog[d]) : x.db = d
      BY DEF Inv, Numbered, Range
    <3> QED
      BY <3>1, <1>2 DEF Range
  <2>2. \A e \in DB : \A i \in DOMAIN backlog'[e] : backlog'[e][i].db = e
    BY <2>1, <1>5 DEF Inv, TypeInv, Numbered
  <2> QED
    BY <2>2, <1>3, <1>4, <1>5, <1>8 DEF Inv, Numbered
<1>10. AtMostOnce'
  <2>1. \A e \in DB : IsInjective(backlog'[e])
    BY <1>2, <1>5 DEF Inv, TypeInv, AtMostOnce
  <2> QED
    BY <2>1, <1>3, <1>4, <1>5, <1>8 DEF Inv, AtMostOnce
<1> QED
  BY <1>6, <1>9, <1>10 DEF Inv

\* The fresh event joins its list, from which the oldest may have been dropped.
LEMMA KeepFreshStep ==
  ASSUME Inv, KeepFresh
  PROVE  Inv'
<1> DEFINE d == fresh.db
<1>1. fresh \in Event /\ d \in DB /\ fresh \notin Kept /\ fresh \notin Range(Sent)
  BY DEF Inv, TypeInv, AtMostOnce, KeepFresh, Event
<1>2. backlog[d] \in Seq(Event) /\ IsInjective(backlog[d])
  BY <1>1 DEF Inv, TypeInv, AtMostOnce
<1>3. PICK kept : /\ kept = backlog[d] \/ (backlog[d] # <<>> /\ kept = Tail(backlog[d]))
                  /\ backlog' = [backlog EXCEPT ![d] = Append(kept, fresh)]
  BY DEF KeepFresh
<1>4. kept \in Seq(Event) /\ IsInjective(kept) /\ Range(kept) \subseteq Range(backlog[d])
  <2>1. CASE kept = backlog[d]
    BY <2>1, <1>2
  <2>2. CASE backlog[d] # <<>> /\ kept = Tail(backlog[d])
    BY <2>2, <1>2, TailOfInjective
  <2> QED
    BY <2>1, <2>2, <1>3
<1>5. fresh \notin Range(kept)
  BY <1>1, <1>4 DEF Kept
<1>6. /\ Append(kept, fresh) \in Seq(Event)
      /\ IsInjective(Append(kept, fresh))
      /\ Range(Append(kept, fresh)) = Range(kept) \cup {fresh}
  BY <1>1, <1>4, <1>5, AppendToInjective, Zenon
<1>7. /\ wire' \in Seq(Event) /\ delivered' \in Seq(Event)
      /\ Sent \in Seq(Event) /\ Sent' \in Seq(Event)
      /\ Len(Sent') <= Len(Sent)
      /\ \A i \in 1 .. Len(Sent') : Sent'[i] = Sent[i]
  <2>1. CASE WireBreaks
    BY <2>1, WireBreaksSent, SentType, ConcatProperties DEF Inv, Sent
  <2>2. CASE UNCHANGED <<wire, delivered>>
    BY <2>2, SentType, LenProperties DEF Inv, TypeInv, Sent
  <2> QED
    BY <2>1, <2>2 DEF KeepFresh
<1>8. IsInjective(Sent') /\ Range(Sent') \subseteq Range(Sent)
  BY <1>7, PrefixOfInjective DEF Inv, AtMostOnce
<1>9. fresh' = NoMessage /\ UNCHANGED <<occurred, limited>> /\ fresh # NoMessage
  BY DEF KeepFresh
<1>10. TypeInv'
  BY <1>1, <1>3, <1>6, <1>7, <1>9 DEF Inv, TypeInv
<1>11. Kept' \subseteq Kept \cup {fresh}
  BY <1>1, <1>3, <1>4, <1>6 DEF Kept, Inv, TypeInv
<1>12. Numbered'
  <2>1. \A e \in DB : \A i \in DOMAIN backlog'[e] : backlog'[e][i].db = e
    <3>0. \A x \in Range(backlog[d]) : x.db = d
      BY <1>1 DEF Inv, Numbered, Range
    <3>1. \A x \in Range(Append(kept, fresh)) : x.db = d
      BY <3>0, <1>4, <1>6
    <3>2. \A i \in DOMAIN Append(kept, fresh) : Append(kept, fresh)[i].db = d
      BY <3>1 DEF Range
    <3> QED
      BY <3>2, <1>1, <1>3 DEF Inv, TypeInv, Numbered
  <2>2. \A m \in Kept \cup Range(Sent) : m \in Event /\ m.id <= occurred
    BY NumbersSoFar, EventsSoFar, <1>9 DEF Inv
  <2>3. fresh.id <= occurred
    BY <1>9 DEF Inv, TypeInv, Numbered
  <2> QED
    BY <2>1, <2>2, <2>3, <1>8, <1>9, <1>11 DEF Numbered
<1>13. AtMostOnce'
  <2>1. \A e \in DB : IsInjective(backlog'[e])
    BY <1>1, <1>3, <1>6 DEF Inv, TypeInv, AtMostOnce
  <2>2. NoMessage \notin Kept' \cup Range(Sent')
    <3>1. Range(Sent') \subseteq Event
      BY <1>7, RangeOfSeq
    <3>2. Kept' \subseteq Event
      BY <1>10, RangeOfSeq DEF TypeInv, Kept
    <3> QED
      BY <3>1, <3>2 DEF Inv, TypeInv
  <2> QED
    BY <2>1, <2>2, <1>1, <1>8, <1>9, <1>11 DEF Inv, AtMostOnce
<1> QED
  BY <1>10, <1>12, <1>13 DEF Inv

LEMMA InvStep == Inv /\ [Next]_vars => Inv'
<1> SUFFICES ASSUME Inv, [Next]_vars PROVE Inv'
  OBVIOUS
<1>1. ASSUME NEW d \in DB, Occur(d) PROVE Inv'
  BY <1>1, OccurStep
<1>2. ASSUME NEW d \in DB, SendOldest(d) PROVE Inv'
  BY <1>2, SendOldestStep
<1>3. CASE SendFresh
  BY <1>3, SendFreshStep
<1>4. CASE KeepFresh
  BY <1>4, KeepFreshStep
<1>5. CASE Arrive
  <2>1. TypeInv'
    BY <1>5, ArriveKeepsSent DEF Inv, TypeInv, Arrive
  <2> QED
    BY <2>1, <1>5, ArriveKeepsSent, SentType, LenProperties, SentShrinks DEF Inv, Arrive
<1>6. CASE Break
  <2>1. TypeInv'
    BY <1>6, WireBreaksSent DEF Inv, TypeInv, Break
  <2> QED
    BY <2>1, <1>6, WireBreaksSent, SentShrinks DEF Inv, Break
<1>7. CASE SetLimit
  <2>1. TypeInv' /\ Sent' = Sent
    BY <1>7 DEF Inv, TypeInv, SetLimit, Sent
  <2> QED
    BY <2>1, <1>7, SentType, LenProperties, SentShrinks DEF Inv, SetLimit
<1>8. CASE UNCHANGED vars
  <2>1. TypeInv' /\ Sent' = Sent
    BY <1>8 DEF Inv, TypeInv, vars, Sent
  <2> QED
    BY <2>1, <1>8, SentType, LenProperties, SentShrinks DEF Inv, vars
<1> QED
  BY <1>1, <1>2, <1>3, <1>4, <1>5, <1>6, <1>7, <1>8 DEF Next

\* AtMostOnce for every number of databases, events and failures.
THEOREM AlwaysAtMostOnce == NoMessage \notin Event /\ Spec => []AtMostOnce
<1>1. Inv => AtMostOnce
  BY DEF Inv
<1> QED
  BY <1>1, InvInit, InvStep, PTL DEF Spec

-----------------------------------------------------------------------------
(***************************************************************************)
(* How many copies of an event there are, when the backlog may once have   *)
(* been put back to an earlier one. AtMostOnce does not hold then.         *)
(***************************************************************************)

SentAt(n) == {i \in DOMAIN Sent : Sent[i].id = n}
IsKept(n) == \E m \in Kept : m.id = n
IsFresh(n) == fresh # NoMessage /\ fresh.id = n

KeptCount(n) == IF IsKept(n) THEN 1 ELSE 0
FreshCount(n) == IF IsFresh(n) THEN 1 ELSE 0

Copies(n) == Cardinality(SentAt(n)) + KeptCount(n) + FreshCount(n)

\* A number stands in one place of one list.
EachOnceIn(lists) ==
  \A d, e \in DB : \A i \in DOMAIN lists[d], j \in DOMAIN lists[e] :
    lists[d][i].id = lists[e][j].id => d = e /\ i = j

\* What a put back leaves of Inv.
OnceInv ==
  /\ TypeInv
  /\ EachOnceIn(backlog)
  /\ \A m \in Kept \cup Range(Sent) : m.id <= occurred
  /\ fresh # NoMessage => fresh.id = occurred /\ ~IsKept(occurred)

LEMMA TypeInvStep == TypeInv /\ [Next]_vars => TypeInv'
<1> SUFFICES ASSUME TypeInv, [Next]_vars PROVE TypeInv'
  OBVIOUS
<1>1. ASSUME NEW d \in DB, Occur(d) PROVE TypeInv'
  <2>1. occurred' \in Nat /\ fresh' \in Event
    BY <1>1 DEF TypeInv, Occur, Event
  <2> QED
    BY <1>1, <2>1 DEF TypeInv, Occur
<1>2. ASSUME NEW d \in DB, SendOldest(d) PROVE TypeInv'
  <2>1. Head(backlog[d]) \in Event /\ Tail(backlog[d]) \in Seq(Event)
    BY <1>2, HeadTailProperties DEF TypeInv, SendOldest
  <2> QED
    BY <1>2, <2>1, SendAppends DEF TypeInv, SendOldest
<1>3. CASE SendFresh
  <2>1. fresh \in Event
    BY <1>3 DEF TypeInv, SendFresh
  <2> QED
    BY <1>3, <2>1, SendAppends DEF TypeInv, SendFresh
<1>4. CASE KeepFresh
  <2>1. wire' \in Seq(Event) /\ delivered' \in Seq(Event)
    BY <1>4, WireBreaksSent DEF TypeInv, KeepFresh
  <2>2. fresh \in Event /\ backlog[fresh.db] \in Seq(Event)
    BY <1>4 DEF TypeInv, KeepFresh, Event
  <2>3. PICK kept \in Seq(Event) : backlog' = [backlog EXCEPT ![fresh.db] = Append(kept, fresh)]
    BY <1>4, <2>2, HeadTailProperties DEF KeepFresh
  <2>4. Append(kept, fresh) \in Seq(Event)
    BY <2>2, AppendProperties
  <2> QED
    BY <1>4, <2>1, <2>3, <2>4 DEF TypeInv, KeepFresh
<1>5. CASE Arrive
  BY <1>5, ArriveKeepsSent DEF TypeInv, Arrive
<1>6. CASE Break
  BY <1>6, WireBreaksSent DEF TypeInv, Break
<1>7. CASE SetLimit \/ UNCHANGED vars
  BY <1>7 DEF TypeInv, SetLimit, vars
<1> QED
  BY <1>1, <1>2, <1>3, <1>4, <1>5, <1>6, <1>7 DEF Next

LEMMA PositionsFinite ==
  ASSUME NEW s \in Seq(Event), NEW n
  PROVE  /\ IsFiniteSet({i \in DOMAIN s : s[i].id = n})
         /\ Cardinality({i \in DOMAIN s : s[i].id = n}) \in Nat
<1>1. DOMAIN s = 1 .. Len(s) /\ Len(s) \in Nat
  BY LenProperties
<1>2. IsFiniteSet(1 .. Len(s))
  BY <1>1, FS_Interval
<1>3. {i \in DOMAIN s : s[i].id = n} \in SUBSET (1 .. Len(s))
  BY <1>1
<1> QED
  BY <1>2, <1>3, FS_Subset, FS_CardinalityType

LEMMA CopiesType ==
  ASSUME TypeInv, NEW n
  PROVE  IsFiniteSet(SentAt(n)) /\ Cardinality(SentAt(n)) \in Nat
BY SentType, PositionsFinite DEF SentAt

LEMMA CopiesTypeNext ==
  ASSUME TypeInv', NEW n
  PROVE  IsFiniteSet(SentAt(n)') /\ Cardinality(SentAt(n)') \in Nat
BY SentTypeNext, PositionsFinite DEF SentAt

LEMMA CopiesNat ==
  ASSUME TypeInv, NEW n
  PROVE  Copies(n) \in Nat
BY CopiesType DEF Copies, KeptCount, FreshCount

LEMMA CopiesNatNext ==
  ASSUME TypeInv', NEW n
  PROVE  Copies(n)' \in Nat
BY CopiesTypeNext DEF Copies, KeptCount, FreshCount

\* Breaks and arrivals do not add to what was sent.
LEMMA SentAtShrinks ==
  ASSUME TypeInv, TypeInv', NEW n,
         Len(Sent') <= Len(Sent), \A i \in 1 .. Len(Sent') : Sent'[i] = Sent[i]
  PROVE  Cardinality(SentAt(n)') <= Cardinality(SentAt(n))
<1>1. /\ DOMAIN Sent = 1 .. Len(Sent) /\ Len(Sent) \in Nat
      /\ DOMAIN Sent' = 1 .. Len(Sent') /\ Len(Sent') \in Nat
  BY SentType, SentTypeNext, LenProperties
<1>2. SentAt(n)' \in SUBSET SentAt(n)
  BY <1>1 DEF SentAt
<1> QED
  BY <1>2, CopiesType, FS_Subset

\* A sent event counts once more at most.
LEMMA SentAtSend ==
  ASSUME TypeInv, NEW m \in Event, Send(m), NEW n
  PROVE  Cardinality(SentAt(n)') <= Cardinality(SentAt(n)) + (IF m.id = n THEN 1 ELSE 0)
<1>1. CASE Sent' = Sent
  <2>1. SentAt(n)' = SentAt(n)
    BY <1>1 DEF SentAt
  <2> QED
    BY <2>1, CopiesType
<1>2. CASE Sent' = Append(Sent, m)
  <2>1. /\ DOMAIN Sent = 1 .. Len(Sent) /\ Len(Sent) \in Nat
        /\ DOMAIN Sent' = 1 .. Len(Sent) + 1
        /\ Sent'[Len(Sent) + 1] = m
        /\ \A i \in 1 .. Len(Sent) : Sent'[i] = Sent[i]
    BY <1>2, SentType, AppendProperties, LenProperties
  <2>2. CASE m.id = n
    <3>1. SentAt(n)' = SentAt(n) \cup {Len(Sent) + 1}
      BY <2>1, <2>2 DEF SentAt
    <3>2. Cardinality(SentAt(n)')
            = IF Len(Sent) + 1 \in SentAt(n) THEN Cardinality(SentAt(n))
                                             ELSE Cardinality(SentAt(n)) + 1
      BY <3>1, CopiesType, FS_AddElement
    <3> QED
      BY <2>2, <3>2, CopiesType
  <2>3. CASE m.id # n
    <3>1. SentAt(n)' = SentAt(n)
      BY <2>1, <2>3 DEF SentAt
    <3> QED
      BY <2>3, <3>1, CopiesType
  <2> QED
    BY <2>2, <2>3
<1> QED
  BY <1>1, <1>2, SendAppends

\* What each step does to the lists and the fresh event.
LEMMA SendOldestKept ==
  ASSUME TypeInv, EachOnceIn(backlog), NEW d \in DB, SendOldest(d)
  PROVE  /\ Head(backlog[d]) \in Kept
         /\ Kept' \subseteq Kept
         /\ \A m \in Kept' : m.id # Head(backlog[d]).id
         /\ EachOnceIn(backlog')
<1> DEFINE list == backlog[d]
<1>1. /\ list \in Seq(Event) /\ Len(list) \in Nat \ {0} /\ DOMAIN list = 1 .. Len(list)
      /\ Head(list) = list[1]
  BY LenProperties, EmptySeq DEF TypeInv, SendOldest
<1>2. /\ DOMAIN Tail(list) = 1 .. Len(list) - 1
      /\ \A i \in 1 .. Len(list) - 1 : Tail(list)[i] = list[i + 1]
  <2>1. /\ Tail(list) \in Seq(Event) /\ Len(Tail(list)) = Len(list) - 1
        /\ \A i \in 1 .. Len(Tail(list)) : Tail(list)[i] = list[i + 1]
    BY <1>1, HeadTailProperties DEF SendOldest
  <2> QED
    BY <2>1, LenProperties
<1>3. backlog' = [backlog EXCEPT ![d] = Tail(list)]
  BY DEF SendOldest
<1>4. \A e \in DB : backlog'[e] = IF e = d THEN Tail(list) ELSE backlog[e]
  BY <1>3 DEF TypeInv
<1>5. ASSUME NEW e \in DB, NEW i \in DOMAIN backlog'[e]
      PROVE  \E j \in DOMAIN backlog[e] :
               /\ backlog[e][j] = backlog'[e][i]
               /\ j = (IF e = d THEN i + 1 ELSE i)
  <2>1. CASE e = d
    <3>1. i \in 1 .. Len(list) - 1
      BY <1>2, <1>4, <2>1
    <3>2. i + 1 \in DOMAIN list
      BY <1>1, <3>1
    <3>3. list[i + 1] = backlog'[e][i]
      BY <1>2, <1>4, <2>1, <3>1
    <3> QED
      BY <2>1, <3>2, <3>3
  <2>2. CASE e # d
    BY <1>4, <2>2
  <2> QED
    BY <2>1, <2>2
<1>6. Head(list) \in Kept
  BY <1>1 DEF Kept, Range
<1>7. Kept' \subseteq Kept
  BY <1>5 DEF Kept, Range
<1>8. \A m \in Kept' : m.id # Head(list).id
  <2> SUFFICES ASSUME NEW e \in DB, NEW i \in DOMAIN backlog'[e],
                      backlog'[e][i].id = list[1].id
               PROVE  FALSE
    BY <1>1 DEF Kept, Range
  <2>1. PICK j \in DOMAIN backlog[e] : /\ backlog[e][j] = backlog'[e][i]
                                       /\ j = (IF e = d THEN i + 1 ELSE i)
    BY <1>5
  <2>2. e = d /\ j = 1
    BY <1>1, <2>1 DEF EachOnceIn
  <2>3. i \in 1 .. Len(list) - 1
    BY <1>2, <1>4, <2>2
  <2> QED
    BY <2>1, <2>2, <2>3
<1>9. EachOnceIn(backlog')
  <2> SUFFICES ASSUME NEW e \in DB, NEW f \in DB,
                      NEW i \in DOMAIN backlog'[e], NEW j \in DOMAIN backlog'[f],
                      backlog'[e][i].id = backlog'[f][j].id
               PROVE  e = f /\ i = j
    BY DEF EachOnceIn
  <2>1. PICK k \in DOMAIN backlog[e] : /\ backlog[e][k] = backlog'[e][i]
                                       /\ k = (IF e = d THEN i + 1 ELSE i)
    BY <1>5
  <2>2. PICK l \in DOMAIN backlog[f] : /\ backlog[f][l] = backlog'[f][j]
                                       /\ l = (IF f = d THEN j + 1 ELSE j)
    BY <1>5
  <2>3. e = f /\ k = l
    BY <2>1, <2>2 DEF EachOnceIn
  <2>4. e = d => i \in 1 .. Len(list) - 1 /\ j \in 1 .. Len(list) - 1
    BY <1>2, <1>4, <2>3
  <2> QED
    BY <2>1, <2>2, <2>3, <2>4
<1> QED
  BY <1>6, <1>7, <1>8, <1>9

LEMMA KeepFreshKept ==
  ASSUME OnceInv, KeepFresh
  PROVE  /\ Kept' \subseteq Kept \cup {fresh}
         /\ EachOnceIn(backlog')
<1> DEFINE d == fresh.db
<1>1. fresh \in Event /\ d \in DB /\ fresh.id = occurred /\ ~IsKept(occurred)
  BY DEF OnceInv, TypeInv, KeepFresh, Event
<1>2. backlog[d] \in Seq(Event) /\ DOMAIN backlog[d] = 1 .. Len(backlog[d])
  BY <1>1, LenProperties DEF OnceInv, TypeInv
<1>3. PICK kept : /\ kept = backlog[d] \/ (backlog[d] # <<>> /\ kept = Tail(backlog[d]))
                  /\ backlog' = [backlog EXCEPT ![d] = Append(kept, fresh)]
  BY DEF KeepFresh
<1>4. PICK s \in {0, 1} : /\ kept \in Seq(Event) /\ Len(kept) = Len(backlog[d]) - s
                          /\ \A i \in 1 .. Len(kept) : kept[i] = backlog[d][i + s]
  <2>1. CASE kept = backlog[d]
    BY <2>1, <1>2, LenProperties
  <2>2. CASE backlog[d] # <<>> /\ kept = Tail(backlog[d])
    BY <2>2, <1>2, HeadTailProperties
  <2> QED
    BY <2>1, <2>2, <1>3
<1>5. Len(kept) \in Nat /\ Len(backlog[d]) \in Nat
  BY <1>2, <1>4, LenProperties
<1>6. /\ DOMAIN Append(kept, fresh) = 1 .. Len(kept) + 1
      /\ \A i \in 1 .. Len(kept) : Append(kept, fresh)[i] = kept[i]
      /\ Append(kept, fresh)[Len(kept) + 1] = fresh
  BY <1>1, <1>4, AppendProperties, LenProperties
<1>7. \A e \in DB : backlog'[e] = IF e = d THEN Append(kept, fresh) ELSE backlog[e]
  BY <1>1, <1>3 DEF OnceInv, TypeInv
<1>8. ASSUME NEW e \in DB, NEW i \in DOMAIN backlog'[e]
      PROVE  \/ e = d /\ i = Len(kept) + 1 /\ backlog'[e][i] = fresh
             \/ \E j \in DOMAIN backlog[e] : /\ backlog[e][j] = backlog'[e][i]
                                             /\ j = (IF e = d THEN i + s ELSE i)
  <2>1. CASE e # d
    BY <1>7, <2>1
  <2>2. CASE e = d /\ i = Len(kept) + 1
    BY <1>6, <1>7, <2>2
  <2>3. CASE e = d /\ i # Len(kept) + 1
    <3>0. i \in DOMAIN Append(kept, fresh)
      BY <1>7, <2>3
    <3>1. i \in 1 .. Len(kept)
      BY <3>0, <1>5, <1>6, <2>3
    <3>2. backlog'[e][i] = backlog[d][i + s]
      BY <1>4, <1>6, <1>7, <2>3, <3>1
    <3>3. i + s \in DOMAIN backlog[d]
      BY <1>2, <1>4, <1>5, <3>1
    <3> QED
      BY <2>3, <3>1, <3>2, <3>3
  <2> QED
    BY <2>1, <2>2, <2>3
<1>9. ASSUME NEW e \in DB, NEW j \in DOMAIN backlog[e] PROVE backlog[e][j].id # occurred
  BY <1>1, <1>9 DEF IsKept, Kept, Range
<1>10. Kept' \subseteq Kept \cup {fresh}
  BY <1>8 DEF Kept, Range
<1>11. EachOnceIn(backlog')
  <2> SUFFICES ASSUME NEW e \in DB, NEW f \in DB,
                      NEW i \in DOMAIN backlog'[e], NEW j \in DOMAIN backlog'[f],
                      backlog'[e][i].id = backlog'[f][j].id
               PROVE  e = f /\ i = j
    BY DEF EachOnceIn
  <2>0. (e = d => i \in Int) /\ (f = d => j \in Int)
    <3>1. /\ e = d => i \in DOMAIN Append(kept, fresh)
          /\ f = d => j \in DOMAIN Append(kept, fresh)
      BY <1>7
    <3>2. DOMAIN Append(kept, fresh) \subseteq Int
      BY <1>5, <1>6
    <3> QED
      BY <3>1, <3>2
  <2>1. CASE e = d /\ i = Len(kept) + 1 /\ backlog'[e][i] = fresh
    BY <1>1, <1>8, <1>9, <2>1
  <2>2. CASE f = d /\ j = Len(kept) + 1 /\ backlog'[f][j] = fresh
    BY <1>1, <1>8, <1>9, <2>2
  <2>3. ASSUME NEW k \in DOMAIN backlog[e], NEW l \in DOMAIN backlog[f],
               backlog[e][k] = backlog'[e][i], k = (IF e = d THEN i + s ELSE i),
               backlog[f][l] = backlog'[f][j], l = (IF f = d THEN j + s ELSE j)
        PROVE  e = f /\ i = j
    <3>1. e = f /\ k = l
      BY <2>3 DEF OnceInv, EachOnceIn
    <3> QED
      BY <2>0, <2>3, <3>1
  <2> QED
    BY <1>8, <2>1, <2>2, <2>3
<1> QED
  BY <1>10, <1>11

\* Every step but sending leaves a prefix of Sent.
LEMMA SentOtherwise ==
  ASSUME TypeInv, KeepFresh \/ Arrive \/ Break \/ SetLimit \/ UNCHANGED vars
  PROVE  Len(Sent') <= Len(Sent) /\ \A i \in 1 .. Len(Sent') : Sent'[i] = Sent[i]
<1>0. Len(Sent) \in Nat
  BY SentType, LenProperties
<1>1. CASE UNCHANGED <<wire, delivered>>
  <2>1. Sent' = Sent
    BY <1>1 DEF Sent
  <2> QED
    BY <2>1, <1>0
<1>2. CASE WireBreaks
  BY <1>2, WireBreaksSent
<1>3. CASE Arrive
  <2>1. Sent' = Sent
    BY <1>3, ArriveKeepsSent
  <2> QED
    BY <2>1, <1>0
<1> QED
  BY <1>1, <1>2, <1>3 DEF KeepFresh, Break, SetLimit, vars

LEMMA OnceInvStep == OnceInv /\ [Next]_vars => OnceInv'
<1> SUFFICES ASSUME OnceInv, [Next]_vars PROVE OnceInv'
  OBVIOUS
<1>0. TypeInv /\ TypeInv'
  BY TypeInvStep DEF OnceInv
<1>1. ASSUME NEW d \in DB, Occur(d) PROVE OnceInv'
  <2>1. Kept' = Kept /\ Sent' = Sent
    BY <1>1 DEF Occur, Kept, Sent
  <2>2. \A m \in Kept \cup Range(Sent) : m.id \in Nat /\ m.id <= occurred
    BY <1>0, EventsSoFar DEF OnceInv, Event
  <2>3. \A m \in Kept' \cup Range(Sent') : m.id <= occurred' /\ m.id # occurred'
    BY <1>0, <1>1, <2>1, <2>2 DEF TypeInv, Occur
  <2> QED
    BY <1>0, <1>1, <2>3 DEF OnceInv, Occur, IsKept
<1>2. ASSUME NEW d \in DB, SendOldest(d) PROVE OnceInv'
  <2>0. backlog[d] # <<>> /\ backlog[d] \in Seq(Event)
    BY <1>0, <1>2 DEF TypeInv, SendOldest
  <2>1. Head(backlog[d]) \in Event
    BY <2>0, HeadTailProperties
  <2>2. Sent' = Sent \/ Sent' = Append(Sent, Head(backlog[d]))
    BY <1>0, <1>2, <2>1, SendAppends DEF SendOldest
  <2>3. Range(Sent') \subseteq Range(Sent) \cup {Head(backlog[d])}
    BY <1>0, <2>1, <2>2, SentType, AppendRange
  <2>4. Kept' \subseteq Kept /\ Head(backlog[d]) \in Kept /\ EachOnceIn(backlog)'
    BY <1>0, <1>2, SendOldestKept DEF OnceInv, EachOnceIn
  <2> QED
    BY <1>0, <1>2, <2>3, <2>4 DEF OnceInv, SendOldest, IsKept
<1>3. CASE SendFresh
  <2>1. fresh \in Event /\ fresh.id = occurred
    BY <1>0, <1>3 DEF TypeInv, SendFresh, OnceInv
  <2>2. Sent' = Sent \/ Sent' = Append(Sent, fresh)
    BY <1>0, <1>3, <2>1, SendAppends DEF SendFresh
  <2>3. Range(Sent') \subseteq Range(Sent) \cup {fresh}
    BY <1>0, <2>1, <2>2, SentType, AppendRange
  <2>4. Kept' = Kept
    BY <1>3 DEF SendFresh, Kept
  <2>5. occurred <= occurred
    BY <1>0 DEF TypeInv
  <2> QED
    BY <1>0, <1>3, <2>1, <2>3, <2>4, <2>5 DEF OnceInv, SendFresh, EachOnceIn
<1>4. CASE KeepFresh
  <2>1. Range(Sent') \subseteq Range(Sent)
    BY <1>0, <1>4, SentOtherwise, PrefixRange, SentType, SentTypeNext
  <2>2. Kept' \subseteq Kept \cup {fresh} /\ EachOnceIn(backlog)'
    BY <1>4, KeepFreshKept DEF EachOnceIn
  <2>3. fresh.id = occurred /\ occurred <= occurred
    BY <1>0, <1>4 DEF TypeInv, KeepFresh, OnceInv
  <2> QED
    BY <1>0, <1>4, <2>1, <2>2, <2>3 DEF OnceInv, KeepFresh
<1>5. CASE Arrive \/ Break \/ SetLimit \/ UNCHANGED vars
  <2>1. Range(Sent') \subseteq Range(Sent)
    BY <1>0, <1>5, SentOtherwise, PrefixRange, SentType, SentTypeNext
  <2>2. UNCHANGED <<backlog, fresh, occurred>> /\ Kept' = Kept
    BY <1>5 DEF Arrive, Break, SetLimit, vars, Kept
  <2> QED
    BY <1>0, <2>1, <2>2 DEF OnceInv, EachOnceIn, IsKept
<1> QED
  BY <1>1, <1>2, <1>3, <1>4, <1>5 DEF Next

\* The sums before and after a step.
LEMMA SumOfCounts ==
  ASSUME NEW s \in Nat, NEW k \in {0, 1}, NEW f \in {0, 1},
         NEW s2 \in Nat, NEW k2 \in {0, 1}, NEW f2 \in {0, 1},
         \/ s2 <= s /\ k2 <= k /\ f2 <= f
         \/ s2 <= s + 1 /\ k = 1 /\ k2 = 0 /\ f2 <= f
         \/ s2 <= s + 1 /\ k2 <= k /\ f = 1 /\ f2 = 0
         \/ s2 <= s /\ f = 1 /\ f2 = 0
  PROVE  s2 + k2 + f2 <= s + k + f
OBVIOUS

\* No step copies an event: it leaves one place for another.
LEMMA CopiesStep ==
  ASSUME OnceInv, [Next]_vars, NEW n \in Nat, n <= occurred
  PROVE  Copies(n)' <= Copies(n)
<1> DEFINE sent == Cardinality(SentAt(n))
           kept == KeptCount(n)
           new == FreshCount(n)
<1>0. /\ TypeInv /\ TypeInv' /\ occurred \in Nat
      /\ sent \in Nat /\ sent' \in Nat
  BY TypeInvStep, CopiesType, CopiesTypeNext DEF OnceInv, TypeInv
<1>1. kept \in {0, 1} /\ kept' \in {0, 1} /\ new \in {0, 1} /\ new' \in {0, 1}
  BY DEF KeptCount, FreshCount
<1>2. Copies(n) = sent + kept + new /\ Copies(n)' = sent' + kept' + new'
  BY DEF Copies
<1> HIDE DEF sent, kept, new
<1>3. ASSUME NEW d \in DB, Occur(d)
      PROVE  sent' <= sent /\ kept' <= kept /\ new' <= new
  <2>1. Sent' = Sent /\ Kept' = Kept
    BY <1>3 DEF Occur, Sent, Kept
  <2>2. ~IsFresh(n)'
    BY <1>0, <1>3 DEF Occur, IsFresh
  <2>3. sent' = sent /\ kept' = kept /\ new' = 0
    BY <2>1, <2>2 DEF sent, SentAt, kept, KeptCount, IsKept, new, FreshCount
  <2> QED
    BY <1>0, <1>1, <2>3
<1>4. ASSUME NEW d \in DB, SendOldest(d)
      PROVE  \/ sent' <= sent /\ kept' <= kept /\ new' <= new
             \/ sent' <= sent + 1 /\ kept = 1 /\ kept' = 0 /\ new' <= new
  <2> DEFINE m == Head(backlog[d])
  <2>0. backlog[d] # <<>> /\ backlog[d] \in Seq(Event)
    BY <1>0, <1>4 DEF TypeInv, SendOldest
  <2>1. m \in Event
    BY <2>0, HeadTailProperties
  <2>2. sent' <= sent + (IF m.id = n THEN 1 ELSE 0)
    BY <1>0, <1>4, <2>1, SentAtSend DEF SendOldest, sent
  <2>3. m \in Kept /\ Kept' \subseteq Kept /\ \A x \in Kept' : x.id # m.id
    BY <1>0, <1>4, SendOldestKept DEF OnceInv
  <2>4. new' = new
    BY <1>4 DEF SendOldest, new, FreshCount, IsFresh
  <2>5. kept' <= kept
    BY <2>3 DEF kept, KeptCount, IsKept
  <2>6. CASE m.id = n
    <3>1. kept = 1 /\ kept' = 0
      BY <2>3, <2>6 DEF kept, KeptCount, IsKept
    <3> QED
      BY <1>0, <1>1, <2>2, <2>4, <2>6, <3>1
  <2>7. CASE m.id # n
    BY <1>0, <1>1, <2>2, <2>4, <2>5, <2>7
  <2> QED
    BY <2>6, <2>7
<1>5. ASSUME SendFresh
      PROVE  \/ sent' <= sent /\ kept' <= kept /\ new' <= new
             \/ sent' <= sent + 1 /\ kept' <= kept /\ new = 1 /\ new' = 0
  <2>1. fresh \in Event /\ fresh # NoMessage /\ fresh' = NoMessage /\ Kept' = Kept
    BY <1>0, <1>5 DEF TypeInv, SendFresh, Kept
  <2>2. sent' <= sent + (IF fresh.id = n THEN 1 ELSE 0)
    BY <1>0, <1>5, <2>1, SentAtSend DEF SendFresh, sent
  <2>3. kept' = kept /\ new' = 0
    BY <2>1 DEF kept, KeptCount, IsKept, new, FreshCount, IsFresh
  <2>4. CASE fresh.id = n
    <3>1. new = 1
      BY <2>1, <2>4 DEF new, FreshCount, IsFresh
    <3> QED
      BY <1>0, <1>1, <2>2, <2>3, <2>4, <3>1
  <2>5. CASE fresh.id # n
    BY <1>0, <1>1, <2>2, <2>3, <2>5
  <2> QED
    BY <2>4, <2>5
<1>6. ASSUME KeepFresh
      PROVE  \/ sent' <= sent /\ kept' <= kept /\ new' <= new
             \/ sent' <= sent /\ new = 1 /\ new' = 0
  <2>1. sent' <= sent
    BY <1>0, <1>6, SentOtherwise, SentAtShrinks DEF sent
  <2>2. Kept' \subseteq Kept \cup {fresh} /\ fresh # NoMessage /\ fresh' = NoMessage
    BY <1>6, KeepFreshKept DEF KeepFresh
  <2>3. new' = 0
    BY <2>2 DEF new, FreshCount, IsFresh
  <2>4. kept' <= kept \/ new = 1
    BY <2>2 DEF kept, KeptCount, IsKept, new, FreshCount, IsFresh
  <2> QED
    BY <1>1, <2>1, <2>3, <2>4
<1>7. ASSUME Arrive \/ Break \/ SetLimit \/ UNCHANGED vars
      PROVE  sent' <= sent /\ kept' <= kept /\ new' <= new
  <2>1. sent' <= sent
    BY <1>0, <1>7, SentOtherwise, SentAtShrinks DEF sent
  <2>2. Kept' = Kept /\ fresh' = fresh
    BY <1>7 DEF Arrive, Break, SetLimit, vars, Kept
  <2>3. kept' = kept /\ new' = new
    BY <2>2 DEF kept, KeptCount, IsKept, new, FreshCount, IsFresh
  <2> QED
    BY <1>1, <2>1, <2>3
<1>8. \/ sent' <= sent /\ kept' <= kept /\ new' <= new
      \/ sent' <= sent + 1 /\ kept = 1 /\ kept' = 0 /\ new' <= new
      \/ sent' <= sent + 1 /\ kept' <= kept /\ new = 1 /\ new' = 0
      \/ sent' <= sent /\ new = 1 /\ new' = 0
  BY <1>3, <1>4, <1>5, <1>6, <1>7 DEF Next
<1>9. sent' + kept' + new' <= sent + kept + new
  BY <1>0, <1>1, <1>8, SumOfCounts
<1> QED
  BY <1>2, <1>9

\* An event has no copy before it occurs.
LEMMA CopiesToCome ==
  ASSUME OnceInv, NEW n \in Nat, n > occurred
  PROVE  SentAt(n) = {} /\ ~IsKept(n) /\ Copies(n) = 0
<1>1. occurred \in Nat
  BY DEF OnceInv, TypeInv
<1>2. \A i \in DOMAIN Sent : Sent[i].id # n
  BY <1>1 DEF OnceInv, Range
<1>3. SentAt(n) = {} /\ ~IsKept(n) /\ ~IsFresh(n)
  BY <1>1, <1>2 DEF SentAt, OnceInv, IsKept, IsFresh
<1> QED
  BY <1>3, FS_EmptySet DEF Copies, KeptCount, FreshCount

\* And one when it does.
LEMMA CopiesOfNew ==
  ASSUME OnceInv, [Next]_vars, NEW n \in Nat, n > occurred
  PROVE  Copies(n)' <= 1
<1>1. CASE \E d \in DB : Occur(d)
  <2>1. Sent' = Sent /\ Kept' = Kept
    BY <1>1 DEF Occur, Sent, Kept
  <2>2. SentAt(n)' = {} /\ ~IsKept(n)'
    BY <2>1, CopiesToCome DEF SentAt, IsKept
  <2>3. Cardinality(SentAt(n)') = 0
    BY <2>2, FS_EmptySet
  <2>4. KeptCount(n)' = 0 /\ FreshCount(n)' \in {0, 1}
    BY <2>2 DEF KeptCount, FreshCount
  <2> QED
    BY <2>3, <2>4 DEF Copies
<1>2. CASE occurred' = occurred
  <2>1. OnceInv' /\ n > occurred' /\ occurred' \in Nat
    BY <1>2, OnceInvStep DEF OnceInv, TypeInv
  <2>2. \A m \in Kept' \cup Range(Sent') : m.id # n
    BY <2>1 DEF OnceInv
  <2>3. SentAt(n)' = {} /\ ~IsKept(n)' /\ ~IsFresh(n)'
    BY <2>1, <2>2 DEF SentAt, Range, OnceInv, IsKept, IsFresh
  <2>4. Cardinality(SentAt(n)') = 0
    BY <2>3, FS_EmptySet
  <2> QED
    BY <2>3, <2>4 DEF Copies, KeptCount, FreshCount
<1> QED
  BY <1>1, <1>2
  DEF Next, SendOldest, SendFresh, KeepFresh, Arrive, Break, SetLimit, vars

\* The backlog is put back to an earlier one, the wire breaks and what was fresh is
\* gone: at most one copy more.
LEMMA PutBackAddsOne ==
  ASSUME OnceInv, WireBreaks, UNCHANGED occurred, fresh' = NoMessage, limited' \in BOOLEAN,
         backlog' \in [DB -> Seq(Event)], EachOnceIn(backlog'),
         \A m \in Kept' : m.id <= occurred
  PROVE  OnceInv' /\ \A n \in Nat : Copies(n)' <= Copies(n) + 1
<1>0. TypeInv /\ TypeInv'
  BY WireBreaksSent DEF OnceInv, TypeInv
<1>1. Len(Sent') <= Len(Sent) /\ \A i \in 1 .. Len(Sent') : Sent'[i] = Sent[i]
  BY <1>0, WireBreaksSent
<1>2. Range(Sent') \subseteq Range(Sent)
  BY <1>0, <1>1, PrefixRange, SentType, SentTypeNext
<1>3. OnceInv'
  BY <1>0, <1>2 DEF OnceInv, EachOnceIn
<1>4. ASSUME NEW n \in Nat PROVE Copies(n)' <= Copies(n) + 1
  <2> DEFINE sent == Cardinality(SentAt(n))
  <2>1. sent' <= sent /\ sent \in Nat /\ sent' \in Nat
    BY <1>0, <1>1, SentAtShrinks, CopiesType, CopiesTypeNext
  <2>2. /\ KeptCount(n) \in {0, 1} /\ KeptCount(n)' \in {0, 1}
        /\ FreshCount(n) \in {0, 1} /\ FreshCount(n)' = 0
    BY DEF KeptCount, FreshCount, IsFresh
  <2>3. /\ Copies(n) = sent + KeptCount(n) + FreshCount(n)
        /\ Copies(n)' = sent' + KeptCount(n)' + FreshCount(n)'
    BY DEF Copies
  <2> HIDE DEF sent
  <2> QED
    BY <2>1, <2>2, <2>3
<1> QED
  BY <1>3, <1>4
=============================================================================
