---------------------------- MODULE StoreAndForward ----------------------------
(***************************************************************************)
(* What a node promises about its events, without timers, commands, roles, *)
(* connection states and counters: an event is sent at once or joins the   *)
(* backlog of its database, the backlog is sent from its oldest event, and *)
(* what was sent arrives in the order it was sent until the wire breaks.   *)
(*                                                                         *)
(* EventForwarderRefinement shows that EventForwarder implements it.       *)
(***************************************************************************)
EXTENDS Integers, Sequences, Functions

CONSTANTS
  DB,        \* the databases that events occur in
  NoMessage  \* there is no new event; not an Event

VARIABLES
  occurred,  \* number of events so far
  limited,   \* whether the backlog may drop its oldest event for a new one
  fresh,     \* the event that has occurred and is neither sent nor kept yet
  backlog,   \* database -> the events kept, oldest first
  wire,      \* sent and neither arrived nor lost
  delivered  \* arrived, in the order of arrival

vars == <<occurred, limited, fresh, backlog, wire, delivered>>

Event == [db : DB, id : Nat \ {0}]

Init ==
  /\ occurred = 0
  /\ limited \in BOOLEAN
  /\ fresh = NoMessage
  /\ backlog = [d \in DB |-> <<>>]
  /\ wire = <<>>
  /\ delivered = <<>>

-----------------------------------------------------------------------------

Occur(d) ==
  /\ fresh = NoMessage
  /\ occurred' = occurred + 1
  /\ fresh' = [db |-> d, id |-> occurred + 1]
  /\ UNCHANGED <<limited, backlog, wire, delivered>>

\* What is sent goes to the wire, or nowhere when the peer is gone unnoticed.
Send(m) ==
  /\ wire' \in {wire, Append(wire, m)}
  /\ UNCHANGED delivered

\* The rest of what is on the wire is lost.
WireBreaks ==
  /\ wire' = <<>>
  /\ \E k \in 0 .. Len(wire) : delivered' = delivered \o SubSeq(wire, 1, k)

\* A new event does not wait for the backlog.
SendFresh ==
  /\ fresh # NoMessage
  /\ Send(fresh)
  /\ fresh' = NoMessage
  /\ UNCHANGED <<occurred, limited, backlog>>

SendOldest(d) ==
  /\ backlog[d] # <<>>
  /\ Send(Head(backlog[d]))
  /\ backlog' = [backlog EXCEPT ![d] = Tail(@)]
  /\ UNCHANGED <<occurred, limited, fresh>>

\* The attempt to send may have shown that the wire is broken.
KeepFresh ==
  /\ fresh # NoMessage
  /\ WireBreaks \/ UNCHANGED <<wire, delivered>>
  /\ \E kept \in {backlog[fresh.db]}
             \cup (IF limited /\ backlog[fresh.db] # <<>> THEN {Tail(backlog[fresh.db])} ELSE {}) :
       backlog' = [backlog EXCEPT ![fresh.db] = Append(kept, fresh)]
  /\ fresh' = NoMessage
  /\ UNCHANGED <<occurred, limited>>

Arrive ==
  /\ wire # <<>>
  /\ delivered' = Append(delivered, Head(wire))
  /\ wire' = Tail(wire)
  /\ UNCHANGED <<occurred, limited, fresh, backlog>>

Break == WireBreaks /\ UNCHANGED <<occurred, limited, fresh, backlog>>

SetLimit ==
  /\ limited' \in BOOLEAN
  /\ UNCHANGED <<occurred, fresh, backlog, wire, delivered>>

Next ==
  \/ \E d \in DB : Occur(d) \/ SendOldest(d)
  \/ SendFresh
  \/ KeepFresh
  \/ Arrive
  \/ Break
  \/ SetLimit

Spec == Init /\ [][Next]_vars

-----------------------------------------------------------------------------

Kept == UNION {Range(backlog[d]) : d \in DB}

Sent == delivered \o wire

\* No event is kept twice or sent twice, nor kept after it was sent: a broker that
\* takes what arrives gets every event at most once.
AtMostOnce ==
  /\ IsInjective(Sent)
  /\ \A d \in DB : IsInjective(backlog[d])
  /\ Kept \cap Range(Sent) = {}
  /\ fresh \notin Kept \cup Range(Sent)
=============================================================================
