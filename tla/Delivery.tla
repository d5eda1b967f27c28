------------------------------ MODULE Delivery ------------------------------
(***************************************************************************)
(* What the receive adapter promises about events, whatever the transport: *)
(* in-order, at-least-once delivery against a resume position.             *)
(*                                                                         *)
(* The promise is the one the sink client's contract spells out            *)
(* (cmd/receive-adapter/source/sink.go, SinkClient.Send): a transport must *)
(* not move its resume position past an event whose Send failed.           *)
(*                                                                         *)
(* Events are the positions 1..NumEvents of the server's log, after the    *)
(* server-side type filter.  A position is "settled" once it may be left   *)
(* behind: the sink answered it with a 2xx, or its envelope does not       *)
(* decode, or the server itself started the consumer beyond it because the *)
(* consumer presented no position.                                         *)
(***************************************************************************)
EXTENDS Naturals

CONSTANTS NumEvents,   \* how many events the server ever publishes
          Malformed    \* positions whose envelope does not decode

VARIABLES published,   \* the server's log is 1..published
          acked,       \* events the sink accepted, as told to the adapter
          skipped,     \* events the server passed over for want of a position
          frontier     \* the resume position; 0 is "no position"

dvars == <<published, acked, skipped, frontier>>

Events == 1..NumEvents
Settled == acked \cup skipped \cup Malformed

DeliveryInit == /\ published = 0
                /\ acked = {}
                /\ skipped = {}
                /\ frontier = 0

Append == /\ published < NumEvents
          /\ published' = published + 1
          /\ UNCHANGED <<acked, skipped, frontier>>

\* The sink accepts e.  Everything before e is settled already: the sink sees
\* events for the first time in log order.
Deliver(e) == /\ e \in 1..published
              /\ \A f \in Events : f < e => f \in Settled
              /\ acked' = acked \cup {e}
              /\ UNCHANGED <<published, skipped, frontier>>

\* The server picks where a consumer without a position starts.
StartAt(s) == /\ frontier = 0
              /\ s \in 0..published
              /\ skipped' = skipped \cup 1..s
              /\ UNCHANGED <<published, acked, frontier>>

\* The resume position moves forward, over settled events only.
Advance(n) == /\ n \in 1..published
              /\ n > frontier
              /\ \A e \in Events : e <= n => e \in Settled
              /\ frontier' = n
              /\ UNCHANGED <<published, acked, skipped>>

\* The resume position is lost as a whole; it never moves back part of the way.
Forget == /\ frontier' = 0
          /\ UNCHANGED <<published, acked, skipped>>

DeliveryNext == \/ Append
                \/ \E e \in Events : Deliver(e)
                \/ \E s \in 0..NumEvents : StartAt(s)
                \/ \E n \in Events : Advance(n)
                \/ Forget

DeliverySpec == DeliveryInit /\ [][DeliveryNext]_dvars

=============================================================================
