---------------------------- MODULE EventStream ----------------------------
(***************************************************************************)
(* What the transactional outbox promises the subscribers of order.events: *)
(* at-least-once delivery.  Only events of committed transactions reach the*)
(* exchange, possibly more than once and in any order; an event is retired *)
(* only after it has reached it; and none is withheld for ever.            *)
(*                                                                         *)
(* Outbox.tla (claims under row locks, publishing, rollbacks) is checked   *)
(* and its steps are proved to implement it.                               *)
(***************************************************************************)
CONSTANT Events

VARIABLES accepted,   \* events of committed transactions
          delivered,  \* events that have reached the exchange
          retired     \* events the outbox will not publish again

streamVars == <<accepted, delivered, retired>>

Init == accepted = {} /\ delivered = {} /\ retired = {}

Accept(e) ==
    /\ accepted' = accepted \cup {e}
    /\ UNCHANGED <<delivered, retired>>

Deliver(e) ==
    /\ e \in accepted
    /\ delivered' = delivered \cup {e}
    /\ UNCHANGED <<accepted, retired>>

Retire(done) ==
    /\ done \subseteq delivered
    /\ retired' = retired \cup done
    /\ UNCHANGED <<accepted, delivered>>

Next == \/ \E e \in Events : Accept(e) \/ Deliver(e)
        \/ \E done \in SUBSET Events : Retire(done)

Safety == Init /\ [][Next]_streamVars

\* No event of a committed transaction is withheld or kept for ever (what is
\* retired has been delivered).
Progress == \A e \in Events : (e \in accepted) ~> (e \in retired)

Spec == Safety /\ Progress
=============================================================================
