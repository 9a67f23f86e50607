---------------------------- MODULE OrderStatus ----------------------------
(***************************************************************************)
(* The order status machine of order-status.service.ts: who may move an    *)
(* order from which status to which.                                       *)
(***************************************************************************)

OrderStatuses == {"pending_payment", "placed", "accepted", "rejected",
                  "preparing", "ready", "assigned", "picked", "delivered",
                  "cancelled"}

Actors == {"customer", "restaurant", "system", "agent", "admin"}

Rule(from, to, actors) == [from |-> from, to |-> to, actors |-> actors]

Staff == {"restaurant", "admin"}

TRANSITIONS ==
    {Rule("pending_payment", "cancelled", {"customer", "system"}),
     Rule("placed", "accepted", Staff),
     Rule("placed", "rejected", Staff),
     Rule("placed", "cancelled", {"customer"}),
     Rule("accepted", "preparing", Staff),
     Rule("accepted", "cancelled", Staff),
     Rule("preparing", "ready", Staff),
     Rule("preparing", "cancelled", Staff),
     Rule("ready", "assigned", {"system"}),
     Rule("ready", "cancelled", Staff),
     Rule("assigned", "picked", {"agent"}),
     Rule("assigned", "cancelled", {"admin"}),
     Rule("picked", "delivered", {"agent"})}

\* assertTransition does not throw.
TransitionAllowed(from, to, actor) ==
    \E t \in TRANSITIONS : t.from = from /\ t.to = to /\ actor \in t.actors
=============================================================================
