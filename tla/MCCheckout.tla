----------------------------- MODULE MCCheckout -----------------------------
(***************************************************************************)
(* A small instance of Checkout: a request, its retry and a request that   *)
(* uses the key for another order, for the last piece of a product; a      *)
(* member of the restaurant who may not cancel, and the customer.          *)
(***************************************************************************)
EXTENDS Checkout

CONSTANTS r1, r2, r3, k1

MCKey == [r \in Requests |-> k1]
MCBody == [r \in Requests |-> IF r = r3 THEN [id |-> 2, method |-> "online"]
                                        ELSE [id |-> 1, method |-> "cod"]]

MCCallers ==
    {[role |-> "customer", orders |-> {r1, r3}, can |-> {}],
     [role |-> "restaurant_user", orders |-> {r1}, can |-> {"accept", "update"}],
     [role |-> "system_admin", orders |-> {}, can |-> {}]}
=============================================================================
