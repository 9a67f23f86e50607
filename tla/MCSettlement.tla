--------------------------- MODULE MCSettlement ---------------------------
(***************************************************************************)
(* A small instance of Settlement: two picked deliveries of one order (two *)
(* assignments that raced), the first settled by two "delivered" requests, *)
(* and payouts of one scoped key in two currencies beside an ordinary one. *)
(***************************************************************************)
EXTENDS Settlement, TLC

CONSTANTS s1, s2, s3, p1, p2, p3, d1, d2, o1, egp, usd, k1, k2

\* Subtotal 7 at 3000 bps: a commission of 2, rounded down.
BpsChoices == {3000}

SharedDeliveryOf == s1 :> d1 @@ s2 :> d2 @@ s3 :> d1
SharedOrderOf == d1 :> o1 @@ d2 :> o1
SharedAccountOf == o1 :> egp
SharedSubtotal == o1 :> 7
SharedPayoutAccount == [p \in PayoutRequests |-> IF p = p2 THEN usd ELSE egp]
SharedPayoutKey == [p \in PayoutRequests |-> IF p = p3 THEN k2 ELSE k1]
SharedPayoutAmount ==
    [p \in PayoutRequests |-> CASE p = p1 -> 3 [] p = p2 -> 2 [] p = p3 -> 4]
SharedOpening == egp :> 1 @@ usd :> 2
=============================================================================
