---------------------------- MODULE MCPayments ----------------------------
(***************************************************************************)
(* Small instances of Payments.                                            *)
(*                                                                         *)
(* Capture: two sessions of one order and two payments, the webhook of one *)
(* delivered twice and a failed attempt of it, a webhook of an unknown     *)
(* order, and a customer who cancels or a restaurant that goes on.         *)
(* Again: a failed payment, then another on the same page.                 *)
(* Refund: a charge, two refunds of it that share a reference, their       *)
(* webhooks, and the refund of a cash order.                               *)
(***************************************************************************)
EXTENDS Payments, TLC

CONSTANTS o1, o2, i1, i2, f1, f2, f3, w1, w2, w3, w4, w5, c1, c2, c3

PayEvent(o, tx, status) == [kind |-> "pay", order |-> o, tx |-> tx, status |-> status]
RefundEvent(o, tx) == [kind |-> "refund", order |-> o, tx |-> tx, status |-> "SUCCESS"]

OneOrder == c1 :> o1 @@ c2 :> o1
InitOfOne == i1 :> o1 @@ i2 :> o1
NoRefunds == <<>>

CaptureEvents == w1 :> PayEvent(o1, c1, "SUCCESS") @@ w2 :> PayEvent(o1, c1, "SUCCESS")
                   @@ w3 :> PayEvent(o1, c2, "SUCCESS") @@ w4 :> PayEvent(o1, c1, "FAILED")
                   @@ w5 :> PayEvent(None, c2, "FAILED")
CaptureSymmetry == Permutations({i1, i2}) \cup Permutations({w1, w2})

RefundOrders == c1 :> o1 @@ c3 :> o2
InitOne == i1 :> o1
RefundChargeOf == f1 :> c1 @@ f2 :> c1 @@ f3 :> c3
SharedReference == f1 :> c1 @@ f2 :> c1 @@ f3 :> None
SharedEvents == w1 :> PayEvent(o1, c1, "SUCCESS")
                  @@ w2 :> RefundEvent(o1, c1) @@ w3 :> RefundEvent(o1, c1)
AgainEvents == w1 :> PayEvent(o1, c1, "FAILED") @@ w2 :> PayEvent(o1, c2, "SUCCESS")
=============================================================================
