----------------------------- MODULE MCArchival -----------------------------
(***************************************************************************)
(* Two orders of 2024 and one of 2025, with items, a reassigned delivery   *)
(* and its earning, and a charge with its refund; each .cfg takes the rows *)
(* it needs.                                                               *)
(***************************************************************************)
EXTENDS Archival

MCOrder == [r \in Rows |-> CASE r \in 10..19 -> 1
                             [] r \in 20..29 -> 3
                             [] r = 9 -> 2
                             [] OTHER -> r]

MCTable == [r \in Rows |-> CASE r \in {1, 2, 3} -> "orders"
                             [] r \in {10, 20} -> "order_items"
                             [] r \in {9, 11, 12} -> "transactions"
                             [] r \in {13, 14} -> "deliveries"
                             [] r = 15 -> "agent_earnings"]

MCYear == [r \in Rows |-> IF MCOrder[r] = 3 THEN 2025 ELSE 2024]

\* A refunded charge points to its refund, which is later; a delivery to the
\* one it replaces; an earning to its delivery.  (9 is another order's charge.)
MCRefs == [r \in Rows |-> CASE r = 11 -> {12} \cap Rows
                            [] r = 14 -> {13} \cap Rows
                            [] r = 15 -> {13}
                            [] OTHER -> {}]
=============================================================================
