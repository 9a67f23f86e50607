----------------------------- MODULE MCHistory -----------------------------
(***************************************************************************)
(* Lists over the rows of MCArchival.  A millisecond has two microseconds, *)
(* and the two old orders were placed in the same one.                     *)
(***************************************************************************)
EXTENDS History, MCArchival

MCStamp == [r \in Rows |-> CASE r = 1 -> 4
                             [] r = 2 -> 5
                             [] r = 3 -> 12
                             [] OTHER -> r]

\* No row of the instance is a refund.
ASSUME NoRefundsAssumption == Backwards

\* Its ids ascend with its stamps.
ASSUME IdsAscendAssumption == IdsAscend

MCYearStart == [y \in 2024..2026 |-> (y - 2024) * 10 + 1]

MCAsk(list, y, lower, upper, dir, limit) ==
    [list |-> list, year |-> y, lower |-> lower, upper |-> upper,
     dir |-> dir, limit |-> limit]

MCAsked ==
    {MCAsk("customer_orders", 2024, 0, 0, "desc", 0),
     MCAsk("restaurant_orders", 0, 2, 12, "asc", 3),
     MCAsk("restaurant_orders", 0, 2, 12, "desc", 3),
     MCAsk("agent_tasks", 0, 0, 0, "asc", 0)}
=============================================================================
