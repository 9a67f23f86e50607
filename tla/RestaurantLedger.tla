-------------------------- MODULE RestaurantLedger --------------------------
(***************************************************************************)
(* What settlement and payouts together promise a restaurant: its account  *)
(* is a ledger.  An entry is posted at most once per key, in the same step *)
(* the balance moves by exactly the entry's amount, and no posting takes   *)
(* the balance below zero or beyond what the column can hold.              *)
(*                                                                         *)
(* Settlement.tla (settleDelivery and recordPayout, with their row locks,  *)
(* unique index and rollbacks) is checked and proved to implement it.      *)
(***************************************************************************)
EXTENDS Integers

CONSTANTS Accounts,        \* (restaurant, currency) rows of restaurant_balances
          Keys,            \* idempotency keys of commissions and payouts
          OpeningBalance,  \* balance of each account before the first entry
          MaxInt           \* the largest value of a Postgres INT column

VARIABLES balance,  \* balance of each account
          entries   \* entries posted: [key, account, amount], amount signed

ledgerVars == <<balance, entries>>

Posted(k) == \E e \in entries : e.key = k

Init == /\ balance = OpeningBalance
        /\ entries = {}

\* Post one entry of n (positive: a settlement, negative: a payout).
Post(k, a, n) ==
    /\ ~ Posted(k)
    /\ balance[a] + n \in 0..MaxInt
    /\ balance' = [balance EXCEPT ![a] = @ + n]
    /\ entries' = entries \cup {[key |-> k, account |-> a, amount |-> n]}

Next == \E k \in Keys, a \in Accounts, n \in -MaxInt..MaxInt : Post(k, a, n)

Spec == Init /\ [][Next]_ledgerVars
=============================================================================
