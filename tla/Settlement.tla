----------------------------- MODULE Settlement -----------------------------
(***************************************************************************)
(* The money of a restaurant: DeliveryService.updateStatus to 'delivered'  *)
(* with settleDelivery, which credits a restaurant for a delivery, and     *)
(* FinanceService.recordPayout, which debits it.                           *)
(*                                                                         *)
(* Every HTTP request in flight is a process.  A request runs its database *)
(* transaction under Postgres' READ COMMITTED:                             *)
(*   - an UPDATE, or a SELECT ... FOR UPDATE, of a row waits until no other*)
(*     transaction holds that row, and then holds it to its own end;       *)
(*   - an INSERT of a key some open transaction has inserted waits for that*)
(*     transaction, and fails if the key is committed;                     *)
(*   - what a transaction writes is seen by others when it commits, so the *)
(*     commit action assigns the tables and pc says which statements of    *)
(*     the transaction have run;                                           *)
(*   - an error, a lost connection or a crashed server rolls it back.      *)
(***************************************************************************)
EXTENDS Integers, FiniteSetsExt

CONSTANTS
    SettleRequests,  \* "this delivery is delivered" requests of agents
    PayoutRequests,  \* POST payout requests
    Deliveries,      \* rows of deliveries
    Orders,          \* rows of orders
    Accounts,        \* (restaurant, currency): rows of restaurant_balances
    PayoutKeys,      \* scoped payout keys "payout:<restaurant>:<key>"
    DeliveryOf,      \* the delivery a settle request names
    OrderOf,         \* the order of a delivery
    AccountOf,       \* the account of an order's restaurant and currency
    Subtotal,        \* orders.subtotal
    CodOrders,       \* the orders paid in cash on delivery
    PayoutAccount,   \* restaurant and currency a payout request names
    PayoutKey,       \* its scoped idempotency key
    PayoutAmount,    \* its amount
    BpsValues,       \* what branch.commissionBps may be at a read
    OpeningBalance,  \* balances before these requests
    MaxInt           \* largest INT: 2^31 - 1 in Postgres

Requests == SettleRequests \cup PayoutRequests
Keys == Deliveries \cup PayoutKeys  \* "commission:<delivery>" or a payout key

ASSUME RequestsAssumption ==
    /\ SettleRequests \cap PayoutRequests = {}
    /\ Deliveries \cap PayoutKeys = {}
    /\ DeliveryOf \in [SettleRequests -> Deliveries]
    /\ PayoutAccount \in [PayoutRequests -> Accounts]
    /\ PayoutKey \in [PayoutRequests -> PayoutKeys]

\* The payout DTO's @Min(1) on amount.
ASSUME AmountAssumption == PayoutAmount \in [PayoutRequests -> Nat \ {0}]

ASSUME OrdersAssumption ==
    /\ OrderOf \in [Deliveries -> Orders]
    /\ AccountOf \in [Orders -> Accounts]
    /\ Subtotal \in [Orders -> Nat]
    /\ CodOrders \subseteq Orders

\* A commission is a fraction of the subtotal (core's data: nothing in this
\* service checks it).
ASSUME BpsAssumption == BpsValues \subseteq 0..10000

ASSUME BalanceAssumption ==
    /\ MaxInt \in Nat
    /\ OpeningBalance \in [Accounts -> 0..MaxInt]

VARIABLES
    deliveryStatus,   \* deliveries.status
    orderStatus,      \* orders.status
    orderCommission,  \* orders.commission_amount
    codCollection,    \* status of the order's cod_collection transaction
    transactions,     \* commission and payout rows of transactions
    balance,          \* restaurant_balances.balance
    earnings,         \* deliveries with an agent_earnings row
    completed,        \* delivery.completed rows of the outbox, per delivery
    pc,               \* how far a request has got, or how it was answered
    commission,       \* settleDelivery's local `commission`
    lockedBalance,    \* the local `locked.balance`
    held              \* rows and index keys the request's transaction holds

tables == <<deliveryStatus, orderStatus, orderCommission, codCollection,
            transactions, balance, earnings, completed>>
locals == <<pc, commission, lockedBalance, held>>
vars == <<tables, locals>>

-----------------------------------------------------------------------------
(* Rows, keys and amounts. *)

DeliveryRow(d) == <<"deliveries", d>>
OrderRow(o) == <<"orders", o>>
BalanceRow(a) == <<"restaurant_balances", a>>
IndexKey(k) == <<"uq_transactions_idempotency_key", k>>

Rows == {DeliveryRow(d) : d \in Deliveries} \cup {OrderRow(o) : o \in Orders}
          \cup {BalanceRow(a) : a \in Accounts} \cup {IndexKey(k) : k \in Keys}

Order(r) == OrderOf[DeliveryOf[r]]
Account(r) == IF r \in SettleRequests THEN AccountOf[Order(r)]
                                      ELSE PayoutAccount[r]
Key(r) == IF r \in SettleRequests THEN DeliveryOf[r] ELSE PayoutKey[r]

\* Math.floor((order.subtotal * branch.commissionBps) / 10000)
CommissionFor(subtotal, bps) == (subtotal * bps) \div 10000

\* The balance settleDelivery or recordPayout writes back.
CreditedBalance(r) == lockedBalance[r] + (Subtotal[Order(r)] - commission[r])
DebitedBalance(r) == lockedBalance[r] - PayoutAmount[r]

-----------------------------------------------------------------------------
(* Postgres: locks, the unique index, the end of a transaction. *)

Free(row) == \A q \in Requests : row \notin held[q]

Hold(r, row) == /\ Free(row)
                /\ held' = [held EXCEPT ![r] = @ \cup {row}]

KeyExists(k) == \E t \in transactions : t.key = k

\* The request is answered; its transaction, if any, has ended and its local
\* variables are gone.
End(r, answer) ==
    /\ pc' = [pc EXCEPT ![r] = answer]
    /\ commission' = [commission EXCEPT ![r] = 0]
    /\ lockedBalance' = [lockedBalance EXCEPT ![r] = 0]
    /\ held' = [held EXCEPT ![r] = {}]

Rollback(r, answer) == End(r, answer) /\ UNCHANGED tables

\* A commit whose answer never arrives looks like a failure to the caller.
Commit(r) == \E answer \in {"done", "lost"} : End(r, answer)

-----------------------------------------------------------------------------
(* DeliveryService.updateStatus(delivered) and settleDelivery. *)

Goto(r, label) == pc' = [pc EXCEPT ![r] = label]

\* updateStatus reads the delivery outside any transaction and checks the
\* transition on what it read; settleDelivery then reads the order and the
\* branch, and computes the commission.
ReadDelivery(r) ==
    /\ pc[r] = "start"
    /\ deliveryStatus[DeliveryOf[r]] = "picked"
    /\ \E bps \in BpsValues : commission' =
          [commission EXCEPT ![r] = CommissionFor(Subtotal[Order(r)], bps)]
    /\ Goto(r, "begun")
    /\ UNCHANGED <<tables, lockedBalance, held>>

RefuseTransition(r) ==
    /\ pc[r] = "start"
    /\ deliveryStatus[DeliveryOf[r]] # "picked"
    /\ Rollback(r, "refused")

\* updateDeliveryStatus(trx, delivery.id, DELIVERED)
WriteDelivery(r) ==
    /\ pc[r] = "begun"
    /\ Hold(r, DeliveryRow(DeliveryOf[r]))
    /\ Goto(r, "deliveryWritten")
    /\ UNCHANGED <<tables, commission, lockedBalance>>

\* setOrderCommission, updateOrderStatus(DELIVERED) and the pending
\* cod_collection row, all behind the order's row lock.
WriteOrder(r) ==
    /\ pc[r] = "deliveryWritten"
    /\ Hold(r, OrderRow(Order(r)))
    /\ Goto(r, "orderWritten")
    /\ UNCHANGED <<tables, commission, lockedBalance>>

\* Mutant: the commission row is inserted without an idempotency key.
InsertCommissionUnkeyed(r) ==
    /\ pc[r] = "orderWritten"
    /\ Goto(r, "commissionInserted")
    /\ UNCHANGED <<tables, commission, lockedBalance, held>>

\* createTransaction with idempotencyKey `commission:${delivery.id}`
InsertCommission(r) ==
    /\ pc[r] = "orderWritten"
    /\ ~ KeyExists(Key(r))
    /\ Hold(r, IndexKey(Key(r)))
    /\ Goto(r, "commissionInserted")
    /\ UNCHANGED <<tables, commission, lockedBalance>>

CommissionViolatesUnique(r) ==
    /\ pc[r] = "orderWritten"
    /\ KeyExists(Key(r))
    /\ Rollback(r, "failed")

\* Mutant: the balance is read without FOR UPDATE.
SettleReadBalance(r) ==
    /\ pc[r] = "commissionInserted"
    /\ lockedBalance' = [lockedBalance EXCEPT ![r] = balance[Account(r)]]
    /\ Goto(r, "balanceLocked")
    /\ UNCHANGED <<tables, commission, held>>

\* lockRestaurantBalance: the row is created at 0 if missing, and locked.  The
\* balance it returns is the committed one.
SettleLockBalance(r) ==
    /\ pc[r] = "commissionInserted"
    /\ Hold(r, BalanceRow(Account(r)))
    /\ lockedBalance' = [lockedBalance EXCEPT ![r] = balance[Account(r)]]
    /\ Goto(r, "balanceLocked")
    /\ UNCHANGED <<tables, commission>>

\* setRestaurantBalance, the agent's earning, the outbox rows, trx.commit().
CommitSettlement(r) ==
    /\ pc[r] = "balanceLocked"
    /\ CreditedBalance(r) <= MaxInt
    /\ deliveryStatus' = [deliveryStatus EXCEPT ![DeliveryOf[r]] = "delivered"]
    /\ orderStatus' = [orderStatus EXCEPT ![Order(r)] = "delivered"]
    /\ orderCommission' = [orderCommission EXCEPT ![Order(r)] = commission[r]]
    /\ codCollection' = [codCollection EXCEPT
                           ![Order(r)] = IF @ = "pending" THEN "succeeded" ELSE @]
    /\ transactions' = transactions \cup
          {[type |-> "commission", key |-> Key(r), account |-> Account(r),
            amount |-> commission[r]]}
    /\ balance' = [balance EXCEPT ![Account(r)] = CreditedBalance(r)]
    /\ earnings' = earnings \cup {DeliveryOf[r]}
    /\ completed' = [completed EXCEPT ![DeliveryOf[r]] = @ + 1]
    /\ Commit(r)

\* The UPDATE of the balance fails: "integer out of range".
BalanceOutOfRange(r) ==
    /\ pc[r] = "balanceLocked"
    /\ CreditedBalance(r) > MaxInt
    /\ Rollback(r, "failed")

-----------------------------------------------------------------------------
(* FinanceService.recordPayout. *)

\* Mutant: the balance is read without FOR UPDATE.
PayoutReadBalance(r) ==
    /\ pc[r] = "start"
    /\ lockedBalance' = [lockedBalance EXCEPT ![r] = balance[Account(r)]]
    /\ Goto(r, "balanceLocked")
    /\ UNCHANGED <<tables, commission, held>>

PayoutLockBalance(r) ==
    /\ pc[r] = "start"
    /\ Hold(r, BalanceRow(Account(r)))
    /\ lockedBalance' = [lockedBalance EXCEPT ![r] = balance[Account(r)]]
    /\ Goto(r, "balanceLocked")
    /\ UNCHANGED <<tables, commission>>

\* Mutant: the payout is not looked up.
ReturnExistingUnread(r) ==
    /\ pc[r] = "balanceLocked"
    /\ End(r, "existing")
    /\ UNCHANGED tables

\* findTransactionByIdempotencyKey found a payout: return it.  The commit ends
\* a transaction that has written nothing.
ReturnExisting(r) ==
    /\ pc[r] = "balanceLocked"
    /\ KeyExists(Key(r))
    /\ End(r, "existing")
    /\ UNCHANGED tables

\* Mutant: the transaction is left open.
RejectInsufficientOpen(r) ==
    /\ pc[r] = "balanceLocked"
    /\ ~ KeyExists(Key(r))
    /\ lockedBalance[r] < PayoutAmount[r]
    /\ Goto(r, "insufficient")
    /\ UNCHANGED <<tables, commission, lockedBalance, held>>

RejectInsufficient(r) ==
    /\ pc[r] = "balanceLocked"
    /\ ~ KeyExists(Key(r))
    /\ lockedBalance[r] < PayoutAmount[r]
    /\ Rollback(r, "insufficient")

\* Mutant: no check of the funds.
WriteDebitUnfunded(r) ==
    /\ pc[r] = "balanceLocked"
    /\ ~ KeyExists(Key(r))
    /\ Goto(r, "debitWritten")
    /\ UNCHANGED <<tables, commission, lockedBalance, held>>

\* The balance is written; the payout row is not yet.
WriteDebit(r) ==
    /\ pc[r] = "balanceLocked"
    /\ ~ KeyExists(Key(r))
    /\ lockedBalance[r] >= PayoutAmount[r]
    /\ Goto(r, "debitWritten")
    /\ UNCHANGED <<tables, commission, lockedBalance, held>>

\* Mutant: the payout row is inserted without its key.
InsertPayoutUnkeyed(r) ==
    /\ pc[r] = "debitWritten"
    /\ Goto(r, "payoutInserted")
    /\ UNCHANGED <<tables, commission, lockedBalance, held>>

\* createTransaction with the scoped key: another currency's payout of the
\* same restaurant and key may have got there first.
InsertPayout(r) ==
    /\ pc[r] = "debitWritten"
    /\ ~ KeyExists(Key(r))
    /\ Hold(r, IndexKey(Key(r)))
    /\ Goto(r, "payoutInserted")
    /\ UNCHANGED <<tables, commission, lockedBalance>>

PayoutViolatesUnique(r) ==
    /\ pc[r] = "debitWritten"
    /\ KeyExists(Key(r))
    /\ Rollback(r, "failed")

CommitPayout(r) ==
    /\ pc[r] = "payoutInserted"
    /\ transactions' = transactions \cup
          {[type |-> "payout", key |-> Key(r), account |-> Account(r),
            amount |-> PayoutAmount[r]]}
    /\ balance' = [balance EXCEPT ![Account(r)] = DebitedBalance(r)]
    /\ Commit(r)
    /\ UNCHANGED <<deliveryStatus, orderStatus, orderCommission, codCollection,
                   earnings, completed>>

-----------------------------------------------------------------------------
(* The specification. *)

SettleLabels == {"begun", "deliveryWritten", "orderWritten",
                 "commissionInserted", "balanceLocked"}
PayoutLabels == {"balanceLocked", "debitWritten", "payoutInserted"}
Answers == {"done", "lost", "refused", "failed", "existing", "insufficient"}

InTransaction(r) == pc[r] \in SettleLabels \cup PayoutLabels
Answered(r) == pc[r] \in Answers

\* The server crashes, the connection drops or a statement fails.
Abort(r) == InTransaction(r) /\ Rollback(r, "failed")

Init ==
    /\ deliveryStatus = [d \in Deliveries |-> "picked"]
    /\ orderStatus = [o \in Orders |-> "picked"]
    /\ orderCommission = [o \in Orders |-> 0]
    /\ codCollection = [o \in Orders |->
                          IF o \in CodOrders THEN "pending" ELSE "none"]
    /\ transactions = {}
    /\ balance = OpeningBalance
    /\ earnings = {}
    /\ completed = [d \in Deliveries |-> 0]
    /\ pc = [r \in Requests |-> "start"]
    /\ commission = [r \in Requests |-> 0]
    /\ lockedBalance = [r \in Requests |-> 0]
    /\ held = [r \in Requests |-> {}]

SettleStep(r) ==
    \/ ReadDelivery(r) \/ RefuseTransition(r)
    \/ WriteDelivery(r) \/ WriteOrder(r)
    \/ InsertCommission(r) \/ CommissionViolatesUnique(r)
    \/ SettleLockBalance(r)
    \/ CommitSettlement(r) \/ BalanceOutOfRange(r)

PayoutStep(r) ==
    \/ PayoutLockBalance(r)
    \/ ReturnExisting(r) \/ RejectInsufficient(r) \/ WriteDebit(r)
    \/ InsertPayout(r) \/ PayoutViolatesUnique(r)
    \/ CommitPayout(r)

Next ==
    \/ \E r \in SettleRequests : SettleStep(r)
    \/ \E r \in PayoutRequests : PayoutStep(r)
    \/ \E r \in Requests : Abort(r)

Spec == Init /\ [][Next]_vars

\* Node keeps running the awaits of every request, and Postgres grants a lock
\* to a waiter once it is free.
FairSpec == /\ Spec
            /\ \A r \in SettleRequests : WF_vars(SettleStep(r))
            /\ \A r \in PayoutRequests : WF_vars(PayoutStep(r))

-----------------------------------------------------------------------------
(* Properties. *)

TxRows ==
    [type : {"commission"}, key : Deliveries, account : Accounts, amount : Nat]
    \cup
    [type : {"payout"}, key : PayoutKeys, account : Accounts, amount : Nat]

TablesTypeOK ==
    /\ deliveryStatus \in [Deliveries -> {"picked", "delivered"}]
    /\ orderStatus \in [Orders -> {"picked", "delivered"}]
    /\ orderCommission \in [Orders -> Nat]
    /\ codCollection \in [Orders -> {"none", "pending", "succeeded"}]
    /\ transactions \subseteq TxRows
    /\ balance \in [Accounts -> Int]
    /\ earnings \subseteq Deliveries
    /\ completed \in [Deliveries -> Nat]

LocalsTypeOK ==
    /\ pc \in [Requests -> {"start"} \cup SettleLabels \cup PayoutLabels
                             \cup Answers]
    /\ \A r \in SettleRequests : pc[r] \notin {"debitWritten", "payoutInserted"}
    /\ commission \in [Requests -> Nat]
    /\ \A r \in SettleRequests : commission[r] <= Subtotal[Order(r)]
    /\ lockedBalance \in [Requests -> Int]
    /\ held \in [Requests -> SUBSET Rows]

\* Every variable has its type; a commission, in particular, is never more
\* than the subtotal it is taken from (settleDelivery's floor division).
TypeOK == TablesTypeOK /\ LocalsTypeOK

\* The request has locked and read its balance row; has inserted its
\* transactions row; has found the funds for its payout.
HasBalance(r) == pc[r] \in PayoutLabels
Inserted(r) == IF r \in SettleRequests
               THEN pc[r] \in {"commissionInserted", "balanceLocked"}
               ELSE pc[r] = "payoutInserted"
Debiting(r) == pc[r] \in {"debitWritten", "payoutInserted"}

\* Between lockRestaurantBalance and its commit a request's copy of the balance
\* is the committed one: no settlement or payout overwrites another's.
LockedBalanceIsCurrent ==
    \A r \in Requests :
        HasBalance(r) => lockedBalance[r] = balance[Account(r)]

\* Whatever settlements and payouts overlap, no restaurant is paid out more
\* than it has earned and no balance exceeds its column.
BalanceInRange == \A a \in Accounts : balance[a] \in 0..MaxInt

\* The net credit or debit a transactions row stands for.
Net(t) == IF t.type = "commission" THEN Subtotal[OrderOf[t.key]] - t.amount
                                   ELSE - t.amount

\* The balance of an account is its opening balance, plus what its delivered
\* orders earned net of commission, less its payouts: nothing is lost, counted
\* twice or left half-written by the requests that failed.
BalanceMatchesRows ==
    \A a \in Accounts :
        balance[a] = OpeningBalance[a]
            + MapThenSumSet(Net, {t \in transactions : t.account = a})

\* settleDelivery happens once or not at all: the delivery and its order are
\* delivered, the agent's earning exists, the COD collection has succeeded and
\* one delivery.completed event is written exactly when the commission exists.
SettledOnceAndWhole ==
    \A d \in Deliveries :
        IF KeyExists(d)
        THEN /\ deliveryStatus[d] = "delivered"
             /\ orderStatus[OrderOf[d]] = "delivered"
             /\ codCollection[OrderOf[d]] # "pending"
             /\ d \in earnings
             /\ completed[d] = 1
        ELSE /\ deliveryStatus[d] = "picked"
             /\ d \notin earnings
             /\ completed[d] = 0

\* Whoever is told a payout was made can find it in the payout history; a
\* caller whose answer was lost may retry with the key.
PayoutAnswerIsTrue ==
    \A r \in PayoutRequests :
        pc[r] \in {"done", "lost", "existing"} =>
            \E t \in transactions : t.type = "payout" /\ t.key = PayoutKey[r]

\* No two transactions hold one row or key.
LocksExclusive ==
    \A q, r \in Requests : q # r => held[q] \cap held[r] = {}

\* What a request's transaction relies on at each of its statements.
RequestOK(r) ==
    /\ HasBalance(r) => /\ BalanceRow(Account(r)) \in held[r]
                        /\ lockedBalance[r] = balance[Account(r)]
    /\ Inserted(r) => /\ IndexKey(Key(r)) \in held[r]
                      /\ ~ KeyExists(Key(r))
    /\ r \in PayoutRequests /\ Debiting(r)
          => lockedBalance[r] >= PayoutAmount[r]

\* The inductive invariant: the locks of createTransaction and
\* lockRestaurantBalance exclude each other's holders, so what each request
\* read under them is still so, and its commit keeps the tables whole.
IInv ==
    /\ TypeOK
    /\ LocksExclusive
    /\ \A r \in Requests : RequestOK(r)
    /\ BalanceInRange
    /\ SettledOnceAndWhole
    /\ PayoutAnswerIsTrue

\* Settlement and payouts implement the ledger.
Ledger == INSTANCE RestaurantLedger WITH
    entries <- {[key |-> t.key, account |-> t.account, amount |-> Net(t)] :
                   t \in transactions}

LedgerSpec == Ledger!Spec

\* No request waits forever: lock waits never form a cycle and every rollback
\* gives its rows back.
EveryRequestAnswered == <>(\A r \in Requests : Answered(r))
=============================================================================
