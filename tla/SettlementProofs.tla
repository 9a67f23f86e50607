-------------------------- MODULE SettlementProofs --------------------------
(***************************************************************************)
(* Theorems about Settlement for any number of requests, deliveries,       *)
(* orders, accounts and keys, any amounts, and any width of the balance.   *)
(***************************************************************************)
EXTENDS Settlement, FiniteSetTheorems, WellFoundedInduction, TLAPS

-----------------------------------------------------------------------------
(* Facts about the constants and the operators. *)

\* What a settle request names is in the tables.
LEMMA SettleFacts ==
    ASSUME NEW r \in SettleRequests
    PROVE  /\ r \in Requests
           /\ DeliveryOf[r] \in Deliveries
           /\ Order(r) \in Orders
           /\ Subtotal[Order(r)] \in Nat
           /\ Account(r) \in Accounts
           /\ Account(r) = AccountOf[Order(r)]
           /\ Key(r) = DeliveryOf[r]
           /\ Key(r) \in Keys
  BY RequestsAssumption, OrdersAssumption
     DEF Requests, Order, Account, Key, Keys

\* What a payout request names is in the tables.
LEMMA PayoutFacts ==
    ASSUME NEW r \in PayoutRequests
    PROVE  /\ r \in Requests
           /\ r \notin SettleRequests
           /\ Account(r) \in Accounts
           /\ Key(r) = PayoutKey[r]
           /\ Key(r) \in PayoutKeys
           /\ Key(r) \in Keys
           /\ PayoutAmount[r] \in Nat
           /\ PayoutAmount[r] > 0
  BY RequestsAssumption, AmountAssumption DEF Requests, Account, Key, Keys

\* Every row and key a transaction may hold.
LEMMA RowFacts ==
    /\ \A d \in Deliveries : DeliveryRow(d) \in Rows
    /\ \A o \in Orders : OrderRow(o) \in Rows
    /\ \A a \in Accounts : BalanceRow(a) \in Rows
    /\ \A k \in Keys : IndexKey(k) \in Rows
  BY DEF Rows

\* The commission is a natural number no larger than the subtotal.
LEMMA CommissionBounds ==
    ASSUME NEW s \in Nat, NEW b \in BpsValues
    PROVE  CommissionFor(s, b) \in 0..s
<1>1. b \in Nat /\ b <= 10000
  BY BpsAssumption
<1>2. s * b \in Nat
  BY <1>1
<1>3. s * b <= 10000 * s
  BY <1>1, SMT
<1>. DEFINE p == s * b
<1>4. \A x \in Nat : x <= 10000 * s => x \div 10000 \in 0..s
  BY SMT
<1>. QED
  BY <1>2, <1>3, <1>4 DEF CommissionFor

-----------------------------------------------------------------------------
(* Type correctness. *)

\* Ending a request leaves its locals typed.
LEMMA EndTypeOK ==
    ASSUME LocalsTypeOK, NEW r \in Requests, NEW answer \in Answers,
           End(r, answer)
    PROVE  LocalsTypeOK'
<1>1. /\ pc' \in [Requests -> {"start"} \cup SettleLabels \cup PayoutLabels
                               \cup Answers]
      /\ commission' \in [Requests -> Nat]
      /\ lockedBalance' \in [Requests -> Int]
      /\ held' \in [Requests -> SUBSET Rows]
  BY DEF LocalsTypeOK, End
<1>2. ASSUME NEW q \in SettleRequests
      PROVE  /\ pc'[q] \notin {"debitWritten", "payoutInserted"}
             /\ commission'[q] <= Subtotal[Order(q)]
  BY SettleFacts DEF LocalsTypeOK, End, Answers
<1>. QED
  BY <1>1, <1>2 DEF LocalsTypeOK, Order

\* A rolled-back request leaves everything typed.
LEMMA RollbackTypeOK ==
    ASSUME TypeOK, NEW r \in Requests, NEW answer \in Answers,
           End(r, answer), UNCHANGED tables
    PROVE  TypeOK'
<1>1. LocalsTypeOK'
  BY EndTypeOK DEF TypeOK
<1>2. TablesTypeOK'
  BY DEF TypeOK, TablesTypeOK, tables
<1>. QED
  BY <1>1, <1>2 DEF TypeOK

\* Taking a row and going on leaves everything typed.
LEMMA HoldTypeOK ==
    ASSUME TypeOK, NEW r \in Requests, NEW row \in Rows, Hold(r, row),
           NEW label \in SettleLabels \cup PayoutLabels, Goto(r, label),
           r \in SettleRequests => label \in SettleLabels,
           UNCHANGED <<tables, commission>>,
           lockedBalance' \in [Requests -> Int]
    PROVE  TypeOK'
<1>1. TablesTypeOK'
  BY DEF TypeOK, TablesTypeOK, tables
<1>2. /\ pc' \in [Requests -> {"start"} \cup SettleLabels \cup PayoutLabels
                               \cup Answers]
      /\ \A q \in SettleRequests : pc'[q] \notin {"debitWritten", "payoutInserted"}
  BY SettleFacts DEF TypeOK, LocalsTypeOK, Goto, SettleLabels
<1>3. held' \in [Requests -> SUBSET Rows]
  BY DEF TypeOK, LocalsTypeOK, Hold
<1>4. \A q \in SettleRequests : commission'[q] <= Subtotal[Order(q)]
  BY DEF TypeOK, LocalsTypeOK
<1>5. commission' \in [Requests -> Nat]
  BY DEF TypeOK, LocalsTypeOK
<1>. QED
  BY <1>1, <1>2, <1>3, <1>4, <1>5 DEF TypeOK, LocalsTypeOK, Order

\* Every step of a settlement preserves the types.
LEMMA SettleStepTypeOK ==
    ASSUME TypeOK, NEW r \in SettleRequests, SettleStep(r)
    PROVE  TypeOK'
<1>. USE SettleFacts, RowFacts
<1>1. CASE ReadDelivery(r)
  <2>1. PICK bps \in BpsValues : commission' =
          [commission EXCEPT ![r] = CommissionFor(Subtotal[Order(r)], bps)]
    BY <1>1 DEF ReadDelivery
  <2>2. CommissionFor(Subtotal[Order(r)], bps) \in 0..Subtotal[Order(r)]
    BY CommissionBounds
  <2>3. /\ commission' \in [Requests -> Nat]
        /\ \A q \in SettleRequests : commission'[q] <= Subtotal[Order(q)]
    BY <2>1, <2>2 DEF TypeOK, LocalsTypeOK
  <2>4. /\ pc' \in [Requests -> {"start"} \cup SettleLabels \cup PayoutLabels
                                 \cup Answers]
        /\ \A q \in SettleRequests : pc'[q] \notin {"debitWritten", "payoutInserted"}
    BY <1>1 DEF ReadDelivery, Goto, TypeOK, LocalsTypeOK, SettleLabels
  <2>5. TablesTypeOK' /\ UNCHANGED <<lockedBalance, held>>
    BY <1>1 DEF ReadDelivery, TypeOK, TablesTypeOK, tables
  <2>. QED
    BY <2>3, <2>4, <2>5 DEF TypeOK, LocalsTypeOK, Order
<1>2. CASE RefuseTransition(r)
  BY <1>2, RollbackTypeOK DEF RefuseTransition, Rollback, Answers
<1>3. CASE WriteDelivery(r)
  BY <1>3, HoldTypeOK DEF WriteDelivery, SettleLabels, TypeOK, LocalsTypeOK
<1>4. CASE WriteOrder(r)
  BY <1>4, HoldTypeOK DEF WriteOrder, SettleLabels, TypeOK, LocalsTypeOK
<1>5. CASE InsertCommission(r)
  BY <1>5, HoldTypeOK DEF InsertCommission, SettleLabels, TypeOK, LocalsTypeOK
<1>6. CASE CommissionViolatesUnique(r)
  BY <1>6, RollbackTypeOK DEF CommissionViolatesUnique, Rollback, Answers
<1>7. CASE SettleLockBalance(r)
  <2>1. balance[Account(r)] \in Int
    BY DEF TypeOK, TablesTypeOK
  <2>2. lockedBalance' \in [Requests -> Int]
    BY <1>7, <2>1 DEF SettleLockBalance, TypeOK, LocalsTypeOK
  <2>. QED
    BY <1>7, <2>2, HoldTypeOK DEF SettleLockBalance, SettleLabels
<1>8. CASE CommitSettlement(r)
  <2>1. LocalsTypeOK'
    BY <1>8, EndTypeOK DEF CommitSettlement, Commit, Answers, TypeOK
  <2>2. /\ deliveryStatus' \in [Deliveries -> {"picked", "delivered"}]
        /\ orderStatus' \in [Orders -> {"picked", "delivered"}]
        /\ codCollection' \in [Orders -> {"none", "pending", "succeeded"}]
        /\ earnings' \subseteq Deliveries
    BY <1>8 DEF CommitSettlement, TypeOK, TablesTypeOK
  <2>3. completed' \in [Deliveries -> Nat]
    BY <1>8 DEF CommitSettlement, TypeOK, TablesTypeOK
  <2>4. /\ commission[r] \in Nat
        /\ lockedBalance[r] \in Int
    BY DEF TypeOK, LocalsTypeOK
  <2>5. orderCommission' \in [Orders -> Nat]
    BY <1>8, <2>4 DEF CommitSettlement, TypeOK, TablesTypeOK
  <2>6. transactions' \subseteq TxRows
    BY <1>8, <2>4 DEF CommitSettlement, TypeOK, TablesTypeOK, TxRows
  <2>7. balance' \in [Accounts -> Int]
    BY <1>8, <2>4 DEF CommitSettlement, CreditedBalance, TypeOK, TablesTypeOK
  <2>. QED
    BY <2>1, <2>2, <2>3, <2>5, <2>6, <2>7 DEF TypeOK, TablesTypeOK
<1>9. CASE BalanceOutOfRange(r)
  BY <1>9, RollbackTypeOK DEF BalanceOutOfRange, Rollback, Answers
<1>. QED
  BY <1>1, <1>2, <1>3, <1>4, <1>5, <1>6, <1>7, <1>8, <1>9 DEF SettleStep

\* Every step of a payout preserves the types.
LEMMA PayoutStepTypeOK ==
    ASSUME TypeOK, NEW r \in PayoutRequests, PayoutStep(r)
    PROVE  TypeOK'
<1>. USE PayoutFacts, RowFacts
<1>1. CASE PayoutLockBalance(r)
  <2>1. balance[Account(r)] \in Int
    BY DEF TypeOK, TablesTypeOK
  <2>2. lockedBalance' \in [Requests -> Int]
    BY <1>1, <2>1 DEF PayoutLockBalance, TypeOK, LocalsTypeOK
  <2>. QED
    BY <1>1, <2>2, HoldTypeOK DEF PayoutLockBalance, PayoutLabels
<1>2. CASE ReturnExisting(r)
  BY <1>2, RollbackTypeOK DEF ReturnExisting, Answers
<1>3. CASE RejectInsufficient(r)
  BY <1>3, RollbackTypeOK DEF RejectInsufficient, Rollback, Answers
<1>4. CASE WriteDebit(r)
  <2>1. TablesTypeOK' /\ UNCHANGED <<commission, lockedBalance, held>>
    BY <1>4 DEF WriteDebit, TypeOK, TablesTypeOK, tables
  <2>2. /\ pc' \in [Requests -> {"start"} \cup SettleLabels \cup PayoutLabels
                                 \cup Answers]
        /\ \A q \in SettleRequests : pc'[q] \notin {"debitWritten", "payoutInserted"}
    BY <1>4 DEF WriteDebit, Goto, PayoutLabels, TypeOK, LocalsTypeOK
  <2>. QED
    BY <2>1, <2>2 DEF TypeOK, LocalsTypeOK, Order
<1>5. CASE InsertPayout(r)
  BY <1>5, HoldTypeOK DEF InsertPayout, PayoutLabels, TypeOK, LocalsTypeOK
<1>6. CASE PayoutViolatesUnique(r)
  BY <1>6, RollbackTypeOK DEF PayoutViolatesUnique, Rollback, Answers
<1>7. CASE CommitPayout(r)
  <2>1. LocalsTypeOK'
    BY <1>7, EndTypeOK DEF CommitPayout, Commit, Answers, TypeOK
  <2>2. transactions' \subseteq TxRows
    BY <1>7 DEF CommitPayout, TypeOK, TablesTypeOK, TxRows
  <2>3. lockedBalance[r] \in Int
    BY DEF TypeOK, LocalsTypeOK
  <2>4. balance' \in [Accounts -> Int]
    BY <1>7, <2>3 DEF CommitPayout, DebitedBalance, TypeOK, TablesTypeOK
  <2>. QED
    BY <1>7, <2>1, <2>2, <2>4 DEF CommitPayout, TypeOK, TablesTypeOK
<1>. QED
  BY <1>1, <1>2, <1>3, <1>4, <1>5, <1>6, <1>7 DEF PayoutStep

\* Type correctness, with the bound on commissions, of every reachable state.
THEOREM TypeCorrect == Spec => []TypeOK
<1>1. Init => TypeOK
  <2>. SUFFICES ASSUME Init PROVE TypeOK
    OBVIOUS
  <2>2. TablesTypeOK
    BY BalanceAssumption DEF Init, TablesTypeOK
  <2>3. LocalsTypeOK
    BY SettleFacts DEF Init, LocalsTypeOK
  <2>. QED
    BY <2>2, <2>3 DEF TypeOK
<1>2. TypeOK /\ [Next]_vars => TypeOK'
  <2>. SUFFICES ASSUME TypeOK, [Next]_vars PROVE TypeOK'
    OBVIOUS
  <2>2. CASE \E r \in SettleRequests : SettleStep(r)
    BY <2>2, SettleStepTypeOK
  <2>3. CASE \E r \in PayoutRequests : PayoutStep(r)
    BY <2>3, PayoutStepTypeOK
  <2>4. CASE \E r \in Requests : Abort(r)
    BY <2>4, RollbackTypeOK DEF Abort, Rollback, Answers
  <2>5. CASE UNCHANGED vars
    BY <2>5 DEF vars, tables, locals, TypeOK, TablesTypeOK, LocalsTypeOK, Order
  <2>. QED
    BY <2>2, <2>3, <2>4, <2>5 DEF Next
<1>. QED
  BY <1>1, <1>2, PTL DEF Spec

-----------------------------------------------------------------------------
(* The inductive invariant. *)

\* Taking a row nobody holds keeps holders apart.
LEMMA HoldExclusive ==
    ASSUME TypeOK, LocksExclusive, NEW r \in Requests, NEW row, Hold(r, row)
    PROVE  /\ LocksExclusive'
           /\ row \in held'[r]
           /\ \A q \in Requests : held[q] \subseteq held'[q]
<1>1. held' = [held EXCEPT ![r] = @ \cup {row}] /\ \A q \in Requests : row \notin held[q]
  BY DEF Hold, Free
<1>2. DOMAIN held = Requests
  BY DEF TypeOK, LocalsTypeOK
<1>. QED
  BY <1>1, <1>2 DEF LocksExclusive

\* Giving every row back keeps holders apart.
LEMMA EndExclusive ==
    ASSUME TypeOK, LocksExclusive, NEW r \in Requests, NEW answer,
           End(r, answer)
    PROVE  LocksExclusive'
<1>1. held' = [held EXCEPT ![r] = {}] /\ DOMAIN held = Requests
  BY DEF End, TypeOK, LocalsTypeOK
<1>. QED
  BY <1>1 DEF LocksExclusive

\* A request relies on nothing once it has been answered.
LEMMA EndedRequestOK ==
    ASSUME TypeOK, NEW r \in Requests, NEW answer \in Answers, End(r, answer)
    PROVE  RequestOK(r)'
<1>1. pc'[r] \in Answers
  BY DEF End, TypeOK, LocalsTypeOK
<1>. QED
  BY <1>1 DEF RequestOK, HasBalance, Inserted, Debiting, Answers, PayoutLabels

\* A request is undisturbed by another's step that leaves the tables alone.
LEMMA OtherRequestOK ==
    ASSUME NEW q \in Requests, RequestOK(q), UNCHANGED tables,
           pc'[q] = pc[q], lockedBalance'[q] = lockedBalance[q],
           held[q] \subseteq held'[q]
    PROVE  RequestOK(q)'
  BY DEF RequestOK, HasBalance, Inserted, Debiting, tables, KeyExists,
         Account, Order, Key

\* What depends on the tables alone, or on who has been answered, is kept by
\* a step that leaves the tables alone and answers nobody that a payout exists.
LEMMA TablesKept ==
    ASSUME BalanceInRange, SettledOnceAndWhole, PayoutAnswerIsTrue,
           UNCHANGED tables,
           \A q \in PayoutRequests :
              pc'[q] \in {"done", "lost", "existing"} =>
                 \/ pc[q] = pc'[q]
                 \/ \E t \in transactions :
                       t.type = "payout" /\ t.key = PayoutKey[q]
    PROVE  BalanceInRange' /\ SettledOnceAndWhole' /\ PayoutAnswerIsTrue'
<1>1. BalanceInRange' /\ SettledOnceAndWhole'
  BY DEF tables, BalanceInRange, SettledOnceAndWhole, KeyExists
<1>2. PayoutAnswerIsTrue'
  BY DEF tables, PayoutAnswerIsTrue
<1>. QED
  BY <1>1, <1>2

\* Answering a request without writing anything preserves the invariant.
LEMMA EndInvariant ==
    ASSUME IInv, NEW r \in Requests, NEW answer \in Answers,
           End(r, answer), UNCHANGED tables,
           r \in PayoutRequests /\ answer \in {"done", "lost", "existing"} =>
              \E t \in transactions : t.type = "payout" /\ t.key = PayoutKey[r]
    PROVE  IInv'
<1>1. TypeOK' /\ LocksExclusive'
  BY RollbackTypeOK, EndExclusive DEF IInv
<1>2. ASSUME NEW q \in Requests PROVE RequestOK(q)'
  <2>1. CASE q = r
    BY <2>1, EndedRequestOK DEF IInv
  <2>2. CASE q # r
    <3>1. pc'[q] = pc[q] /\ lockedBalance'[q] = lockedBalance[q] /\ held'[q] = held[q]
      BY <2>2 DEF IInv, TypeOK, LocalsTypeOK, End
    <3>. QED
      BY <3>1, OtherRequestOK DEF IInv
  <2>. QED
    BY <2>1, <2>2
<1>3. \A q \in PayoutRequests :
        pc'[q] \in {"done", "lost", "existing"} =>
           \/ pc[q] = pc'[q]
           \/ \E t \in transactions : t.type = "payout" /\ t.key = PayoutKey[q]
  BY PayoutFacts DEF IInv, TypeOK, LocalsTypeOK, End
<1>4. BalanceInRange' /\ SettledOnceAndWhole' /\ PayoutAnswerIsTrue'
  BY <1>3, TablesKept DEF IInv
<1>. QED
  BY <1>1, <1>2, <1>4 DEF IInv

\* Moving on without writing preserves the invariant, if the request itself
\* has what its next label relies on.
LEMMA GotoInvariant ==
    ASSUME IInv, NEW r \in Requests, NEW label \in SettleLabels \cup PayoutLabels,
           Goto(r, label), UNCHANGED tables, TypeOK', LocksExclusive',
           \A q \in Requests : held[q] \subseteq held'[q],
           \A q \in Requests : q # r => lockedBalance'[q] = lockedBalance[q],
           RequestOK(r)'
    PROVE  IInv'
<1>1. ASSUME NEW q \in Requests PROVE RequestOK(q)'
  <2>1. CASE q # r
    <3>1. pc'[q] = pc[q]
      BY <2>1 DEF IInv, TypeOK, LocalsTypeOK, Goto
    <3>. QED
      BY <2>1, <3>1, OtherRequestOK DEF IInv
  <2>. QED
    BY <2>1
<1>2. \A q \in PayoutRequests :
        pc'[q] \in {"done", "lost", "existing"} => pc[q] = pc'[q]
  BY PayoutFacts DEF IInv, TypeOK, LocalsTypeOK, Goto, SettleLabels, PayoutLabels
<1>3. BalanceInRange' /\ SettledOnceAndWhole' /\ PayoutAnswerIsTrue'
  BY <1>2, TablesKept DEF IInv
<1>. QED
  BY <1>1, <1>3 DEF IInv

\* A commit leaves another request's copy of the balance current and its key
\* free: had they met, one of them would not have got the row or the key.
LEMMA OtherCommit ==
    ASSUME IInv, NEW r \in Requests, NEW q \in Requests, q # r,
           HasBalance(r), Inserted(r), Account(r) \in Accounts,
           NEW answer \in Answers, End(r, answer),
           NEW row, row.key = Key(r), transactions' = transactions \cup {row},
           NEW b, balance' = [balance EXCEPT ![Account(r)] = b],
           Account(q) \in Accounts
    PROVE  RequestOK(q)'
<1>1. pc'[q] = pc[q] /\ lockedBalance'[q] = lockedBalance[q] /\ held'[q] = held[q]
  BY DEF IInv, TypeOK, LocalsTypeOK, End
<1>2. /\ BalanceRow(Account(r)) \in held[r]
      /\ IndexKey(Key(r)) \in held[r]
      /\ held[q] \cap held[r] = {}
  BY DEF IInv, RequestOK, LocksExclusive
<1>3. RequestOK(q)
  BY DEF IInv
<1>4. CASE HasBalance(q)
  <2>1. Account(q) # Account(r)
    BY <1>2, <1>3, <1>4 DEF RequestOK
  <2>. QED BY <2>1, <1>1, <1>2, <1>3
           DEF RequestOK, HasBalance, Inserted, Debiting, KeyExists, Account,
               Order, Key, IInv, TypeOK, TablesTypeOK
<1>5. CASE ~ HasBalance(q)
  BY <1>1, <1>2, <1>3, <1>5
     DEF RequestOK, HasBalance, Inserted, Debiting, KeyExists, Account, Order,
         Key, PayoutLabels
<1>. QED
  BY <1>4, <1>5

\* An account's credit stays within the column.
LEMMA CreditInRange ==
    ASSUME IInv, NEW r \in SettleRequests, pc[r] = "balanceLocked",
           CreditedBalance(r) <= MaxInt
    PROVE  CreditedBalance(r) \in 0..MaxInt
<1>. USE SettleFacts
<1>1. lockedBalance[r] = balance[Account(r)] /\ balance[Account(r)] \in 0..MaxInt
  BY DEF IInv, RequestOK, HasBalance, PayoutLabels, BalanceInRange
<1>2. commission[r] \in Nat /\ commission[r] <= Subtotal[Order(r)]
  BY DEF IInv, TypeOK, LocalsTypeOK
<1>. QED
  BY <1>1, <1>2, BalanceAssumption DEF CreditedBalance

\* A payout's debit stays within the column.
LEMMA DebitInRange ==
    ASSUME IInv, NEW r \in PayoutRequests, pc[r] = "payoutInserted"
    PROVE  DebitedBalance(r) \in 0..MaxInt
<1>. USE PayoutFacts
<1>1. lockedBalance[r] = balance[Account(r)] /\ balance[Account(r)] \in 0..MaxInt
  BY DEF IInv, RequestOK, HasBalance, PayoutLabels, BalanceInRange
<1>2. lockedBalance[r] >= PayoutAmount[r]
  BY DEF IInv, RequestOK, Debiting
<1>. QED
  BY <1>1, <1>2, BalanceAssumption DEF DebitedBalance

\* Every step of a settlement preserves the invariant.
LEMMA SettleStepInvariant ==
    ASSUME IInv, NEW r \in SettleRequests, SettleStep(r)
    PROVE  IInv'
<1>. USE SettleFacts
<1>0. TypeOK' /\ RequestOK(r) /\ TypeOK /\ LocksExclusive
  BY SettleStepTypeOK DEF IInv
<1>p. r \notin PayoutRequests
  BY RequestsAssumption
<1>1. CASE ReadDelivery(r)
  <2>1. /\ pc'[r] = "begun" /\ UNCHANGED <<tables, held, lockedBalance>>
        /\ Goto(r, "begun")
    BY <1>0, <1>1 DEF ReadDelivery, Goto, TypeOK, LocalsTypeOK
  <2>2. RequestOK(r)' /\ LocksExclusive'
    BY <1>0, <2>1 DEF RequestOK, HasBalance, Inserted, Debiting, PayoutLabels,
                      LocksExclusive
  <2>. QED
    BY <1>0, <2>1, <2>2, GotoInvariant DEF SettleLabels
<1>2. CASE RefuseTransition(r)
  BY <1>2, <1>p, EndInvariant DEF RefuseTransition, Rollback, Answers
<1>3. CASE WriteDelivery(r)
  <2>1. /\ pc'[r] = "deliveryWritten" /\ UNCHANGED <<tables, lockedBalance>>
        /\ Goto(r, "deliveryWritten")
    BY <1>0, <1>3 DEF WriteDelivery, Goto, TypeOK, LocalsTypeOK
  <2>2. RequestOK(r)'
    BY <2>1 DEF RequestOK, HasBalance, Inserted, Debiting, PayoutLabels
  <2>3. LocksExclusive' /\ \A q \in Requests : held[q] \subseteq held'[q]
    BY <1>0, <1>3, HoldExclusive DEF WriteDelivery
  <2>. QED
    BY <1>0, <2>1, <2>2, <2>3, GotoInvariant DEF SettleLabels
<1>4. CASE WriteOrder(r)
  <2>1. /\ pc'[r] = "orderWritten" /\ UNCHANGED <<tables, lockedBalance>>
        /\ Goto(r, "orderWritten")
    BY <1>0, <1>4 DEF WriteOrder, Goto, TypeOK, LocalsTypeOK
  <2>2. RequestOK(r)'
    BY <2>1 DEF RequestOK, HasBalance, Inserted, Debiting, PayoutLabels
  <2>3. LocksExclusive' /\ \A q \in Requests : held[q] \subseteq held'[q]
    BY <1>0, <1>4, HoldExclusive DEF WriteOrder
  <2>. QED
    BY <1>0, <2>1, <2>2, <2>3, GotoInvariant DEF SettleLabels
<1>5. CASE InsertCommission(r)
  <2>1. /\ pc'[r] = "commissionInserted" /\ UNCHANGED <<tables, lockedBalance>>
        /\ Goto(r, "commissionInserted") /\ ~ KeyExists(Key(r))
    BY <1>0, <1>5 DEF InsertCommission, Goto, TypeOK, LocalsTypeOK
  <2>2. /\ LocksExclusive' /\ \A q \in Requests : held[q] \subseteq held'[q]
        /\ IndexKey(Key(r)) \in held'[r]
    BY <1>0, <1>5, HoldExclusive DEF InsertCommission
  <2>3. RequestOK(r)'
    BY <2>1, <2>2 DEF RequestOK, HasBalance, Inserted, Debiting, PayoutLabels,
                      KeyExists, tables, Key
  <2>. QED
    BY <1>0, <2>1, <2>2, <2>3, GotoInvariant DEF SettleLabels
<1>6. CASE CommissionViolatesUnique(r)
  BY <1>6, <1>p, EndInvariant DEF CommissionViolatesUnique, Rollback, Answers
<1>7. CASE SettleLockBalance(r)
  <2>1. /\ pc'[r] = "balanceLocked" /\ UNCHANGED tables
        /\ Goto(r, "balanceLocked") /\ lockedBalance'[r] = balance[Account(r)]
        /\ \A q \in Requests : q # r => lockedBalance'[q] = lockedBalance[q]
        /\ pc[r] = "commissionInserted"
    BY <1>0, <1>7 DEF SettleLockBalance, Goto, TypeOK, LocalsTypeOK
  <2>2. /\ LocksExclusive' /\ \A q \in Requests : held[q] \subseteq held'[q]
        /\ BalanceRow(Account(r)) \in held'[r]
    BY <1>0, <1>7, HoldExclusive DEF SettleLockBalance
  <2>3. IndexKey(Key(r)) \in held[r] /\ ~ KeyExists(Key(r))
    BY <1>0, <2>1 DEF RequestOK, Inserted
  <2>4. RequestOK(r)'
    BY <1>p, <2>1, <2>2, <2>3 DEF RequestOK, HasBalance, Inserted, Debiting,
                      PayoutLabels, KeyExists, tables, Key, Account, Order
  <2>. QED
    BY <1>0, <2>1, <2>2, <2>4, GotoInvariant DEF SettleLabels
<1>8. CASE CommitSettlement(r)
  <2>1. PICK answer \in Answers : End(r, answer)
    BY <1>8 DEF CommitSettlement, Commit, Answers
  <2>. DEFINE row == [type |-> "commission", key |-> Key(r),
                      account |-> Account(r), amount |-> commission[r]]
  <2>2. /\ pc[r] = "balanceLocked" /\ CreditedBalance(r) <= MaxInt
        /\ transactions' = transactions \cup {row}
        /\ balance' = [balance EXCEPT ![Account(r)] = CreditedBalance(r)]
    BY <1>8 DEF CommitSettlement
  <2>3. HasBalance(r) /\ Inserted(r) /\ row.key = Key(r)
    BY <2>2 DEF HasBalance, Inserted, PayoutLabels
  <2>4. ~ KeyExists(Key(r))
    BY <1>0, <2>3 DEF RequestOK
  <2>5. ASSUME NEW q \in Requests PROVE RequestOK(q)'
    <3>1. CASE q = r
      BY <3>1, <2>1, <1>0, EndedRequestOK
    <3>2. CASE q # r
      <4>1. Account(q) \in Accounts
        BY PayoutFacts DEF Requests
      <4>. HIDE DEF row
      <4>. QED
        BY <3>2, <4>1, <2>1, <2>2, <2>3, OtherCommit
    <3>. QED
      BY <3>1, <3>2
  <2>6. BalanceInRange'
    BY <2>2, CreditInRange DEF IInv, TypeOK, TablesTypeOK, BalanceInRange
  <2>7. SettledOnceAndWhole'
    <3>. SUFFICES ASSUME NEW d \in Deliveries
                  PROVE  IF KeyExists(d)'
                         THEN /\ deliveryStatus'[d] = "delivered"
                              /\ orderStatus'[OrderOf[d]] = "delivered"
                              /\ codCollection'[OrderOf[d]] # "pending"
                              /\ d \in earnings'
                              /\ completed'[d] = 1
                         ELSE /\ deliveryStatus'[d] = "picked"
                              /\ d \notin earnings'
                              /\ completed'[d] = 0
      BY DEF SettledOnceAndWhole
    <3>1. KeyExists(d)' <=> KeyExists(d) \/ d = DeliveryOf[r]
      <4>1. row.key = DeliveryOf[r] /\ transactions' = transactions \cup {row}
        BY <2>2, <2>3
      <4>. HIDE DEF row
      <4>. QED
        BY <4>1 DEF KeyExists
    <3>2. /\ OrderOf[d] \in Orders /\ Order(r) = OrderOf[DeliveryOf[r]]
          /\ TablesTypeOK
      BY <1>0, OrdersAssumption DEF Order, TypeOK
    <3>3. CASE d = DeliveryOf[r]
      BY <1>8, <2>4, <3>1, <3>2, <3>3
         DEF CommitSettlement, IInv, SettledOnceAndWhole, TablesTypeOK
    <3>4. CASE d # DeliveryOf[r]
      BY <1>8, <3>1, <3>2, <3>4
         DEF CommitSettlement, IInv, SettledOnceAndWhole, TablesTypeOK
    <3>. QED
      BY <3>3, <3>4
  <2>8. PayoutAnswerIsTrue'
    BY <2>1, <2>2, <1>p, PayoutFacts
       DEF PayoutAnswerIsTrue, IInv, End, TypeOK, LocalsTypeOK
  <2>9. LocksExclusive'
    BY <2>1, <1>0, EndExclusive
  <2>. QED
    BY <1>0, <2>5, <2>6, <2>7, <2>8, <2>9 DEF IInv
<1>9. CASE BalanceOutOfRange(r)
  BY <1>9, <1>p, EndInvariant DEF BalanceOutOfRange, Rollback, Answers
<1>. QED
  BY <1>1, <1>2, <1>3, <1>4, <1>5, <1>6, <1>7, <1>8, <1>9 DEF SettleStep

\* Every step of a payout preserves the invariant.
LEMMA PayoutStepInvariant ==
    ASSUME IInv, NEW r \in PayoutRequests, PayoutStep(r)
    PROVE  IInv'
<1>. USE PayoutFacts
<1>0. TypeOK' /\ RequestOK(r) /\ TypeOK /\ LocksExclusive
  BY PayoutStepTypeOK DEF IInv
<1>1. CASE PayoutLockBalance(r)
  <2>1. /\ pc'[r] = "balanceLocked" /\ UNCHANGED tables
        /\ Goto(r, "balanceLocked") /\ lockedBalance'[r] = balance[Account(r)]
        /\ \A q \in Requests : q # r => lockedBalance'[q] = lockedBalance[q]
    BY <1>0, <1>1 DEF PayoutLockBalance, Goto, TypeOK, LocalsTypeOK
  <2>2. /\ LocksExclusive' /\ \A q \in Requests : held[q] \subseteq held'[q]
        /\ BalanceRow(Account(r)) \in held'[r]
    BY <1>0, <1>1, HoldExclusive DEF PayoutLockBalance
  <2>3. RequestOK(r)'
    BY <2>1, <2>2 DEF RequestOK, HasBalance, Inserted, Debiting, PayoutLabels,
                      tables, Account
  <2>. QED
    BY <1>0, <2>1, <2>2, <2>3, GotoInvariant DEF PayoutLabels
<1>2. CASE ReturnExisting(r)
  <2>1. \E t \in transactions : t.type = "payout" /\ t.key = PayoutKey[r]
    <3>1. PICK t \in transactions : t.key = PayoutKey[r]
      BY <1>2 DEF ReturnExisting, KeyExists
    <3>2. t.type = "payout"
      BY <1>0, <3>1, RequestsAssumption DEF TypeOK, TablesTypeOK, TxRows
    <3>. QED
      BY <3>1, <3>2
  <2>. QED
    BY <1>2, <2>1, EndInvariant DEF ReturnExisting, Answers
<1>3. CASE RejectInsufficient(r)
  BY <1>3, EndInvariant DEF RejectInsufficient, Rollback, Answers
<1>4. CASE WriteDebit(r)
  <2>1. /\ pc'[r] = "debitWritten" /\ UNCHANGED <<tables, held, lockedBalance>>
        /\ Goto(r, "debitWritten") /\ pc[r] = "balanceLocked"
        /\ lockedBalance[r] >= PayoutAmount[r]
    BY <1>0, <1>4 DEF WriteDebit, Goto, TypeOK, LocalsTypeOK
  <2>2. RequestOK(r)' /\ LocksExclusive'
    BY <1>0, <2>1 DEF RequestOK, HasBalance, Inserted, Debiting, PayoutLabels,
                      LocksExclusive, tables, Account
  <2>. QED
    BY <1>0, <2>1, <2>2, GotoInvariant DEF PayoutLabels
<1>5. CASE InsertPayout(r)
  <2>1. /\ pc'[r] = "payoutInserted" /\ UNCHANGED <<tables, lockedBalance>>
        /\ Goto(r, "payoutInserted") /\ pc[r] = "debitWritten"
        /\ ~ KeyExists(Key(r))
    BY <1>0, <1>5 DEF InsertPayout, Goto, TypeOK, LocalsTypeOK
  <2>2. /\ LocksExclusive' /\ \A q \in Requests : held[q] \subseteq held'[q]
        /\ IndexKey(Key(r)) \in held'[r]
    BY <1>0, <1>5, HoldExclusive DEF InsertPayout
  <2>3. RequestOK(r)'
    BY <1>0, <2>1, <2>2 DEF RequestOK, HasBalance, Inserted, Debiting,
                      PayoutLabels, KeyExists, tables, Key, Account
  <2>. QED
    BY <1>0, <2>1, <2>2, <2>3, GotoInvariant DEF PayoutLabels
<1>6. CASE PayoutViolatesUnique(r)
  BY <1>6, EndInvariant DEF PayoutViolatesUnique, Rollback, Answers
<1>7. CASE CommitPayout(r)
  <2>1. PICK answer \in Answers : End(r, answer)
    BY <1>7 DEF CommitPayout, Commit, Answers
  <2>. DEFINE row == [type |-> "payout", key |-> Key(r),
                      account |-> Account(r), amount |-> PayoutAmount[r]]
  <2>2. /\ pc[r] = "payoutInserted"
        /\ transactions' = transactions \cup {row}
        /\ balance' = [balance EXCEPT ![Account(r)] = DebitedBalance(r)]
    BY <1>7 DEF CommitPayout
  <2>3. /\ HasBalance(r) /\ Inserted(r)
        /\ row.type = "payout" /\ row.key = Key(r)
    BY <2>2 DEF HasBalance, Inserted, PayoutLabels
  <2>. HIDE DEF row
  <2>4. ASSUME NEW q \in Requests PROVE RequestOK(q)'
    <3>1. CASE q = r
      BY <3>1, <2>1, <1>0, EndedRequestOK
    <3>2. CASE q # r
      <4>1. Account(q) \in Accounts
        BY SettleFacts DEF Requests
      <4>. QED
        BY <3>2, <4>1, <2>1, <2>2, <2>3, OtherCommit
    <3>. QED
      BY <3>1, <3>2
  <2>5. BalanceInRange'
    BY <2>2, DebitInRange DEF IInv, TypeOK, TablesTypeOK, BalanceInRange
  <2>6. SettledOnceAndWhole'
    <3>1. \A d \in Deliveries : KeyExists(d)' <=> KeyExists(d)
      BY <2>2, <2>3, RequestsAssumption DEF KeyExists
    <3>. QED
      BY <1>7, <3>1 DEF CommitPayout, IInv, SettledOnceAndWhole
  <2>7. PayoutAnswerIsTrue'
    BY <2>1, <2>2, <2>3 DEF PayoutAnswerIsTrue, IInv, End, TypeOK, LocalsTypeOK
  <2>8. LocksExclusive'
    BY <2>1, <1>0, EndExclusive
  <2>. QED
    BY <1>0, <2>4, <2>5, <2>6, <2>7, <2>8 DEF IInv
<1>. QED
  BY <1>1, <1>2, <1>3, <1>4, <1>5, <1>6, <1>7 DEF PayoutStep

\* Every step of the system preserves the invariant.
LEMMA StepInvariant == IInv /\ [Next]_vars => IInv'
<1>. SUFFICES ASSUME IInv, [Next]_vars PROVE IInv'
  OBVIOUS
<1>1. CASE \E r \in SettleRequests : SettleStep(r)
  BY <1>1, SettleStepInvariant
<1>2. CASE \E r \in PayoutRequests : PayoutStep(r)
  BY <1>2, PayoutStepInvariant
<1>3. CASE \E r \in Requests : Abort(r)
  BY <1>3, EndInvariant DEF Abort, Rollback, Answers
<1>4. CASE UNCHANGED vars
  BY <1>4
     DEF vars, tables, locals, IInv, TypeOK, TablesTypeOK, LocalsTypeOK,
         LocksExclusive, RequestOK, HasBalance, Inserted, Debiting, KeyExists,
         Account, Order, Key, BalanceInRange, SettledOnceAndWhole,
         PayoutAnswerIsTrue
<1>. QED
  BY <1>1, <1>2, <1>3, <1>4 DEF Next

\* The inductive invariant holds in every reachable state.
THEOREM Invariance == Spec => []IInv
<1>1. Init => IInv
  <2>. SUFFICES ASSUME Init PROVE IInv
    OBVIOUS
  <2>1. TypeOK
    <3>1. TablesTypeOK
      BY BalanceAssumption DEF Init, TablesTypeOK
    <3>2. LocalsTypeOK
      BY SettleFacts DEF Init, LocalsTypeOK
    <3>. QED
      BY <3>1, <3>2 DEF TypeOK
  <2>2. LocksExclusive
    BY DEF Init, LocksExclusive
  <2>3. \A r \in Requests : RequestOK(r)
    BY DEF Init, RequestOK, HasBalance, Inserted, Debiting, PayoutLabels
  <2>4. BalanceInRange
    BY BalanceAssumption DEF Init, BalanceInRange
  <2>5. SettledOnceAndWhole
    BY DEF Init, SettledOnceAndWhole, KeyExists
  <2>6. PayoutAnswerIsTrue
    BY PayoutFacts DEF Init, PayoutAnswerIsTrue
  <2>. QED
    BY <2>1, <2>2, <2>3, <2>4, <2>5, <2>6 DEF IInv
<1>. QED
  BY <1>1, StepInvariant, PTL DEF Spec

\* No interleaving of settlements and payouts, and no failure among them, pays
\* a restaurant more than it has or overflows its balance.
THEOREM BalancesInRange == Spec => []BalanceInRange
<1>1. IInv => BalanceInRange
  BY DEF IInv
<1>. QED
  BY <1>1, Invariance, PTL

\* The balance a request has read under lockRestaurantBalance stays the
\* committed balance until that request ends: no update is lost.
THEOREM NoLostUpdate == Spec => []LockedBalanceIsCurrent
<1>1. IInv => LockedBalanceIsCurrent
  BY DEF IInv, LockedBalanceIsCurrent, RequestOK
<1>. QED
  BY <1>1, Invariance, PTL

\* A delivery is settled at most once, and wholly or not at all.
THEOREM SettlementAtomic == Spec => []SettledOnceAndWhole
<1>1. IInv => SettledOnceAndWhole
  BY DEF IInv
<1>. QED
  BY <1>1, Invariance, PTL

\* A payout answered as made, or as made before, is in the payout history.
THEOREM PayoutAnswers == Spec => []PayoutAnswerIsTrue
<1>1. IInv => PayoutAnswerIsTrue
  BY DEF IInv
<1>. QED
  BY <1>1, Invariance, PTL

-----------------------------------------------------------------------------
(* The books: each commit writes one row, and moves the balance by its amount. *)

\* A new row of transactions, and the balance moved by what it stands for.
Books(row) ==
    /\ row.key \in Keys /\ ~ KeyExists(row.key)
    /\ row.account \in Accounts
    /\ Net(row) \in Int
    /\ balance[row.account] + Net(row) \in 0..MaxInt
    /\ transactions' = transactions \cup {row}
    /\ balance' = [balance EXCEPT ![row.account] = @ + Net(row)]

\* A commit books one row: its key is new, and the balance it writes, read under
\* the lock, is the current one moved by the row's amount.
LEMMA CommitBooks ==
    ASSUME IInv, NEW r \in Requests, HasBalance(r), Inserted(r),
           Key(r) \in Keys, Account(r) \in Accounts,
           NEW row, row.key = Key(r), row.account = Account(r),
           transactions' = transactions \cup {row},
           Net(row) \in Int,
           lockedBalance[r] + Net(row) \in 0..MaxInt,
           balance' = [balance EXCEPT ![Account(r)] = lockedBalance[r] + Net(row)]
    PROVE  Books(row)
<1>1. lockedBalance[r] = balance[Account(r)] /\ ~ KeyExists(Key(r))
  BY DEF IInv, RequestOK
<1>. QED
  BY <1>1 DEF Books

\* Every step of the system books a row or leaves the books alone.
LEMMA StepBooks ==
    IInv /\ [Next]_vars
      => (\E row : Books(row)) \/ UNCHANGED <<transactions, balance>>
<1>. SUFFICES ASSUME IInv, [Next]_vars
              PROVE  (\E row : Books(row)) \/ UNCHANGED <<transactions, balance>>
  OBVIOUS
<1>1. ASSUME NEW r \in SettleRequests, SettleStep(r)
      PROVE  (\E row : Books(row)) \/ UNCHANGED tables
  <2>1. CASE CommitSettlement(r)
    <3>. DEFINE row == [type |-> "commission", key |-> Key(r),
                        account |-> Account(r), amount |-> commission[r]]
    <3>1. /\ pc[r] = "balanceLocked" /\ CreditedBalance(r) <= MaxInt
          /\ transactions' = transactions \cup {row}
          /\ balance' = [balance EXCEPT ![Account(r)] = CreditedBalance(r)]
      BY <2>1 DEF CommitSettlement
    <3>2. /\ HasBalance(r) /\ Inserted(r) /\ row.key = Key(r)
          /\ row.account = Account(r)
      BY <3>1 DEF HasBalance, Inserted, PayoutLabels
    <3>3. /\ Net(row) = Subtotal[Order(r)] - commission[r]
          /\ Net(row) \in Int
      BY SettleFacts DEF Net, Order, IInv, TypeOK, LocalsTypeOK
    <3>4. CreditedBalance(r) = lockedBalance[r] + Net(row)
      BY <3>3 DEF CreditedBalance
    <3>5. CreditedBalance(r) \in 0..MaxInt
      BY <3>1, CreditInRange
    <3>. HIDE DEF row
    <3>. QED
      BY <3>1, <3>2, <3>3, <3>4, <3>5, SettleFacts, CommitBooks
  <2>2. CASE ~ CommitSettlement(r)
    BY <1>1, <2>2
       DEF SettleStep, ReadDelivery, RefuseTransition, WriteDelivery, WriteOrder,
           InsertCommission, CommissionViolatesUnique, SettleLockBalance,
           BalanceOutOfRange, Rollback, tables
  <2>. QED
    BY <2>1, <2>2
<1>2. ASSUME NEW r \in PayoutRequests, PayoutStep(r)
      PROVE  (\E row : Books(row)) \/ UNCHANGED tables
  <2>1. CASE CommitPayout(r)
    <3>. DEFINE row == [type |-> "payout", key |-> Key(r),
                        account |-> Account(r), amount |-> PayoutAmount[r]]
    <3>1. /\ pc[r] = "payoutInserted"
          /\ transactions' = transactions \cup {row}
          /\ balance' = [balance EXCEPT ![Account(r)] = DebitedBalance(r)]
      BY <2>1 DEF CommitPayout
    <3>2. /\ HasBalance(r) /\ Inserted(r) /\ row.key = Key(r)
          /\ row.account = Account(r)
      BY <3>1, PayoutFacts DEF HasBalance, Inserted, PayoutLabels
    <3>3. Net(row) = - PayoutAmount[r] /\ Net(row) \in Int
      BY PayoutFacts DEF Net
    <3>4. DebitedBalance(r) = lockedBalance[r] + Net(row)
      <4>1. lockedBalance[r] \in Int
        BY PayoutFacts DEF IInv, TypeOK, LocalsTypeOK
      <4>. QED
        BY <3>3, <4>1, PayoutFacts DEF DebitedBalance
    <3>5. DebitedBalance(r) \in 0..MaxInt
      BY <3>1, DebitInRange
    <3>. HIDE DEF row
    <3>. QED
      BY <3>1, <3>2, <3>3, <3>4, <3>5, PayoutFacts, CommitBooks
  <2>2. CASE ~ CommitPayout(r)
    BY <1>2, <2>2
       DEF PayoutStep, PayoutLockBalance, ReturnExisting, RejectInsufficient,
           WriteDebit, InsertPayout, PayoutViolatesUnique, Rollback, tables
  <2>. QED
    BY <2>1, <2>2
<1>3. ASSUME NEW r \in Requests, Abort(r) PROVE UNCHANGED tables
  BY <1>3 DEF Abort, Rollback
<1>4. CASE UNCHANGED vars
  BY <1>4 DEF vars, tables
<1>. QED
  BY <1>1, <1>2, <1>3, <1>4 DEF Next, tables

-----------------------------------------------------------------------------
(* Sums of net amounts. *)

\* Of natural numbers there is a least one.
LEMMA LeastNat ==
    ASSUME NEW T \in SUBSET Nat, T # {}
    PROVE  \E m \in T : \A k \in T : m <= k
<1>. DEFINE R == OpToRel(<, Nat)
<1>1. IsWellFoundedOn(R, Nat)
  BY NatLessThanWellFounded
<1>2. \A m, k \in Nat : <<k, m>> \in R <=> k < m
  BY DEF OpToRel
<1>. HIDE DEF R
<1>3. PICK m \in T : \A k \in T : ~ (<<k, m>> \in R)
  BY <1>1, WFMin
<1>4. \A k \in T : ~ (k < m)
  BY <1>2, <1>3
<1>5. m \in Nat /\ \A k \in T : k \in Nat
  BY <1>3
<1>. QED
  BY <1>4, <1>5

Pick(s) == CHOOSE x \in s : TRUE

\* The recursion of MapThenSumSet over the subsets of S.
Sums(g, S) ==
    g = [s \in SUBSET S |-> IF s = {} THEN 0 ELSE Net(Pick(s)) + g[s \ {Pick(s)}]]

LEMMA SumDefined ==
    ASSUME NEW S, \E g : Sums(g, S)
    PROVE  \E g : Sums(g, S) /\ MapThenSumSet(Net, S) = g[S]
<1>. DEFINE g == CHOOSE g : Sums(g, S)
<1>1. Sums(g, S)
  OBVIOUS
<1>2. MapThenSumSet(Net, S) = g[S]
  BY DEF MapThenSumSet, MapThenFoldSet, Sums, Pick
<1>. QED
  BY <1>1, <1>2

\* The subsets of S of at most n elements.
Upto(S, n) == {s \in SUBSET S : Cardinality(s) <= n}

LEMMA SumsExist ==
    ASSUME NEW S, IsFiniteSet(S), \A t \in S : Net(t) \in Int
    PROVE  \E g : Sums(g, S)
<1>. DEFINE Part(g, n) ==
              \A s \in Upto(S, n) :
                 /\ g[s] \in Int
                 /\ g[s] = IF s = {} THEN 0 ELSE Net(Pick(s)) + g[s \ {Pick(s)}]
            Missing == {n \in Nat : ~ \E g : Part(g, n)}
<1>1. \A s \in SUBSET S : /\ IsFiniteSet(s) /\ Cardinality(s) \in Nat
                          /\ Cardinality(s) = 0 <=> s = {}
                          /\ s # {} => /\ Pick(s) \in s
                                       /\ Cardinality(s \ {Pick(s)}) = Cardinality(s) - 1
  BY FS_Subset, FS_CardinalityType, FS_EmptySet, FS_RemoveElement DEF Pick
<1>0. \A n : \A s : s \in Upto(S, n) <=> s \in SUBSET S /\ Cardinality(s) <= n
  BY DEF Upto
<1>2. Missing = {}
  <2>. SUFFICES ASSUME Missing # {} PROVE FALSE
    OBVIOUS
  <2>1. PICK n \in Missing : \A k \in Missing : n <= k
    <3>. HIDE DEF Missing
    <3>1. Missing \in SUBSET Nat
      BY DEF Missing
    <3>. QED
      BY <3>1, LeastNat
  <2>2. n \in Nat /\ ~ \E g : Part(g, n)
    BY <2>1
  <2>3. n # 0
    <3>. SUFFICES ASSUME n = 0 PROVE FALSE
      OBVIOUS
    <3>1. ASSUME NEW s \in Upto(S, n) PROVE s = {}
      <4>1. s \in SUBSET S /\ Cardinality(s) <= 0
        BY <1>0, <3>1
      <4>2. Cardinality(s) \in Nat /\ (Cardinality(s) = 0 => s = {})
        BY <1>1, <4>1
      <4>. QED
        BY <4>1, <4>2
    <3>2. Part([s \in Upto(S, n) |-> 0], n)
      BY <3>1
    <3>. QED
      BY <2>2, <3>2
  <2>4. n - 1 \in Nat /\ n - 1 \notin Missing
    <3>. HIDE DEF Missing
    <3>1. n - 1 \in Nat /\ ~ (n <= n - 1)
      BY <2>2, <2>3
    <3>. QED
      BY <2>1, <3>1
  <2>5. PICK h : Part(h, n - 1)
    BY <2>4
  <2>. DEFINE g == [s \in Upto(S, n) |->
                      IF s = {} THEN 0 ELSE Net(Pick(s)) + h[s \ {Pick(s)}]]
  <2>6. ASSUME NEW s \in Upto(S, n), s # {}
        PROVE  /\ s \ {Pick(s)} \in Upto(S, n - 1)
               /\ s \ {Pick(s)} \in Upto(S, n) /\ Pick(s) \in S
    BY <1>1, <2>2, <2>6 DEF Upto
  <2>7. \A s \in Upto(S, n - 1) : s \in Upto(S, n) /\ g[s] = h[s]
    <3>1. ASSUME NEW s \in Upto(S, n - 1) PROVE s \in Upto(S, n)
      <4>1. s \in SUBSET S /\ Cardinality(s) <= n - 1
        BY <1>0, <3>1
      <4>2. Cardinality(s) \in Nat
        BY <1>1, <4>1
      <4>. QED
        BY <1>0, <2>2, <4>1, <4>2
    <3>. QED
      BY <2>5, <3>1
  <2>8. Part(g, n)
    <3>. SUFFICES ASSUME NEW s \in Upto(S, n)
                  PROVE  /\ g[s] \in Int
                         /\ g[s] = IF s = {} THEN 0 ELSE Net(Pick(s)) + g[s \ {Pick(s)}]
      OBVIOUS
    <3>1. CASE s = {}
      BY <3>1
    <3>2. CASE s # {}
      <4>. DEFINE r == s \ {Pick(s)}
      <4>1. r \in Upto(S, n - 1) /\ Pick(s) \in S /\ g[r] = h[r]
        BY <2>6, <2>7, <3>2
      <4>2. g[s] = Net(Pick(s)) + h[r]
        BY <3>2
      <4>3. h[r] \in Int /\ Net(Pick(s)) \in Int
        BY <2>5, <4>1
      <4>. QED
        BY <3>2, <4>1, <4>2, <4>3
    <3>. QED
      BY <3>1, <3>2
  <2>. QED
    BY <2>2, <2>8
<1>3. PICK g : Part(g, Cardinality(S))
  BY <1>1, <1>2
<1>4. Upto(S, Cardinality(S)) = SUBSET S
  BY FS_Subset DEF Upto
<1>. DEFINE f == [s \in SUBSET S |-> g[s]]
<1>5. \A s \in SUBSET S : s \ {Pick(s)} \in SUBSET S
  OBVIOUS
<1>6. f = [s \in SUBSET S |-> IF s = {} THEN 0 ELSE Net(Pick(s)) + f[s \ {Pick(s)}]]
  BY <1>3, <1>4, <1>5
<1>. QED
  BY <1>6 DEF Sums

\* A sum is an integer, and any element may be taken out of it first.
LEMMA SumsAdd ==
    ASSUME NEW S, IsFiniteSet(S), \A t \in S : Net(t) \in Int,
           NEW g, Sums(g, S)
    PROVE  \A u \in SUBSET S :
              g[u] \in Int /\ \A t \in u : g[u] = Net(t) + g[u \ {t}]
<1>. DEFINE Adds(u) == g[u] \in Int /\ \A t \in u : g[u] = Net(t) + g[u \ {t}]
            Wrong == {u \in SUBSET S : ~ Adds(u)}
            Sizes == {Cardinality(u) : u \in Wrong}
<1>1. \A s \in SUBSET S :
         /\ g[s] = IF s = {} THEN 0 ELSE Net(Pick(s)) + g[s \ {Pick(s)}]
         /\ s # {} => Pick(s) \in s
  BY DEF Sums, Pick
<1>2. \A s \in SUBSET S : Cardinality(s) \in Nat
  BY FS_Subset, FS_CardinalityType
<1>3. \A s \in SUBSET S : \A t \in s : Cardinality(s \ {t}) = Cardinality(s) - 1
  BY FS_Subset, FS_RemoveElement
<1>4. Wrong = {}
  <2>. SUFFICES ASSUME Wrong # {} PROVE FALSE
    OBVIOUS
  <2>1. PICK u \in Wrong : \A v \in Wrong : Cardinality(u) <= Cardinality(v)
    <3>1. Sizes \in SUBSET Nat /\ Sizes # {}
      BY <1>2
    <3>2. PICK m \in Sizes : \A k \in Sizes : m <= k
      <4>. HIDE DEF Sizes
      <4>. QED
        BY <3>1, LeastNat
    <3>. QED
      BY <3>2
  <2>. HIDE DEF Adds
  <2>2. u \in SUBSET S /\ ~ Adds(u) /\ Cardinality(u) \in Nat
    BY <1>2, <2>1
  <2>3. ASSUME NEW t \in u PROVE Adds(u \ {t})
    <3>1. u \ {t} \in SUBSET S /\ ~ (Cardinality(u) <= Cardinality(u \ {t}))
      BY <1>3, <2>2
    <3>. QED
      BY <2>1, <3>1
  <2>4. CASE u = {}
    <3>1. g[u] = 0
      BY <1>1, <2>2, <2>4
    <3>2. Adds(u)
      BY <2>4, <3>1 DEF Adds
    <3>. QED
      BY <2>2, <3>2
  <2>5. CASE u # {}
    <3>. DEFINE x == Pick(u)
    <3>1. x \in u /\ Net(x) \in Int /\ g[u] = Net(x) + g[u \ {x}]
      BY <1>1, <2>2, <2>5
    <3>. HIDE DEF x
    <3>2. g[u] \in Int
      BY <2>3, <3>1 DEF Adds
    <3>3. ASSUME NEW t \in u, t # x PROVE g[u] = Net(t) + g[u \ {t}]
      <4>. DEFINE v == (u \ {x}) \ {t}
      <4>1. v = (u \ {t}) \ {x} /\ t \in u \ {x} /\ x \in u \ {t}
        BY <3>1, <3>3
      <4>2. g[u \ {x}] = Net(t) + g[v]
        BY <2>3, <3>1, <4>1 DEF Adds
      <4>3. g[u \ {t}] = Net(x) + g[v]
        BY <2>3, <3>3, <4>1 DEF Adds
      <4>4. g[v] \in Int /\ Net(t) \in Int
        <5>. DEFINE w == u \ {x}
        <5>1. w \in SUBSET S /\ Cardinality(w) = Cardinality(u) - 1
          BY <1>3, <2>2, <3>1
        <5>2. t \in w /\ v = w \ {t}
          BY <4>1
        <5>. HIDE DEF v, w
        <5>3. v \in SUBSET S /\ Cardinality(v) = Cardinality(w) - 1
          BY <1>3, <5>1, <5>2
        <5>4. ~ (Cardinality(u) <= Cardinality(v))
          BY <2>2, <5>1, <5>3
        <5>. QED
          BY <2>1, <2>2, <5>3, <5>4 DEF Adds
      <4>. HIDE DEF v
      <4>. QED
        BY <3>1, <4>2, <4>3, <4>4
    <3>4. Adds(u)
      BY <3>1, <3>2, <3>3 DEF Adds
    <3>. QED
      BY <2>2, <3>4
  <2>. QED
    BY <2>4, <2>5
<1>. QED
  BY <1>4

\* The sum over a set does not depend on the set around it.
LEMMA SumsAgree ==
    ASSUME NEW S, IsFiniteSet(S), NEW T \in SUBSET S,
           NEW g, Sums(g, S), NEW h, Sums(h, T)
    PROVE  g[T] = h[T]
<1>. DEFINE Wrong == {u \in SUBSET T : g[u] # h[u]}
            Sizes == {Cardinality(u) : u \in Wrong}
<1>1. \A s \in SUBSET T :
         /\ g[s] = IF s = {} THEN 0 ELSE Net(Pick(s)) + g[s \ {Pick(s)}]
         /\ h[s] = IF s = {} THEN 0 ELSE Net(Pick(s)) + h[s \ {Pick(s)}]
         /\ s # {} => Pick(s) \in s
  BY DEF Sums, Pick
<1>2. \A s \in SUBSET T : Cardinality(s) \in Nat
  BY FS_Subset, FS_CardinalityType
<1>3. \A s \in SUBSET T : \A t \in s : Cardinality(s \ {t}) = Cardinality(s) - 1
  BY FS_Subset, FS_RemoveElement
<1>4. Wrong = {}
  <2>. SUFFICES ASSUME Wrong # {} PROVE FALSE
    OBVIOUS
  <2>1. PICK u \in Wrong : \A v \in Wrong : Cardinality(u) <= Cardinality(v)
    <3>1. Sizes \in SUBSET Nat /\ Sizes # {}
      BY <1>2
    <3>2. PICK m \in Sizes : \A k \in Sizes : m <= k
      <4>. HIDE DEF Sizes
      <4>. QED
        BY <3>1, LeastNat
    <3>. QED
      BY <3>2
  <2>2. u \in SUBSET T /\ g[u] # h[u] /\ u # {} /\ Pick(u) \in u
    BY <1>1, <2>1
  <2>. DEFINE v == u \ {Pick(u)}
  <2>3. v \in SUBSET T /\ ~ (Cardinality(u) <= Cardinality(v))
    BY <1>2, <1>3, <2>2
  <2>4. g[v] = h[v]
    BY <2>1, <2>3
  <2>. QED
    BY <1>1, <2>2, <2>4
<1>. QED
  BY <1>4

\* What MapThenSumSet is: nothing over no rows, and one more row adds its net
\* amount.
LEMMA NetSum ==
    ASSUME NEW S, IsFiniteSet(S), \A t \in S : Net(t) \in Int
    PROVE  /\ MapThenSumSet(Net, S) \in Int
           /\ S = {} => MapThenSumSet(Net, S) = 0
           /\ \A t \in S : MapThenSumSet(Net, S) = Net(t) + MapThenSumSet(Net, S \ {t})
<1>1. PICK g : Sums(g, S) /\ MapThenSumSet(Net, S) = g[S]
  BY SumsExist, SumDefined
<1>2. g[S] \in Int /\ \A t \in S : g[S] = Net(t) + g[S \ {t}]
  BY <1>1, SumsAdd
<1>3. S = {} => g[S] = 0
  BY <1>1 DEF Sums
<1>4. ASSUME NEW t \in S PROVE MapThenSumSet(Net, S \ {t}) = g[S \ {t}]
  <2>. DEFINE T == S \ {t}
  <2>1. T \in SUBSET S /\ IsFiniteSet(T) /\ \A x \in T : Net(x) \in Int
    BY FS_Subset
  <2>. HIDE DEF T
  <2>2. PICK h : Sums(h, T) /\ MapThenSumSet(Net, T) = h[T]
    BY <2>1, SumsExist, SumDefined
  <2>3. MapThenSumSet(Net, T) = g[T]
    BY <1>1, <2>1, <2>2, SumsAgree
  <2>. QED
    BY <2>3 DEF T
<1>. QED
  BY <1>1, <1>2, <1>3, <1>4

-----------------------------------------------------------------------------
(* The balance is the sum of the rows. *)

\* Rows are finitely many, so their sum is defined, and they sum to the balance.
BooksInv == IsFiniteSet(transactions) /\ BalanceMatchesRows

\* A booked row is counted once, in its account.
LEMMA BookedSum ==
    ASSUME TypeOK, TypeOK', BooksInv, NEW row, Books(row)
    PROVE  BooksInv'
<1>. DEFINE RowsOf(a) == {t \in transactions : t.account = a}
            Sum(S) == MapThenSumSet(Net, S)
<1>1. /\ row \notin transactions
      /\ \A t \in transactions \cup {row} : Net(t) \in Int
  <2>1. row \notin transactions
    BY DEF Books, KeyExists
  <2>2. \A t \in TxRows : Net(t) \in Int
    BY OrdersAssumption DEF TxRows, Net
  <2>. QED
    BY <2>1, <2>2 DEF Books, TypeOK, TablesTypeOK
<1>2. IsFiniteSet(transactions')
  BY FS_AddElement DEF Books, BooksInv
<1>3. ASSUME NEW a \in Accounts
      PROVE  balance'[a] = OpeningBalance[a] + Sum({t \in transactions' : t.account = a})
  <2>. DEFINE T == {t \in transactions' : t.account = a}
  <2>1. /\ IsFiniteSet(RowsOf(a)) /\ RowsOf(a) \in SUBSET transactions
        /\ IsFiniteSet(T) /\ T \in SUBSET transactions'
    BY <1>2, FS_Subset DEF BooksInv
  <2>2. balance[a] = OpeningBalance[a] + Sum(RowsOf(a))
    BY DEF BooksInv, BalanceMatchesRows
  <2>3. CASE a = row.account
    <3>1. row \in T /\ T \ {row} = RowsOf(a)
      BY <1>1, <2>3 DEF Books
    <3>2. \A t \in T : Net(t) \in Int
      BY <1>1 DEF Books
    <3>. HIDE DEF T, RowsOf
    <3>3. Sum(T) = Net(row) + Sum(RowsOf(a))
      BY <2>1, <3>1, <3>2, NetSum
    <3>4. Sum(RowsOf(a)) \in Int /\ Net(row) \in Int
      BY <1>1, <2>1, NetSum
    <3>5. balance'[a] = balance[a] + Net(row)
      BY <2>3 DEF Books, TypeOK, TablesTypeOK
    <3>6. OpeningBalance[a] \in Int
      BY BalanceAssumption
    <3>. HIDE DEF Sum
    <3>7. balance'[a] = OpeningBalance[a] + Sum(T)
      BY <2>2, <3>3, <3>4, <3>5, <3>6
    <3>. QED
      BY <3>7 DEF T
  <2>4. CASE a # row.account
    <3>1. T = RowsOf(a)
      BY <2>4 DEF Books
    <3>2. balance'[a] = balance[a]
      BY <2>4 DEF Books, TypeOK, TablesTypeOK
    <3>. QED
      BY <2>2, <3>1, <3>2
  <2>. QED
    BY <2>3, <2>4
<1>. QED
  <2>1. BalanceMatchesRows'
    BY <1>3 DEF BalanceMatchesRows
  <2>. QED
    BY <1>2, <2>1 DEF BooksInv

\* However requests overlap, fail and are retried, a balance is its opening
\* balance, plus what the account's orders earned, less its payouts.
THEOREM BalancesMatch == Spec => []BalanceMatchesRows
<1>1. Init => BooksInv
  <2>. SUFFICES ASSUME Init PROVE BooksInv
    OBVIOUS
  <2>1. transactions = {} /\ balance = OpeningBalance
    BY DEF Init
  <2>2. ASSUME NEW a \in Accounts
        PROVE  MapThenSumSet(Net, {t \in transactions : t.account = a}) = 0
    <3>. DEFINE T == {t \in transactions : t.account = a}
    <3>1. T = {} /\ IsFiniteSet(T) /\ \A t \in T : Net(t) \in Int
      BY <2>1, FS_EmptySet
    <3>. HIDE DEF T
    <3>2. MapThenSumSet(Net, T) = 0
      BY <3>1, NetSum
    <3>. QED
      BY <3>2 DEF T
  <2>. QED
    BY <2>1, <2>2, FS_EmptySet, BalanceAssumption DEF BooksInv, BalanceMatchesRows
<1>2. IInv /\ IInv' /\ BooksInv /\ [Next]_vars => BooksInv'
  <2>. SUFFICES ASSUME IInv, IInv', BooksInv, [Next]_vars PROVE BooksInv'
    OBVIOUS
  <2>1. CASE \E row : Books(row)
    BY <2>1, BookedSum DEF IInv
  <2>2. CASE UNCHANGED <<transactions, balance>>
    BY <2>2 DEF BooksInv, BalanceMatchesRows
  <2>. QED
    BY <2>1, <2>2, StepBooks
<1>3. BooksInv => BalanceMatchesRows
  BY DEF BooksInv
<1>. QED
  BY <1>1, <1>2, <1>3, Invariance, PTL DEF Spec

-----------------------------------------------------------------------------
(* Settlement implements RestaurantLedger. *)

LedgerEntries == {[key |-> t.key, account |-> t.account, amount |-> Net(t)] :
                     t \in transactions}

\* To book a row is to post its entry.
LEMMA StepImplementsLedger ==
    IInv /\ [Next]_vars => [Ledger!Next]_<<balance, LedgerEntries>>
<1>. SUFFICES ASSUME IInv, [Next]_vars
              PROVE  [Ledger!Next]_<<balance, LedgerEntries>>
  OBVIOUS
<1>1. ASSUME NEW row, Books(row) PROVE Ledger!Next
  <2>. DEFINE n == Net(row)
  <2>1. n \in -MaxInt..MaxInt
    BY <1>1, BalanceAssumption DEF Books, IInv, BalanceInRange
  <2>2. ~ Ledger!Posted(row.key)
    BY <1>1 DEF Books, KeyExists, Ledger!Posted
  <2>3. LedgerEntries' = LedgerEntries \cup
           {[key |-> row.key, account |-> row.account, amount |-> n]}
    BY <1>1 DEF Books, LedgerEntries, Net
  <2>4. Ledger!Post(row.key, row.account, n)
    BY <1>1, <2>2, <2>3 DEF Books, Ledger!Post, LedgerEntries
  <2>. QED
    BY <1>1, <2>1, <2>4 DEF Books, Ledger!Next
<1>2. UNCHANGED <<transactions, balance>> => UNCHANGED <<balance, LedgerEntries>>
  BY DEF LedgerEntries, Net
<1>. QED
  BY <1>1, <1>2, StepBooks

\* Concurrent, failing and retried settlements and payouts behave as a ledger
\* that posts every entry atomically, once per key, within the balance.
THEOREM ImplementsLedger == Spec => LedgerSpec
<1>1. Init => Ledger!Init
  BY DEF Init, Ledger!Init
<1>2. IInv /\ [Next]_vars => [Ledger!Next]_(Ledger!ledgerVars)
  BY StepImplementsLedger DEF Ledger!ledgerVars, LedgerEntries
<1>. QED
  BY <1>1, <1>2, Invariance, PTL DEF Spec, LedgerSpec, Ledger!Spec
=============================================================================
