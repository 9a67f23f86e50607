--------------------------- MODULE PaymentsProofs ---------------------------
(***************************************************************************)
(* Theorems about Payments for any number of orders, sessions, payments,   *)
(* refunds, webhook deliveries and faults.                                 *)
(***************************************************************************)
EXTENDS Payments, FiniteSetTheorems, TLAPS

-----------------------------------------------------------------------------
(* Facts about the constants. *)

\* A request is of one kind.
LEMMA RequestKinds ==
    /\ InitRequests \subseteq Requests
    /\ RefundRequests \subseteq Requests
    /\ Webhooks \subseteq Requests
    /\ \A w \in Webhooks : w \notin InitRequests /\ w \notin RefundRequests
    /\ \A i \in InitRequests : i \notin RefundRequests /\ i # None
    /\ \A f \in RefundRequests : f # None
    /\ \A c \in Charges : c # None
    /\ \A o \in Orders : o # None
  BY RequestsAssumption, NoneAssumption DEF Requests

\* What a webhook delivers.
LEMMA EventFacts ==
    ASSUME NEW w \in Webhooks
    PROVE  /\ Event(w) \in Events
           /\ Event(w).kind \in {"pay", "refund"}
           /\ Event(w).tx # None
           /\ Event(w).order \in Orders \cup {None}
           /\ Event(w).kind = "pay" =>
                 /\ Event(w).tx \in Charges
                 /\ Event(w).tx \notin CodCharges
           /\ Event(w).kind = "pay" /\ Event(w).order # None =>
                 Event(w).order = OrderOf[Event(w).tx]
  BY EventsAssumption DEF Event, Events, OnlineCharges

\* What charges, sessions and refunds name is in the tables.
LEMMA NameFacts ==
    /\ \A c \in Charges : OrderOf[c] \in Orders
    /\ \A i \in InitRequests : InitOrder[i] \in Orders
    /\ \A f \in RefundRequests : ChargeOf[f] \in Charges
    /\ CodCharges \subseteq Charges
  BY ChargesAssumption

\* Every row and key a webhook may hold.
LEMMA RowFacts ==
    /\ \A e \in Events : EventRow(e) \in Rows
    /\ \A i \in InitRequests : SessionRow(i) \in Rows
    /\ \A c \in Charges : ChargeKey(c) \in Rows /\ TransactionRow(c) \in Rows
    /\ \A f \in RefundRequests : TransactionRow(f) \in Rows
    /\ \A o \in Orders : OrderRow(o) \in Rows
  BY DEF Rows

-----------------------------------------------------------------------------
(* What survives the steps of others. *)

\* Captured charges stay captured, accepted refunds stay accepted.
Grows ==
    /\ \A c \in Charges : chargeStatus[c] # "none" => chargeStatus'[c] = chargeStatus[c]
    /\ paidBack \subseteq paidBack'

\* A paid order stays paid.
LEMMA PaidKept ==
    ASSUME Grows, NEW o, Paid(o)
    PROVE  Paid(o)'
  BY DEF Grows, Paid

\* Holding one more row keeps the rows of different webhooks apart.
LEMMA HoldExclusive ==
    ASSUME TypeOK, LocksExclusive, NEW w \in Webhooks, NEW row, Hold(w, row)
    PROVE  LocksExclusive'
  BY DEF TypeOK, LocksExclusive, Hold, Free

\* A webhook that ends its transaction lets its rows go.
LEMMA EndExclusive ==
    ASSUME TypeOK, LocksExclusive, NEW w \in Webhooks,
           held' = [held EXCEPT ![w] = {}]
    PROVE  LocksExclusive'
  BY DEF TypeOK, LocksExclusive

\* A step that changes no table, and of the locals only those of webhook w.
LEMMA WebhookStepKeeps ==
    ASSUME IInv, TypeOK', NEW w \in Webhooks,
           UNCHANGED <<orderStatus, rows, paidBack, move>>,
           \A r \in Requests : r # w => pc'[r] = pc[r],
           \A v \in Webhooks : v # w => /\ found'[v] = found[v]
                                        /\ toMark'[v] = toMark[v]
                                        /\ held'[v] = held[v],
           LocksExclusive', WebhookOK(w)'
    PROVE  IInv'
<1>1. UNCHANGED <<orderStatus, sessionStatus, chargeStatus, refundedBy, outbox,
                  refundStatus, refundRef, paidBack, move>>
  BY DEF rows, sessions, charges, refunds
<1>2. /\ PlacedOrdersArePaid' /\ AnnouncedOnce'
      /\ SessionsBackedByCharges' /\ RefundsBackedByProvider'
  BY <1>1 DEF IInv, PlacedOrdersArePaid, AnnouncedOnce, SessionsBackedByCharges,
              RefundsBackedByProvider, Paid, PaidBack
<1>3. ASSUME NEW v \in Webhooks PROVE WebhookOK(v)'
  <2>1. CASE v = w
    BY <2>1
  <2>2. CASE v # w
    <3>1. pc'[v] = pc[v] /\ found'[v] = found[v] /\ toMark'[v] = toMark[v]
            /\ held'[v] = held[v]
      BY <2>2, RequestKinds
    <3>2. WebhookOK(v)
      BY DEF IInv
    <3>. QED
      BY <1>1, <3>1, <3>2 DEF WebhookOK, CarriesPayment, Succeeded, Event
  <2>. QED
    BY <2>1, <2>2
<1>4. ASSUME NEW f \in RefundRequests PROVE RefundOK(f)'
  BY <1>1, RequestKinds DEF IInv, RefundOK
<1>5. ASSUME NEW u \in Movers PROVE MoveOK(u)'
  BY <1>1 DEF IInv, MoveOK, Paid
<1>. QED
  BY <1>2, <1>3, <1>4, <1>5 DEF IInv

\* A step of an init or refund request: charges, orders, and the webhooks'
\* locals stay as they are.
LEMMA RequestStepKeeps ==
    ASSUME IInv, TypeOK', NEW r \in InitRequests \cup RefundRequests,
           UNCHANGED <<orderStatus, chargeStatus, outbox, locals, move>>,
           paidBack \subseteq paidBack',
           \A q \in Requests : q # r => pc'[q] = pc[q],
           SessionsBackedByCharges', RefundsBackedByProvider',
           \A f \in RefundRequests : RefundOK(f)'
    PROVE  IInv'
<1>1. UNCHANGED <<orderStatus, chargeStatus, outbox, found, toMark, held, move>>
  BY DEF locals
<1>2. PlacedOrdersArePaid' /\ AnnouncedOnce' /\ LocksExclusive'
  BY <1>1 DEF IInv, PlacedOrdersArePaid, AnnouncedOnce, LocksExclusive, Paid
<1>3. ASSUME NEW v \in Webhooks PROVE WebhookOK(v)'
  <2>1. pc'[v] = pc[v]
    BY RequestKinds
  <2>2. WebhookOK(v)
    BY DEF IInv
  <2>. QED
    BY <1>1, <2>1, <2>2 DEF WebhookOK, CarriesPayment, Succeeded, Event
<1>4. ASSUME NEW u \in Movers PROVE MoveOK(u)'
  BY <1>1 DEF IInv, MoveOK, Paid
<1>. QED
  BY <1>2, <1>3, <1>4 DEF IInv

-----------------------------------------------------------------------------
(* Webhook steps before the commit. *)

\* A statement that changes only the handler's own locals keeps the types.
LEMMA WebhookTyped ==
    ASSUME TypeOK, NEW w \in Webhooks, NEW label \in Labels, Step(w, label),
           found' \in [Webhooks -> InitRequests \cup RefundRequests \cup {None}],
           toMark' \in [Webhooks -> Charges \cup {None}],
           held' \in [Webhooks -> SUBSET Rows]
    PROVE  TypeOK'
  BY DEF TypeOK, Step, Goto, rows, sessions, charges, refunds, events, provider

\* A statement that waits for a row and takes it.
LEMMA HoldTyped ==
    ASSUME TypeOK, NEW w \in Webhooks, NEW row \in Rows, Hold(w, row)
    PROVE  held' \in [Webhooks -> SUBSET Rows]
  BY DEF TypeOK, Hold

\* A step of one webhook that writes no row leaves the others as they were.
LEMMA StepKeeps ==
    ASSUME IInv, TypeOK', NEW w \in Webhooks, NEW label, Step(w, label),
           \A v \in Webhooks : v # w => /\ found'[v] = found[v]
                                        /\ toMark'[v] = toMark[v]
                                        /\ held'[v] = held[v],
           LocksExclusive', WebhookOK(w)'
    PROVE  IInv'
<1>1. /\ UNCHANGED <<orderStatus, rows, paidBack, move>>
      /\ \A r \in Requests : r # w => pc'[r] = pc[r]
  BY DEF Step, Goto, IInv, TypeOK, provider
<1>. QED
  BY <1>1, WebhookStepKeeps

\* Steps that take no row.
LEMMA ReadingStep ==
    ASSUME IInv, NEW w \in Webhooks,
           \/ Receive(w) \/ DuplicateEvent(w) \/ Redeliver(w)
           \/ FindPaidSession(w) \/ FindRefund(w)
    PROVE  IInv'
<1>1. PICK label \in Labels :
         /\ Step(w, label) /\ UNCHANGED <<toMark, held>>
         /\ \E x \in InitRequests \cup RefundRequests \cup {None} :
               found' = [found EXCEPT ![w] = x]
  <2>1. /\ found[w] \in InitRequests \cup RefundRequests \cup {None}
        /\ found = [found EXCEPT ![w] = found[w]]
    BY DEF IInv, TypeOK
  <2>2. CASE Receive(w) \/ DuplicateEvent(w) \/ Redeliver(w)
    BY <2>1, <2>2 DEF Receive, DuplicateEvent, Redeliver, Labels, InTransaction, locals
  <2>3. CASE FindPaidSession(w)
    BY <2>1, <2>3 DEF FindPaidSession, Labels, InTransaction, Newest, ActiveOf
  <2>4. CASE FindRefund(w)
    BY <2>1, <2>4 DEF FindRefund, Labels, InTransaction
  <2>. QED
    BY <2>2, <2>3, <2>4
<1>2. TypeOK'
  BY <1>1, WebhookTyped DEF IInv, TypeOK
<1>3. LocksExclusive'
  BY <1>1 DEF IInv, LocksExclusive
<1>4. /\ pc[w] \in Labels /\ pc'[w] = label
      /\ toMark'[w] = toMark[w] /\ held'[w] = held[w]
      /\ UNCHANGED <<chargeStatus, refundRef, paidBack>>
      /\ WebhookOK(w)
  BY <1>1, RequestKinds
     DEF Step, Goto, IInv, TypeOK, rows, charges, refunds, provider
<1>5. WebhookOK(w)'
  <2>1. CASE Receive(w)
    <3>1. label \in {"acked", "begun"} /\ found'[w] = found[w]
            /\ (label = "begun" => Event(w).order # None)
      BY <2>1, <1>4, RequestKinds DEF Receive, Step, Goto, IInv, TypeOK, locals
    <3>2. pc[w] \notin InTransaction
      BY <2>1 DEF Receive, InTransaction
    <3>. QED
      BY <3>1, <3>2, <1>4
         DEF WebhookOK, CarriesPayment, InTransaction, Event, Succeeded
  <2>2. CASE DuplicateEvent(w)
    <3>1. label = "acked" /\ pc[w] = "begun" /\ found'[w] = found[w]
      BY <2>2, <1>4, RequestKinds DEF DuplicateEvent, Step, Goto, IInv, TypeOK, locals
    <3>. QED
      BY <3>1, <1>4 DEF WebhookOK, CarriesPayment, InTransaction, Event, Succeeded
  <2>3. CASE Redeliver(w)
    <3>1. label = "start" /\ pc[w] = "failed" /\ found'[w] = found[w]
      BY <2>3, <1>4, RequestKinds DEF Redeliver, Step, Goto, IInv, TypeOK, locals
    <3>. QED
      BY <3>1, <1>4 DEF WebhookOK, CarriesPayment, InTransaction, Event, Succeeded
  <2>4. CASE FindPaidSession(w)
    <3>1. \/ label = "handled" /\ found'[w] = found[w]
          \/ /\ label = "session"
             /\ found'[w] \in InitRequests
             /\ InitOrder[found'[w]] = Event(w).order
      BY <2>4, <1>4, RequestKinds
         DEF FindPaidSession, Step, Goto, IInv, TypeOK, Newest, ActiveOf
    <3>2. pc[w] = "recorded" /\ Event(w).kind = "pay"
      BY <2>4 DEF FindPaidSession
    <3>. QED
      BY <3>1, <3>2, <1>4, RequestKinds
         DEF WebhookOK, CarriesPayment, InTransaction, Event, Succeeded
  <2>5. CASE FindRefund(w)
    <3>1. \/ label = "handled" /\ found'[w] = found[w]
          \/ /\ label = "refund"
             /\ found'[w] \in RefundRequests
             /\ refundRef[found'[w]] = Event(w).tx
      BY <2>5, <1>4, RequestKinds DEF FindRefund, Step, Goto, IInv, TypeOK
    <3>2. pc[w] = "recorded" /\ Event(w).kind = "refund"
      BY <2>5 DEF FindRefund
    <3>3. label = "refund" => found'[w] \in paidBack
      BY <3>1, EventFacts DEF IInv, RefundOK
    <3>. QED
      BY <3>1, <3>2, <3>3, <1>4, RequestKinds
         DEF WebhookOK, CarriesPayment, InTransaction, Event, Succeeded
  <2>. QED
    BY <2>1, <2>2, <2>3, <2>4, <2>5
<1>. QED
  BY <1>1, <1>2, <1>3, <1>5, StepKeeps DEF IInv, TypeOK

\* Steps that take a row or a key.
LEMMA HoldingStep ==
    ASSUME IInv, NEW w \in Webhooks,
           \/ RecordEvent(w) \/ UpdateSession(w) \/ InsertCharge(w)
           \/ UpdateOrder(w) \/ UpdateRefund(w)
    PROVE  IInv'
<1>1. WebhookOK(w)
  BY DEF IInv
<1>2. PICK label \in Labels, row \in Rows :
         /\ Step(w, label) /\ Hold(w, row) /\ UNCHANGED <<found, toMark>>
  <2>1. CASE RecordEvent(w)
    BY <2>1, EventFacts, RowFacts DEF RecordEvent, Labels, InTransaction
  <2>2. CASE UpdateSession(w)
    <3>1. found[w] \in InitRequests
      BY <2>2, <1>1 DEF UpdateSession, WebhookOK
    <3>. QED
      BY <2>2, <3>1, RowFacts DEF UpdateSession, Labels, InTransaction
  <2>3. CASE InsertCharge(w)
    <3>1. Event(w).tx \in Charges
      BY <2>3, <1>1, EventFacts DEF InsertCharge, WebhookOK
    <3>. QED
      BY <2>3, <3>1, RowFacts DEF InsertCharge, Labels, InTransaction
  <2>4. CASE UpdateOrder(w)
    <3>1. Event(w).order \in Orders
      BY <2>4, <1>1, EventFacts DEF UpdateOrder, WebhookOK, InTransaction
    <3>. QED
      BY <2>4, <3>1, RowFacts DEF UpdateOrder, Labels, InTransaction
  <2>5. CASE UpdateRefund(w)
    <3>1. found[w] \in RefundRequests
      BY <2>5, <1>1 DEF UpdateRefund, WebhookOK, IInv, TypeOK
    <3>. QED
      BY <2>5, <3>1, RowFacts DEF UpdateRefund, Labels, InTransaction
  <2>. QED
    BY <2>1, <2>2, <2>3, <2>4, <2>5
<1>3. TypeOK'
  <2>1. held' \in [Webhooks -> SUBSET Rows]
    BY <1>2, HoldTyped DEF IInv
  <2>2. /\ found' \in [Webhooks -> InitRequests \cup RefundRequests \cup {None}]
        /\ toMark' \in [Webhooks -> Charges \cup {None}]
    BY <1>2 DEF IInv, TypeOK
  <2>. QED
    BY <1>2, <2>1, <2>2, WebhookTyped DEF IInv
<1>4. LocksExclusive'
  BY <1>2, HoldExclusive DEF IInv
<1>5. /\ pc'[w] = label /\ found'[w] = found[w] /\ toMark'[w] = toMark[w]
      /\ held'[w] = held[w] \cup {row}
      /\ UNCHANGED <<chargeStatus, paidBack>>
  BY <1>2, RequestKinds
     DEF Step, Goto, Hold, IInv, TypeOK, rows, charges, provider
<1>6. WebhookOK(w)'
  <2>1. CASE RecordEvent(w)
    <3>1. pc[w] = "begun" /\ label = "recorded"
      BY <2>1, <1>5, RequestKinds DEF RecordEvent, Step, Goto, IInv, TypeOK
    <3>. QED
      BY <3>1, <1>1, <1>5 DEF WebhookOK, CarriesPayment, InTransaction, Event, Succeeded
  <2>2. CASE UpdateSession(w)
    <3>1. pc[w] = "session" /\ label = "charge"
      BY <2>2, <1>5, RequestKinds DEF UpdateSession, Step, Goto, IInv, TypeOK
    <3>. QED
      BY <3>1, <1>1, <1>5 DEF WebhookOK, CarriesPayment, InTransaction, Event, Succeeded
  <2>3. CASE InsertCharge(w)
    <3>1. /\ pc[w] = "charge"
          /\ label = IF Succeeded(w) THEN "order" ELSE "handled"
          /\ chargeStatus[Event(w).tx] = "none"
          /\ ChargeKey(Event(w).tx) \in held'[w]
      BY <2>3, <1>5, RequestKinds DEF InsertCharge, Step, Goto, Hold, IInv, TypeOK
    <3>. QED
      BY <3>1, <1>1, <1>5 DEF WebhookOK, CarriesPayment, InTransaction, Event, Succeeded
  <2>4. CASE UpdateOrder(w)
    <3>1. pc[w] = "order" /\ label = "handled"
      BY <2>4, <1>5, RequestKinds DEF UpdateOrder, Step, Goto, IInv, TypeOK
    <3>. QED
      BY <3>1, <1>1, <1>5 DEF WebhookOK, CarriesPayment, InTransaction, Event, Succeeded
  <2>5. CASE UpdateRefund(w)
    <3>1. pc[w] = "refund" /\ label = "mark"
      BY <2>5, <1>5, RequestKinds DEF UpdateRefund, Step, Goto, IInv, TypeOK
    <3>. QED
      BY <3>1, <1>1, <1>5 DEF WebhookOK, CarriesPayment, InTransaction, Event, Succeeded
  <2>. QED
    BY <2>1, <2>2, <2>3, <2>4, <2>5
<1>7. \A v \in Webhooks : v # w => /\ found'[v] = found[v]
                                   /\ toMark'[v] = toMark[v]
                                   /\ held'[v] = held[v]
  BY <1>2 DEF Hold, IInv, TypeOK
<1>. QED
  BY <1>2, <1>3, <1>4, <1>6, <1>7, StepKeeps

\* markChargeRefunded's statement, on a succeeded charge of the refund's order.
LEMMA MarkChargeStep ==
    ASSUME IInv, NEW w \in Webhooks, MarkCharge(w)
    PROVE  IInv'
<1>1. /\ WebhookOK(w) /\ pc[w] = "mark" /\ Step(w, "handled")
      /\ UNCHANGED found
  BY DEF IInv, MarkCharge
<1>2. /\ pc'[w] = "handled" /\ found'[w] = found[w]
      /\ UNCHANGED <<chargeStatus, paidBack>>
      /\ Event(w).kind = "refund" /\ found[w] # None /\ toMark[w] = None
  BY <1>1, RequestKinds
     DEF Step, Goto, IInv, TypeOK, rows, charges, provider, WebhookOK
<1>3. CASE UNCHANGED <<toMark, held>>
  <2>1. TypeOK'
    BY <1>1, <1>3, WebhookTyped DEF IInv, TypeOK, Labels, InTransaction
  <2>2. WebhookOK(w)'
    BY <1>1, <1>2, <1>3
       DEF WebhookOK, CarriesPayment, InTransaction, Event, Succeeded
  <2>3. LocksExclusive'
    BY <1>3 DEF IInv, LocksExclusive
  <2>. QED
    BY <1>1, <1>3, <2>1, <2>2, <2>3, StepKeeps
<1>4. ASSUME NEW c \in Charges,
             OrderOf[c] = OrderOf[ChargeOf[found[w]]],
             chargeStatus[c] = "succeeded",
             toMark' = [toMark EXCEPT ![w] = c],
             Hold(w, TransactionRow(c))
      PROVE  IInv'
  <2>1. TypeOK'
    <3>1. held' \in [Webhooks -> SUBSET Rows]
      BY <1>4, HoldTyped, RowFacts DEF IInv
    <3>2. /\ found' \in [Webhooks -> InitRequests \cup RefundRequests \cup {None}]
          /\ toMark' \in [Webhooks -> Charges \cup {None}]
      BY <1>1, <1>4 DEF IInv, TypeOK
    <3>3. "handled" \in Labels
      BY DEF Labels, InTransaction
    <3>. QED
      BY <1>1, <3>1, <3>2, <3>3, WebhookTyped DEF IInv
  <2>2. toMark'[w] = c /\ held'[w] = held[w] \cup {TransactionRow(c)}
    BY <1>4 DEF Hold, IInv, TypeOK
  <2>3. WebhookOK(w)'
    BY <1>1, <1>2, <1>4, <2>2
       DEF WebhookOK, CarriesPayment, InTransaction, Event, Succeeded
  <2>4. LocksExclusive'
    BY <1>4, HoldExclusive DEF IInv
  <2>5. \A v \in Webhooks : v # w => /\ found'[v] = found[v]
                                     /\ toMark'[v] = toMark[v]
                                     /\ held'[v] = held[v]
    BY <1>1, <1>4 DEF Hold, IInv, TypeOK
  <2>. QED
    BY <1>1, <2>1, <2>3, <2>4, <2>5, StepKeeps
<1>. QED
  BY <1>3, <1>4 DEF MarkCharge

\* A transaction that ends has no locals and no rows any more.
LEMMA EndFacts ==
    ASSUME IInv, NEW w \in Webhooks, NEW answer \in {"acked", "failed"},
           EndTransaction(w, answer)
    PROVE  /\ pc' \in [Requests -> Labels]
           /\ found' \in [Webhooks -> InitRequests \cup RefundRequests \cup {None}]
           /\ toMark' \in [Webhooks -> Charges \cup {None}]
           /\ held' \in [Webhooks -> SUBSET Rows]
           /\ \A r \in Requests : r # w => pc'[r] = pc[r]
           /\ \A v \in Webhooks : v # w => /\ found'[v] = found[v]
                                           /\ toMark'[v] = toMark[v]
                                           /\ held'[v] = held[v]
           /\ LocksExclusive'
           /\ WebhookOK(w)'
<1>1. /\ pc' \in [Requests -> Labels]
      /\ found' \in [Webhooks -> InitRequests \cup RefundRequests \cup {None}]
      /\ toMark' \in [Webhooks -> Charges \cup {None}]
      /\ held' \in [Webhooks -> SUBSET Rows]
  BY RequestKinds DEF EndTransaction, Goto, IInv, TypeOK, Labels
<1>2. /\ \A r \in Requests : r # w => pc'[r] = pc[r]
      /\ \A v \in Webhooks : v # w => /\ found'[v] = found[v]
                                      /\ toMark'[v] = toMark[v]
                                      /\ held'[v] = held[v]
  BY DEF EndTransaction, Goto, IInv, TypeOK
<1>3. LocksExclusive'
  BY EndExclusive DEF IInv, EndTransaction
<1>4. /\ pc'[w] = answer /\ found'[w] = None /\ toMark'[w] = None
      /\ held'[w] = {}
  BY RequestKinds DEF EndTransaction, Goto, IInv, TypeOK
<1>5. WebhookOK(w)'
  BY <1>4 DEF WebhookOK, CarriesPayment, InTransaction, Succeeded, Event
<1>. QED
  BY <1>1, <1>2, <1>3, <1>5

\* A rolled-back transaction leaves nothing behind.
LEMMA RollbackStep ==
    ASSUME IInv, NEW w \in Webhooks, Rollback(w) \/ ChargeViolatesUnique(w)
    PROVE  IInv'
<1>1. /\ EndTransaction(w, "failed")
      /\ UNCHANGED <<orderStatus, rows, provider, move>>
      /\ faults' \in 0..MaxFaults
  BY RequestsAssumption DEF Rollback, ChargeViolatesUnique, Fault, IInv, TypeOK
<1>2. TypeOK'
  BY <1>1, EndFacts
     DEF IInv, TypeOK, rows, sessions, charges, refunds, events, provider
<1>. QED
  BY <1>1, <1>2, EndFacts, WebhookStepKeeps DEF provider

-----------------------------------------------------------------------------
(* The commit. *)

\* A commit keeps what the other handlers rely on, if charges are final and no
\* other transaction's key is written.
LEMMA CommitKeeps ==
    ASSUME IInv, TypeOK', Grows, NEW w \in Webhooks, NEW answer \in {"acked", "failed"},
           EndTransaction(w, answer), UNCHANGED <<refundRef, paidBack, move>>,
           PlacedOrdersArePaid', AnnouncedOnce', SessionsBackedByCharges',
           RefundsBackedByProvider',
           \A v \in Webhooks : v # w /\ CarriesPayment(v) =>
              chargeStatus'[Event(v).tx] = "none"
    PROVE  IInv'
<1>1. ASSUME NEW v \in Webhooks PROVE WebhookOK(v)'
  <2>1. CASE v = w
    BY <2>1, EndFacts
  <2>2. CASE v # w
    <3>1. /\ pc'[v] = pc[v] /\ found'[v] = found[v]
          /\ toMark'[v] = toMark[v] /\ held'[v] = held[v]
      BY <2>2, EndFacts, RequestKinds
    <3>2. WebhookOK(v) /\ toMark[v] \in Charges \cup {None}
      BY DEF IInv, TypeOK
    <3>3. toMark[v] # None => chargeStatus'[toMark[v]] = "succeeded"
      BY <3>2 DEF WebhookOK, Grows
    <3>4. CarriesPayment(v)' => /\ ChargeKey(Event(v).tx) \in held[v]
                               /\ chargeStatus'[Event(v).tx] = "none"
      BY <2>2, <3>1, <3>2 DEF CarriesPayment, WebhookOK, Event
    <3>. QED
      BY <3>1, <3>2, <3>3, <3>4 DEF WebhookOK, Succeeded, Event
  <2>. QED
    BY <2>1, <2>2
<1>2. ASSUME NEW f \in RefundRequests PROVE RefundOK(f)'
  <2>1. pc'[f] = pc[f] /\ RefundOK(f)
    BY EndFacts, RequestKinds DEF IInv
  <2>2. ChargeOf[f] \in Charges
    BY NameFacts
  <2>. QED
    BY <2>1, <2>2 DEF RefundOK, Grows
<1>3. ASSUME NEW u \in Movers PROVE MoveOK(u)'
  BY PaidKept DEF IInv, MoveOK
<1>4. LocksExclusive'
  BY EndFacts
<1>. QED
  BY <1>1, <1>2, <1>3, <1>4 DEF IInv

\* The event's row, the answer and the faults of a commit are typed.
LEMMA CommitFacts ==
    ASSUME IInv, NEW w \in Webhooks, Commit(w)
    PROVE  /\ WebhookOK(w) /\ pc[w] = "handled"
           /\ \E answer \in {"acked", "failed"} : EndTransaction(w, answer)
           /\ webhookEvents' \subseteq Events
           /\ eventError' \subseteq webhookEvents'
           /\ faults' \in 0..MaxFaults
           /\ UNCHANGED <<sent, closed, paidBack, move>>
  BY EventFacts, RequestsAssumption DEF Commit, Fault, IInv, TypeOK, provider

\* A payment: the charge is written by its key's only holder.
LEMMA CommitPaymentStep ==
    ASSUME IInv, NEW w \in Webhooks, Commit(w), found[w] # None, Event(w).kind = "pay"
    PROVE  IInv'
<1>. DEFINE c == Event(w).tx
            i == found[w]
<1>1. /\ CommitPayment(w)
      /\ WebhookOK(w) /\ pc[w] = "handled" /\ CarriesPayment(w)
  BY CommitFacts DEF Commit, CarriesPayment
<1>2. /\ c \in Charges /\ c \notin CodCharges
      /\ ChargeKey(c) \in held[w] /\ chargeStatus[c] = "none"
      /\ i \in InitRequests /\ InitOrder[i] = OrderOf[c] /\ OrderOf[c] \in Orders
  BY <1>1, EventFacts, NameFacts DEF WebhookOK, InTransaction
<1>. HIDE DEF c, i
<1>3. /\ sessionStatus' = [sessionStatus EXCEPT ![i] =
              IF Succeeded(w) THEN "captured" ELSE "failed"]
      /\ chargeStatus' = [chargeStatus EXCEPT ![c] =
              IF Succeeded(w) THEN "succeeded" ELSE "failed"]
      /\ outbox' = [outbox EXCEPT ![c] = IF Succeeded(w) THEN @ + 1 ELSE @]
      /\ orderStatus' = IF Succeeded(w) THEN [orderStatus EXCEPT ![OrderOf[c]] = "placed"]
                                       ELSE orderStatus
      /\ UNCHANGED <<createdAt, refundedBy, refundStatus, refundRef>>
  BY <1>1 DEF CommitPayment, refunds, c, i
<1>4. PICK answer \in {"acked", "failed"} : EndTransaction(w, answer)
  BY CommitFacts
<1>5. TypeOK'
  BY <1>2, <1>3, <1>4, CommitFacts, EndFacts
     DEF IInv, TypeOK, SessionStatuses, RowStatuses, OrderStatuses
<1>6. Grows
  BY <1>2, <1>3, CommitFacts DEF IInv, TypeOK, Grows
<1>7. Succeeded(w) => Paid(OrderOf[c])'
  BY <1>2, <1>3 DEF IInv, TypeOK, Paid
<1>8. PlacedOrdersArePaid'
  <2>1. ASSUME NEW o \in Orders, orderStatus'[o] \notin {"pending_payment", "cancelled"}
        PROVE  Paid(o)'
    <3>1. CASE Succeeded(w) /\ o = OrderOf[c]
      BY <3>1, <1>7
    <3>2. CASE ~ (Succeeded(w) /\ o = OrderOf[c])
      <4>1. orderStatus'[o] = orderStatus[o]
        BY <3>2, <1>2, <1>3 DEF IInv, TypeOK
      <4>. QED
        BY <2>1, <4>1, <1>6, PaidKept DEF IInv, PlacedOrdersArePaid
    <3>. QED
      BY <3>1, <3>2
  <2>. QED
    BY <2>1 DEF PlacedOrdersArePaid
<1>9. AnnouncedOnce'
  BY <1>2, <1>3 DEF IInv, TypeOK, AnnouncedOnce, OnlineCharges
<1>10. SessionsBackedByCharges'
  <2>1. ASSUME NEW j \in InitRequests
        PROVE  /\ sessionStatus'[j] = "captured" => Paid(InitOrder[j])'
               /\ sessionStatus'[j] = "failed" =>
                     \E x \in Charges :
                        OrderOf[x] = InitOrder[j] /\ chargeStatus'[x] = "failed"
    <3>1. CASE j = i
      <4>1. sessionStatus'[j] = IF Succeeded(w) THEN "captured" ELSE "failed"
        BY <3>1, <1>2, <1>3 DEF IInv, TypeOK
      <4>2. ~ Succeeded(w) => chargeStatus'[c] = "failed"
        BY <1>2, <1>3 DEF IInv, TypeOK
      <4>. QED
        BY <3>1, <4>1, <4>2, <1>2, <1>7
    <3>2. CASE j # i
      <4>1. sessionStatus'[j] = sessionStatus[j]
        BY <3>2, <1>3 DEF IInv, TypeOK
      <4>. QED
        BY <4>1, <1>6, PaidKept DEF IInv, SessionsBackedByCharges, Grows
    <3>. QED
      BY <3>1, <3>2
  <2>. QED
    BY <2>1 DEF SessionsBackedByCharges, Paid
<1>11. RefundsBackedByProvider'
  BY <1>3, <1>6, CommitFacts DEF IInv, RefundsBackedByProvider, PaidBack, Grows
<1>12. ASSUME NEW v \in Webhooks, v # w, CarriesPayment(v)
       PROVE  chargeStatus'[Event(v).tx] = "none"
  <2>1. /\ ChargeKey(Event(v).tx) \in held[v]
        /\ chargeStatus[Event(v).tx] = "none"
        /\ Event(v).tx \in Charges
    BY <1>12, EventFacts DEF IInv, WebhookOK, CarriesPayment
  <2>2. Event(v).tx # c
    BY <1>2, <1>12, <2>1 DEF IInv, LocksExclusive
  <2>. QED
    BY <1>3, <2>1, <2>2 DEF IInv, TypeOK
<1>. QED
  BY <1>3, <1>4, <1>5, <1>6, <1>8, <1>9, <1>10, <1>11, <1>12, CommitKeeps, CommitFacts

\* A confirmed refund, and an event that changes nothing.
LEMMA CommitOtherStep ==
    ASSUME IInv, NEW w \in Webhooks, Commit(w),
           found[w] = None \/ Event(w).kind = "refund"
    PROVE  IInv'
<1>1. PICK answer \in {"acked", "failed"} : EndTransaction(w, answer)
  BY CommitFacts
<1>2. /\ UNCHANGED <<orderStatus, sessionStatus, createdAt, chargeStatus, outbox, refundRef>>
      /\ \/ UNCHANGED <<refundStatus, refundedBy>>
         \/ /\ found[w] \in RefundRequests /\ found[w] \in paidBack
            /\ refundStatus' = [refundStatus EXCEPT ![found[w]] = "succeeded"]
            /\ \/ UNCHANGED refundedBy
               \/ /\ toMark[w] \in Charges
                  /\ OrderOf[toMark[w]] = OrderOf[ChargeOf[found[w]]]
                  /\ chargeStatus[toMark[w]] = "succeeded"
                  /\ refundedBy' = [refundedBy EXCEPT ![toMark[w]] = found[w]]
  <2>1. CASE found[w] = None
    BY <2>1 DEF Commit, sessions, charges, refunds
  <2>2. CASE found[w] # None
    <3>1. CommitRefund(w) /\ WebhookOK(w) /\ Event(w).kind = "refund"
      BY <2>2, CommitFacts DEF Commit
    <3>2. /\ found[w] \in paidBack /\ found[w] \in RefundRequests
          /\ toMark[w] \in Charges \cup {None}
      BY <2>2, <3>1 DEF WebhookOK, IInv, TypeOK
    <3>. QED
      BY <3>1, <3>2
         DEF CommitRefund, SetRefund, MarkRefunded, sessions, WebhookOK
  <2>. QED
    BY <2>1, <2>2
<1>3. TypeOK'
  BY <1>1, <1>2, CommitFacts, EndFacts DEF IInv, TypeOK, RowStatuses
<1>4. Grows
  BY <1>2, CommitFacts DEF Grows
<1>5. PlacedOrdersArePaid' /\ AnnouncedOnce' /\ SessionsBackedByCharges'
  BY <1>2 DEF IInv, PlacedOrdersArePaid, AnnouncedOnce, SessionsBackedByCharges, Paid
<1>6. RefundsBackedByProvider'
  <2>1. UNCHANGED paidBack
    BY CommitFacts
  <2>2. ASSUME NEW f \in RefundRequests, refundStatus'[f] = "succeeded"
        PROVE  PaidBack(f)
    BY <1>2, <2>2 DEF IInv, TypeOK, RefundsBackedByProvider, PaidBack
  <2>3. ASSUME NEW c \in Charges, refundedBy'[c] # None
        PROVE  /\ PaidBack(refundedBy'[c])
               /\ OrderOf[ChargeOf[refundedBy'[c]]] = OrderOf[c]
               /\ chargeStatus[c] = "succeeded"
    BY <1>2, <2>3 DEF IInv, TypeOK, RefundsBackedByProvider, PaidBack
  <2>. QED
    BY <1>2, <2>1, <2>2, <2>3 DEF RefundsBackedByProvider, PaidBack
<1>7. \A v \in Webhooks : CarriesPayment(v) => chargeStatus'[Event(v).tx] = "none"
  BY <1>2 DEF IInv, WebhookOK
<1>. QED
  BY <1>1, <1>2, <1>3, <1>4, <1>5, <1>6, <1>7, CommitKeeps, CommitFacts

-----------------------------------------------------------------------------
(* Init and refund requests. *)

\* The number of sessions is a natural number.
LEMMA SessionCount ==
    Cardinality({j \in InitRequests : sessionStatus[j] # "none"}) + 1 \in Nat
<1>1. IsFiniteSet({j \in InitRequests : sessionStatus[j] # "none"})
  BY FS_Subset, RequestsAssumption
<1>. QED
  BY <1>1, FS_CardinalityType

\* A step of an init request moves its own pc and may add its session's row.
LEMMA InitRequestStep ==
    ASSUME IInv, NEW i \in InitRequests, InitStep(i) \/ InitFails(i)
    PROVE  IInv'
<1>1. /\ UNCHANGED <<orderStatus, charges, refunds, events, provider, locals, move>>
      /\ faults' \in 0..MaxFaults
      /\ \E label \in Labels : Goto(i, label)
  BY RequestsAssumption
     DEF InitStep, ReadPending, FindSession, CreateSession, InitFails, Fault, rows,
         IInv, TypeOK, Labels
<1>2. \/ UNCHANGED <<sessionStatus, createdAt>>
      \/ /\ sessionStatus' = [sessionStatus EXCEPT ![i] = "initialized"]
         /\ createdAt' \in [InitRequests -> Nat]
  <2>1. CASE CreateSession(i)
    BY <2>1, SessionCount DEF CreateSession, IInv, TypeOK
  <2>2. CASE ~ CreateSession(i)
    BY <2>2 DEF InitStep, ReadPending, FindSession, InitFails, rows, sessions
  <2>. QED
    BY <2>1, <2>2
<1>3. /\ pc' \in [Requests -> Labels]
      /\ \A q \in Requests : q # i => pc'[q] = pc[q]
  BY <1>1, RequestKinds DEF Goto, IInv, TypeOK
<1>4. /\ sessionStatus' \in [InitRequests -> SessionStatuses]
      /\ createdAt' \in [InitRequests -> Nat]
  BY <1>2 DEF IInv, TypeOK, SessionStatuses
<1>5. TypeOK'
  BY <1>1, <1>3, <1>4
     DEF IInv, TypeOK, charges, refunds, events, provider, locals
<1>6. SessionsBackedByCharges'
  <2>1. \A j \in InitRequests :
           sessionStatus'[j] \in {"captured", "failed"} =>
              sessionStatus'[j] = sessionStatus[j]
    BY <1>2 DEF IInv, TypeOK
  <2>2. UNCHANGED chargeStatus
    BY <1>1 DEF charges
  <2>. QED
    BY <2>1, <2>2 DEF IInv, SessionsBackedByCharges, Paid
<1>7. RefundsBackedByProvider'
  BY <1>1 DEF IInv, RefundsBackedByProvider, PaidBack, charges, refunds, provider
<1>8. ASSUME NEW f \in RefundRequests PROVE RefundOK(f)'
  BY <1>1, <1>3, RequestKinds DEF IInv, RefundOK, charges, refunds, provider
<1>. QED
  BY <1>1, <1>3, <1>5, <1>6, <1>7, <1>8, RequestStepKeeps DEF charges, provider

\* What a step of a refund request may do to the tables and to its own state.
LEMMA RefundFootprint ==
    ASSUME IInv, NEW f \in RefundRequests, RefundStep(f) \/ RefundDies(f)
    PROVE  /\ UNCHANGED <<orderStatus, sessions, chargeStatus, outbox, events, sent,
                          closed, locals, move>>
           /\ faults' \in 0..MaxFaults
           /\ \E label \in Labels : Goto(f, label)
           /\ paidBack' \in {paidBack, paidBack \cup {f}}
           /\ \E status \in {"pending", "failed", "succeeded"} :
                 /\ refundStatus' \in {refundStatus, [refundStatus EXCEPT ![f] = status]}
                 /\ status = "succeeded" => pc[f] = "cod"
           /\ \/ UNCHANGED refundRef
              \/ /\ refundRef' = [refundRef EXCEPT ![f] = RefundTx[f]]
                 /\ pc[f] = "accepted"
           /\ \/ UNCHANGED refundedBy
              \/ /\ refundedBy' = [refundedBy EXCEPT ![ChargeOf[f]] = f]
                 /\ pc[f] = "markCash"
<1>. USE RequestsAssumption DEF Labels, rows, charges, refunds, provider, IInv, TypeOK, Fault
<1>1. CASE ReadCharge(f)
  BY <1>1 DEF ReadCharge
<1>2. CASE InsertRefund(f)
  BY <1>2 DEF InsertRefund, SetRefund
<1>3. CASE CallProvider(f)
  BY <1>3 DEF CallProvider
<1>4. CASE SetReference(f)
  BY <1>4 DEF SetReference
<1>5. CASE CatchRefund(f)
  BY <1>5 DEF CatchRefund, SetRefund
<1>6. CASE SettleCash(f)
  BY <1>6 DEF SettleCash, SetRefund
<1>7. CASE MarkCash(f)
  BY <1>7 DEF MarkCash, MarkRefunded
<1>8. CASE RefundDies(f)
  BY <1>8 DEF RefundDies
<1>. QED
  BY <1>1, <1>2, <1>3, <1>4, <1>5, <1>6, <1>7, <1>8 DEF RefundStep

\* What the next step of a refund request relies on, it has established.
LEMMA RefundProgress ==
    ASSUME IInv, NEW f \in RefundRequests, RefundStep(f) \/ RefundDies(f)
    PROVE  RefundOK(f)'
<1>. USE RequestKinds DEF Goto, SetRefund, MarkRefunded, Fault, rows, charges,
         refunds, provider, IInv, TypeOK, RefundOK
<1>1. CASE ReadCharge(f)
  BY <1>1 DEF ReadCharge, Refundable
<1>2. CASE InsertRefund(f)
  BY <1>2 DEF InsertRefund
<1>3. CASE CallProvider(f)
  BY <1>3 DEF CallProvider
<1>4. CASE SetReference(f)
  BY <1>4 DEF SetReference
<1>5. CASE CatchRefund(f)
  BY <1>5 DEF CatchRefund
<1>6. CASE SettleCash(f)
  BY <1>6 DEF SettleCash
<1>7. CASE MarkCash(f)
  BY <1>7 DEF MarkCash
<1>8. CASE RefundDies(f)
  BY <1>8 DEF RefundDies
<1>. QED
  BY <1>1, <1>2, <1>3, <1>4, <1>5, <1>6, <1>7, <1>8 DEF RefundStep

\* A step of a refund request keeps everything.
LEMMA RefundRequestStep ==
    ASSUME IInv, NEW f \in RefundRequests, RefundStep(f) \/ RefundDies(f)
    PROVE  IInv'
<1>1. /\ pc' \in [Requests -> Labels]
      /\ \A q \in Requests : q # f => pc'[q] = pc[q]
  BY RefundFootprint, RequestKinds DEF Goto, IInv, TypeOK
<1>2. RefundOK(f) /\ ChargeOf[f] \in Charges
  BY NameFacts DEF IInv
<1>3. /\ refundStatus' \in [RefundRequests -> RowStatuses]
      /\ refundRef' \in [RefundRequests -> {RefundTx[g] : g \in RefundRequests} \cup {None}]
      /\ refundedBy' \in [Charges -> RefundRequests \cup {None}]
      /\ paidBack' \subseteq RefundRequests /\ paidBack \subseteq paidBack'
  BY RefundFootprint DEF IInv, TypeOK, RowStatuses
<1>4. TypeOK'
  BY <1>1, <1>3, RefundFootprint DEF IInv, TypeOK, sessions, events, locals
<1>5. SessionsBackedByCharges'
  BY RefundFootprint DEF IInv, SessionsBackedByCharges, sessions, Paid
<1>6. RefundsBackedByProvider'
  <2>1. ASSUME NEW g \in RefundRequests, refundStatus'[g] = "succeeded"
        PROVE  PaidBack(g)'
    <3>1. CASE refundStatus[g] = "succeeded"
      BY <3>1, <1>3 DEF IInv, RefundsBackedByProvider, PaidBack
    <3>2. CASE refundStatus[g] # "succeeded"
      <4>1. g = f /\ pc[f] = "cod"
        BY <2>1, <3>2, RefundFootprint DEF IInv, TypeOK
      <4>. QED
        BY <4>1, <1>2 DEF RefundOK, PaidBack
    <3>. QED
      BY <3>1, <3>2
  <2>2. ASSUME NEW c \in Charges, refundedBy'[c] # None
        PROVE  /\ PaidBack(refundedBy[c])'
               /\ OrderOf[ChargeOf[refundedBy'[c]]] = OrderOf[c]
               /\ chargeStatus[c] = "succeeded"
    <3>1. CASE refundedBy'[c] = refundedBy[c]
      BY <2>2, <3>1, <1>3 DEF IInv, RefundsBackedByProvider, PaidBack
    <3>2. CASE refundedBy'[c] # refundedBy[c]
      <4>1. c = ChargeOf[f] /\ pc[f] = "markCash" /\ refundedBy'[c] = f
        BY <1>2, <3>2, RefundFootprint DEF IInv, TypeOK
      <4>. QED
        BY <4>1, <1>2 DEF RefundOK, PaidBack
    <3>. QED
      BY <3>1, <3>2
  <2>3. UNCHANGED chargeStatus
    BY RefundFootprint
  <2>. QED
    BY <2>1, <2>2, <2>3 DEF RefundsBackedByProvider
<1>7. ASSUME NEW g \in RefundRequests PROVE RefundOK(g)'
  <2>1. CASE g = f
    BY <2>1, RefundProgress
  <2>2. CASE g # f
    <3>1. /\ pc'[g] = pc[g] /\ refundRef'[g] = refundRef[g]
          /\ UNCHANGED chargeStatus /\ RefundOK(g)
      BY <2>2, <1>1, RefundFootprint, RequestKinds DEF IInv, TypeOK
    <3>. QED
      BY <3>1, <1>3 DEF RefundOK
  <2>. QED
    BY <2>1, <2>2
<1>. QED
  BY <1>1, <1>3, <1>4, <1>5, <1>6, <1>7, RefundFootprint, RequestStepKeeps

-----------------------------------------------------------------------------
(* The provider and status changes. *)

\* What the customer, the restaurant or an admin may move an order to: an order
\* that waits for payment, or is cancelled, only to 'cancelled'.
LEMMA MoverTargets ==
    ASSUME NEW from, NEW to, NEW actor \in {"customer"} \cup Staff,
           TransitionAllowed(from, to, actor)
    PROVE  /\ to # "pending_payment"
           /\ to # "cancelled" => from \notin {"pending_payment", "cancelled"}
  BY DEF TransitionAllowed, TRANSITIONS, Rule, Staff

\* The provider only sends events and closes its sessions.
LEMMA ProviderStep ==
    ASSUME IInv, NEW e \in Events, Pay(e) \/ ConfirmRefund(e)
    PROVE  IInv'
<1>1. /\ UNCHANGED <<orderStatus, rows, paidBack, pc, locals, move, faults>>
      /\ sent' \subseteq Events /\ closed' \subseteq InitRequests
  BY DEF Pay, ConfirmRefund, IInv, TypeOK
<1>2. TypeOK'
  BY <1>1 DEF IInv, TypeOK, rows, sessions, charges, refunds, events, locals
<1>3. /\ PlacedOrdersArePaid' /\ AnnouncedOnce' /\ SessionsBackedByCharges'
      /\ RefundsBackedByProvider' /\ LocksExclusive'
  BY <1>1 DEF IInv, PlacedOrdersArePaid, AnnouncedOnce, SessionsBackedByCharges,
              RefundsBackedByProvider, LocksExclusive, Paid, PaidBack, rows,
              sessions, charges, refunds, locals
<1>4. /\ \A w \in Webhooks : WebhookOK(w)'
      /\ \A f \in RefundRequests : RefundOK(f)'
      /\ \A u \in Movers : MoveOK(u)'
  BY <1>1 DEF IInv, WebhookOK, CarriesPayment, Event, Succeeded, RefundOK, MoveOK,
              Paid, rows, charges, refunds, locals
<1>. QED
  BY <1>2, <1>3, <1>4 DEF IInv

\* A status change that leaves the order's payment alone.
LEMMA MoverStep ==
    ASSUME IInv, NEW u \in Movers,
           \/ \E o \in Orders, target \in OrderStatuses : ReadOrder(u, o, target)
           \/ WriteOrder(u)
    PROVE  IInv'
<1>1. UNCHANGED <<rows, provider, pc, locals, faults>>
  BY DEF ReadOrder, WriteOrder
<1>2. /\ TypeOK'
      /\ PlacedOrdersArePaid'
      /\ \A v \in Movers : MoveOK(v)'
  <2>. USE <1>1 DEF rows, sessions, charges, refunds, events, provider, locals
  <2>1. ASSUME NEW o \in Orders, NEW target \in OrderStatuses, ReadOrder(u, o, target)
        PROVE  /\ TypeOK' /\ PlacedOrdersArePaid'
               /\ \A v \in Movers : MoveOK(v)'
    <3>1. /\ move' = [move EXCEPT ![u] = [order |-> o, target |-> target]]
          /\ UNCHANGED orderStatus
      BY <2>1 DEF ReadOrder
    <3>2. target # "cancelled" => Paid(o)
      BY <2>1, MoverTargets DEF ReadOrder, IInv, PlacedOrdersArePaid
    <3>3. [order |-> o, target |-> target] \in Moves
      BY DEF Moves
    <3>4. TypeOK'
      BY <3>1, <3>3 DEF IInv, TypeOK
    <3>5. PlacedOrdersArePaid'
      BY <3>1 DEF IInv, PlacedOrdersArePaid, Paid
    <3>6. ASSUME NEW v \in Movers PROVE MoveOK(v)'
      <4>1. CASE v = u
        BY <4>1, <3>1, <3>2 DEF IInv, TypeOK, MoveOK, Paid
      <4>2. CASE v # u
        BY <4>2, <3>1 DEF IInv, TypeOK, MoveOK, Paid
      <4>. QED
        BY <4>1, <4>2
    <3>. QED
      BY <3>4, <3>5, <3>6
  <2>2. CASE WriteOrder(u)
    <3>. DEFINE o == move[u].order
                target == move[u].target
    <3>1. /\ move[u] \in [order : Orders, target : OrderStatuses]
          /\ move[u] # Idle /\ MoveOK(u)
      BY <2>2 DEF WriteOrder, IInv, TypeOK, Moves
    <3>2. o \in Orders /\ target \in OrderStatuses
            /\ (target # "cancelled" => Paid(o))
      BY <3>1 DEF MoveOK
    <3>3. /\ orderStatus' = [orderStatus EXCEPT ![o] = target]
          /\ move' = [move EXCEPT ![u] = Idle]
      BY <2>2 DEF WriteOrder
    <3>. HIDE DEF o, target
    <3>4. TypeOK'
      BY <3>2, <3>3 DEF IInv, TypeOK, Moves
    <3>5. PlacedOrdersArePaid'
      BY <3>2, <3>3 DEF IInv, TypeOK, PlacedOrdersArePaid, Paid
    <3>6. ASSUME NEW v \in Movers PROVE MoveOK(v)'
      BY <3>3 DEF IInv, TypeOK, MoveOK, Paid
    <3>. QED
      BY <3>4, <3>5, <3>6
  <2>. QED
    BY <2>1, <2>2
<1>3. /\ AnnouncedOnce' /\ SessionsBackedByCharges'
      /\ RefundsBackedByProvider' /\ LocksExclusive'
  BY <1>1 DEF IInv, AnnouncedOnce, SessionsBackedByCharges, RefundsBackedByProvider,
              LocksExclusive, Paid, PaidBack, rows, sessions, charges, refunds,
              provider, locals
<1>4. /\ \A w \in Webhooks : WebhookOK(w)'
      /\ \A f \in RefundRequests : RefundOK(f)'
  BY <1>1 DEF IInv, WebhookOK, CarriesPayment, Event, Succeeded, RefundOK, rows,
              charges, refunds, provider, locals
<1>. QED
  BY <1>2, <1>3, <1>4 DEF IInv

-----------------------------------------------------------------------------
(* The theorems. *)

\* Before any request: cash orders are collected, the others wait for payment.
LEMMA InitIInv == Init => IInv
<1>. SUFFICES ASSUME Init PROVE IInv
  OBVIOUS
<1>1. TypeOK
  BY NameFacts, RequestsAssumption
     DEF Init, TypeOK, OrderStatuses, SessionStatuses, RowStatuses, Labels, Moves, Rows
<1>2. PlacedOrdersArePaid
  BY NameFacts DEF Init, PlacedOrdersArePaid, Paid, CodOrders
<1>3. AnnouncedOnce /\ SessionsBackedByCharges /\ RefundsBackedByProvider
  BY DEF Init, AnnouncedOnce, OnlineCharges, SessionsBackedByCharges,
         RefundsBackedByProvider
<1>4. LocksExclusive
  BY DEF Init, LocksExclusive
<1>5. /\ \A w \in Webhooks : WebhookOK(w)
      /\ \A f \in RefundRequests : RefundOK(f)
      /\ \A u \in Movers : MoveOK(u)
  BY RequestKinds
     DEF Init, WebhookOK, CarriesPayment, InTransaction, RefundOK, MoveOK
<1>. QED
  BY <1>1, <1>2, <1>3, <1>4, <1>5 DEF IInv

\* Every step of every request preserves the invariant.
LEMMA NextIInv == IInv /\ [Next]_vars => IInv'
<1>. SUFFICES ASSUME IInv, [Next]_vars PROVE IInv'
  OBVIOUS
<1>1. CASE UNCHANGED vars
  BY <1>1
     DEF vars, rows, sessions, charges, refunds, events, provider, locals, IInv,
         TypeOK, PlacedOrdersArePaid, AnnouncedOnce, SessionsBackedByCharges,
         RefundsBackedByProvider, LocksExclusive, WebhookOK, CarriesPayment,
         Event, Succeeded, RefundOK, MoveOK, Paid, PaidBack
<1>2. ASSUME NEW w \in Webhooks, Commit(w) PROVE IInv'
  BY <1>2, EventFacts, CommitPaymentStep, CommitOtherStep
<1>3. ASSUME NEW w \in Webhooks, WebhookStep(w) \/ Rollback(w) PROVE IInv'
  BY <1>2, <1>3, ReadingStep, HoldingStep, MarkChargeStep, RollbackStep
     DEF WebhookStep
<1>. QED
  BY <1>1, <1>3, InitRequestStep, RefundRequestStep, ProviderStep, MoverStep DEF Next

\* The inductive invariant holds: a captured charge stays captured, a charge's
\* key has one holder, and that is what webhooks, refunds and status changes
\* rely on however stale their reads are.
THEOREM Invariance == Spec => []IInv
  BY InitIInv, NextIInv, PTL DEF Spec

\* Every variable keeps its type.
THEOREM TypeCorrect == Spec => []TypeOK
<1>1. IInv => TypeOK
  BY DEF IInv
<1>. QED
  BY <1>1, Invariance, PTL

\* No order is placed, and none gets beyond, without a captured charge
\* (applySystemStatusChange in handlePayEvent, updateStatus).
THEOREM PlacedPaid == Spec => []PlacedOrdersArePaid
<1>1. IInv => PlacedOrdersArePaid
  BY DEF IInv
<1>. QED
  BY <1>1, Invariance, PTL

\* handlePayEvent announces a captured charge exactly once.
THEOREM Announced == Spec => []AnnouncedOnce
<1>1. IInv => AnnouncedOnce
  BY DEF IInv
<1>. QED
  BY <1>1, Invariance, PTL

\* updatePaymentSessionStatus says of a session what a charge of its order says.
THEOREM SessionsBacked == Spec => []SessionsBackedByCharges
<1>1. IInv => SessionsBackedByCharges
  BY DEF IInv
<1>. QED
  BY <1>1, Invariance, PTL

\* refund and handleRefundEvent record no refund that the provider did not
\* accept.
THEOREM RefundsBacked == Spec => []RefundsBackedByProvider
<1>1. IInv => RefundsBackedByProvider
  BY DEF IInv
<1>. QED
  BY <1>1, Invariance, PTL

\* Only a commit writes charges, and it writes the one whose key it holds.
LEMMA ChargesKept ==
    ASSUME IInv, [Next]_vars, NEW c \in Charges, chargeStatus[c] # "none"
    PROVE  chargeStatus'[c] = chargeStatus[c]
<1>1. CASE UNCHANGED chargeStatus
  BY <1>1
<1>2. ASSUME NEW w \in Webhooks, Commit(w), found[w] # None, Event(w).kind = "pay"
      PROVE  chargeStatus'[c] = chargeStatus[c]
  <2>1. chargeStatus[Event(w).tx] = "none"
    BY <1>2, CommitFacts DEF CarriesPayment, WebhookOK
  <2>2. \E x : chargeStatus' = [chargeStatus EXCEPT ![Event(w).tx] = x]
    BY <1>2 DEF Commit, CommitPayment
  <2>. QED
    BY <2>1, <2>2 DEF IInv, TypeOK
<1>3. ASSUME NEW w \in Webhooks, Commit(w),
             found[w] = None \/ Event(w).kind = "refund"
      PROVE  UNCHANGED chargeStatus
  BY <1>3 DEF Commit, CommitRefund, charges
<1>4. ASSUME NEW w \in Webhooks, WebhookStep(w) \/ Rollback(w), ~ Commit(w)
      PROVE  UNCHANGED chargeStatus
  BY <1>4
     DEF WebhookStep, Rollback, Receive, RecordEvent, DuplicateEvent, FindPaidSession,
         UpdateSession, InsertCharge, ChargeViolatesUnique, UpdateOrder, FindRefund,
         UpdateRefund, MarkCharge, Redeliver, Step, rows, charges
<1>5. ASSUME NEW i \in InitRequests, InitStep(i) \/ InitFails(i)
      PROVE  UNCHANGED chargeStatus
  BY <1>5 DEF InitStep, InitFails, ReadPending, FindSession, CreateSession, rows, charges
<1>6. ASSUME NEW f \in RefundRequests, RefundStep(f) \/ RefundDies(f)
      PROVE  UNCHANGED chargeStatus
  BY <1>6, RefundFootprint
<1>7. CASE \/ \E e \in Events : Pay(e) \/ ConfirmRefund(e)
           \/ \E u \in Movers : \/ \E o \in Orders, target \in OrderStatuses :
                                      ReadOrder(u, o, target)
                                \/ WriteOrder(u)
           \/ UNCHANGED vars
  BY <1>7 DEF Pay, ConfirmRefund, ReadOrder, WriteOrder, vars, rows, charges
<1>. QED
  BY <1>1, <1>2, <1>3, <1>4, <1>5, <1>6, <1>7, EventFacts DEF Next

\* createTransaction's charge rows are never rewritten, whichever webhooks of
\* the same provider transaction overlap or follow.
THEOREM ChargesFinal == Spec => ChargesAreFinal
<1>1. IInv /\ [Next]_vars =>
        [\A c \in Charges : chargeStatus[c] # "none" =>
           chargeStatus'[c] = chargeStatus[c]]_vars
  BY ChargesKept
<1>. QED
  BY <1>1, Invariance, PTL DEF Spec, ChargesAreFinal
=============================================================================
