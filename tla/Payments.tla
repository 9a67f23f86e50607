------------------------------ MODULE Payments ------------------------------
(***************************************************************************)
(* Online payments: PaymentService.init opens a session at the provider,   *)
(* KashierWebhookService.process turns the provider's webhooks into charge *)
(* rows, order statuses and outbox rows, PaymentService.refund pays back.  *)
(*                                                                         *)
(* Every HTTP request in flight is a process.  A webhook runs one database *)
(* transaction, with the rows it has updated or inserted held to its end   *)
(* and its writes assigned by its commit (see Settlement); init and refund *)
(* run single statements, each its own transaction.                        *)
(*                                                                         *)
(* The provider delivers a webhook until it is answered 200, more than once*)
(* and in any order.                                                       *)
(***************************************************************************)
EXTENDS Integers, FiniteSets, OrderStatus

CONSTANTS
    Orders,          \* rows of orders
    InitRequests,    \* POST payments/init; names the session it creates
    RefundRequests,  \* POST payments/:id/refund; names the row it creates
    Webhooks,        \* deliveries of the provider's webhooks
    Movers,          \* PATCH orders/:id/status requests
    Charges,         \* provider transactions, and the orders paid in cash
    CodCharges,      \* of these, the cod_collection rows
    OrderOf,         \* the order of a charge
    InitOrder,       \* the order an init request names
    ChargeOf,        \* the charge a refund request names
    RefundTx,        \* the reference the provider gives a refund
    EventOf,         \* the event a webhook delivers
    MaxFaults,       \* bound on errors, crashes and lost answers
    None

Requests == InitRequests \cup RefundRequests \cup Webhooks
Events == {EventOf[w] : w \in Webhooks}
OnlineCharges == Charges \ CodCharges
CodOrders == {OrderOf[c] : c \in CodCharges}

ASSUME NoneAssumption ==
    None \notin Orders \cup InitRequests \cup RefundRequests \cup Charges

ASSUME RequestsAssumption ==
    /\ InitRequests \cap RefundRequests = {}
    /\ (InitRequests \cup RefundRequests) \cap Webhooks = {}
    /\ IsFiniteSet(InitRequests)
    /\ MaxFaults \in Nat

ASSUME ChargesAssumption ==
    /\ CodCharges \subseteq Charges
    /\ OrderOf \in [Charges -> Orders]
    /\ InitOrder \in [InitRequests -> Orders]
    /\ ChargeOf \in [RefundRequests -> Charges]

\* { event, data: { merchantOrderId, transactionId ?? kashierOrderId, status } };
\* merchantOrderId may be of no order of ours.
ASSUME EventsAssumption ==
    \A e \in Events :
        /\ DOMAIN e = {"kind", "order", "tx", "status"}
        /\ e.kind \in {"pay", "refund"} /\ e.status \in {"SUCCESS", "FAILED"}
        /\ e.order \in Orders \cup {None} /\ e.tx # None
        /\ e.kind = "pay" => e.tx \in OnlineCharges
        /\ e.kind = "pay" /\ e.order # None => e.order = OrderOf[e.tx]

VARIABLES
    orderStatus,     \* orders.status
    sessionStatus,   \* payment_sessions.status, "none" before the row exists
    createdAt,       \* its created_at
    chargeStatus,    \* status of the charge's row, "none" before it exists
    refundedBy,      \* its refunded_payment_id (is_refunded is not null)
    refundStatus,    \* status of the refund's row, "none" before it exists
    refundRef,       \* its provider_reference_id
    webhookEvents,   \* events with a row in payment_webhook_events
    eventError,      \* of these, the rows with a process_error
    outbox,          \* payment.captured and order.placed rows of a charge
    sent,            \* provider: events that happened
    closed,          \* provider: sessions that were paid
    paidBack,        \* provider: refunds accepted
    pc,              \* how far a request has got, or how it was answered
    found,           \* the webhook's local `session` or `refund`
    toMark,          \* the webhook's local `charge`
    held,            \* rows and index keys the webhook's transaction holds
    move,            \* local variables of a status change
    faults           \* faults so far

sessions == <<sessionStatus, createdAt>>
charges == <<chargeStatus, refundedBy, outbox>>
refunds == <<refundStatus, refundRef>>
events == <<webhookEvents, eventError>>
rows == <<sessions, charges, refunds, events>>
provider == <<sent, closed, paidBack>>
locals == <<found, toMark, held>>
vars == <<orderStatus, rows, provider, pc, locals, move, faults>>

-----------------------------------------------------------------------------
(* Requests and rows. *)

Goto(r, label) == pc' = [pc EXCEPT ![r] = label]

Fault == faults < MaxFaults /\ faults' = faults + 1

EventRow(e) == <<"payment_webhook_events", e>>
SessionRow(i) == <<"payment_sessions", i>>
ChargeKey(c) == <<"charge", c>>
TransactionRow(x) == <<"transactions", x>>
OrderRow(o) == <<"orders", o>>

Rows == {EventRow(e) : e \in Events} \cup {SessionRow(i) : i \in InitRequests}
          \cup {ChargeKey(c) : c \in Charges}
          \cup {TransactionRow(x) : x \in Charges \cup RefundRequests}
          \cup {OrderRow(o) : o \in Orders}

Free(row) == \A w \in Webhooks : row \notin held[w]

Hold(w, row) == /\ Free(row)
                /\ held' = [held EXCEPT ![w] = @ \cup {row}]

-----------------------------------------------------------------------------
(* PaymentService.init. *)

ActiveOf(o) == {i \in InitRequests :
                  InitOrder[i] = o /\ sessionStatus[i] \in {"initialized", "pending"}}

\* findActivePaymentSessionByOrderId: newest first.
Newest(S) == {i \in S : \A j \in S : createdAt[j] <= createdAt[i]}

ReadPending(i) ==
    /\ pc[i] = "start"
    /\ IF orderStatus[InitOrder[i]] = "pending_payment" THEN Goto(i, "read")
                                                       ELSE Goto(i, "refused")
    /\ UNCHANGED <<orderStatus, rows, provider, locals, move, faults>>

\* An active session is returned as it is.
FindSession(i) ==
    /\ pc[i] = "read"
    /\ Goto(i, IF ActiveOf(InitOrder[i]) = {} THEN "create" ELSE "answered")
    /\ UNCHANGED <<orderStatus, rows, provider, locals, move, faults>>

\* createSession at the provider, whose redirect URL nobody knows before the
\* answer, then the row.
CreateSession(i) ==
    /\ pc[i] = "create"
    /\ sessionStatus' = [sessionStatus EXCEPT ![i] = "initialized"]
    /\ createdAt' = [createdAt EXCEPT ![i] =
          Cardinality({j \in InitRequests : sessionStatus[j] # "none"}) + 1]
    /\ Goto(i, "answered")
    /\ UNCHANGED <<orderStatus, charges, refunds, events, provider, locals, move,
                   faults>>

InitFails(i) ==
    /\ pc[i] \in {"read", "create"}
    /\ Fault
    /\ Goto(i, "failed")
    /\ UNCHANGED <<orderStatus, rows, provider, locals, move>>

-----------------------------------------------------------------------------
(* PaymentService.refund. *)

Refundable(c) == chargeStatus[c] = "succeeded" /\ refundedBy[c] = None

ReadCharge(f) ==
    /\ pc[f] = "start"
    /\ Goto(f, IF Refundable(ChargeOf[f]) THEN "read" ELSE "refused")
    /\ UNCHANGED <<orderStatus, rows, provider, locals, move, faults>>

SetRefund(f, status) == refundStatus' = [refundStatus EXCEPT ![f] = status]

\* Mutant: the row starts with the charge's reference.
InsertRefundReferenced(f) ==
    /\ pc[f] = "read"
    /\ SetRefund(f, "pending")
    /\ refundRef' = [refundRef EXCEPT ![f] = RefundTx[f]]
    /\ Goto(f, IF ChargeOf[f] \in CodCharges THEN "cod" ELSE "online")
    /\ UNCHANGED <<orderStatus, sessions, charges, events, provider, locals, move,
                   faults>>

InsertRefund(f) ==
    /\ pc[f] = "read"
    /\ SetRefund(f, "pending")
    /\ Goto(f, IF ChargeOf[f] \in CodCharges THEN "cod" ELSE "online")
    /\ UNCHANGED <<orderStatus, sessions, charges, refundRef, events, provider,
                   locals, move, faults>>

\* paymentProvider.refund: accepted, accepted with the answer lost, or
\* rejected.
CallProvider(f) ==
    /\ pc[f] = "online"
    /\ \/ /\ paidBack' = paidBack \cup {f}
          /\ \/ Goto(f, "accepted") /\ UNCHANGED faults
             \/ Goto(f, "catch") /\ Fault
       \/ Goto(f, "catch") /\ UNCHANGED <<paidBack, faults>>
    /\ UNCHANGED <<orderStatus, rows, sent, closed, locals, move>>

\* setTransactionProviderReferenceId; its failure is caught like the
\* provider's.
SetReference(f) ==
    /\ pc[f] = "accepted"
    /\ \/ /\ Free(TransactionRow(f))
          /\ refundRef' = [refundRef EXCEPT ![f] = RefundTx[f]]
          /\ \/ Goto(f, "answered") /\ UNCHANGED faults
             \/ Goto(f, "catch") /\ Fault
       \/ Goto(f, "catch") /\ Fault /\ UNCHANGED refundRef
    /\ UNCHANGED <<orderStatus, sessions, charges, refundStatus, events, provider,
                   locals, move>>

CatchRefund(f) ==
    /\ pc[f] = "catch"
    /\ Free(TransactionRow(f))
    /\ SetRefund(f, "failed")
    /\ Goto(f, "failed")
    /\ UNCHANGED <<orderStatus, sessions, charges, refundRef, events, provider,
                   locals, move, faults>>

\* Cash: the refund succeeds at once, then the charge is marked.
SettleCash(f) ==
    /\ pc[f] = "cod"
    /\ Free(TransactionRow(f))
    /\ SetRefund(f, "succeeded")
    /\ Goto(f, "markCash")
    /\ UNCHANGED <<orderStatus, sessions, charges, refundRef, events, provider,
                   locals, move, faults>>

MarkRefunded(c, f) == refundedBy' = [refundedBy EXCEPT ![c] = f]

MarkCash(f) ==
    /\ pc[f] = "markCash"
    /\ Free(TransactionRow(ChargeOf[f]))
    /\ MarkRefunded(ChargeOf[f], f)
    /\ Goto(f, "answered")
    /\ UNCHANGED <<orderStatus, sessions, chargeStatus, outbox, refunds, events,
                   provider, locals, move, faults>>

\* The server dies, or a statement outside the try throws.
RefundDies(f) ==
    /\ pc[f] \in {"read", "online", "accepted", "catch", "cod", "markCash"}
    /\ Fault
    /\ Goto(f, "failed")
    /\ UNCHANGED <<orderStatus, rows, provider, locals, move>>

-----------------------------------------------------------------------------
(* KashierWebhookService.process: one transaction per delivery. *)

Event(w) == EventOf[w]
Succeeded(w) == Event(w).status = "SUCCESS"
InTransaction == {"begun", "recorded", "session", "charge", "order", "refund",
                  "mark", "handled"}

\* The next statement of the transaction has run.
Step(w, label) == /\ Goto(w, label)
                  /\ UNCHANGED <<orderStatus, rows, provider, move, faults>>

\* The transaction has ended, and its local variables are gone.
EndTransaction(w, answer) ==
    /\ Goto(w, answer)
    /\ found' = [found EXCEPT ![w] = None]
    /\ toMark' = [toMark EXCEPT ![w] = None]
    /\ held' = [held EXCEPT ![w] = {}]

\* resolveRegion: an order of no region is acknowledged and forgotten.
Receive(w) ==
    /\ pc[w] = "start"
    /\ Event(w) \in sent
    /\ Step(w, IF Event(w).order = None THEN "acked" ELSE "begun")
    /\ UNCHANGED locals

\* recordWebhookEventIfNew, which waits for a transaction recording the event.
RecordEvent(w) ==
    /\ pc[w] = "begun"
    /\ Event(w) \notin webhookEvents
    /\ Hold(w, EventRow(Event(w)))
    /\ Step(w, "recorded")
    /\ UNCHANGED <<found, toMark>>

DuplicateEvent(w) ==
    /\ pc[w] = "begun"
    /\ Event(w) \in webhookEvents
    /\ Free(EventRow(Event(w)))
    /\ Step(w, "acked")
    /\ UNCHANGED locals

\* handlePayEvent finds the order's active session, or has nothing to do.
FindPaidSession(w) ==
    /\ pc[w] = "recorded"
    /\ Event(w).kind = "pay"
    /\ IF ActiveOf(Event(w).order) = {}
       THEN Step(w, "handled") /\ UNCHANGED found
       ELSE \E i \in Newest(ActiveOf(Event(w).order)) :
              Step(w, "session") /\ found' = [found EXCEPT ![w] = i]
    /\ UNCHANGED <<toMark, held>>

UpdateSession(w) ==
    /\ pc[w] = "session"
    /\ Hold(w, SessionRow(found[w]))
    /\ Step(w, "charge")
    /\ UNCHANGED <<found, toMark>>

\* Mutants: the key is not unique; payment.captured is written on `conn`, not
\* on the transaction.
InsertChargeUnkeyed(w) ==
    /\ pc[w] = "charge"
    /\ Step(w, IF Succeeded(w) THEN "order" ELSE "handled")
    /\ UNCHANGED locals

InsertChargeAnnounced(w) ==
    /\ pc[w] = "charge"
    /\ chargeStatus[Event(w).tx] = "none"
    /\ Hold(w, ChargeKey(Event(w).tx))
    /\ Goto(w, IF Succeeded(w) THEN "order" ELSE "handled")
    /\ outbox' = [outbox EXCEPT ![Event(w).tx] = @ + 1]
    /\ UNCHANGED <<orderStatus, sessions, chargeStatus, refundedBy, refunds, events,
                   provider, found, toMark, move, faults>>

InsertCharge(w) ==
    /\ pc[w] = "charge"
    /\ chargeStatus[Event(w).tx] = "none"
    /\ Hold(w, ChargeKey(Event(w).tx))
    /\ Step(w, IF Succeeded(w) THEN "order" ELSE "handled")
    /\ UNCHANGED <<found, toMark>>

\* The key charge:<transaction> is taken: rollback, and the handler throws.
ChargeViolatesUnique(w) ==
    /\ pc[w] = "charge"
    /\ chargeStatus[Event(w).tx] # "none"
    /\ Free(ChargeKey(Event(w).tx))
    /\ EndTransaction(w, "failed")
    /\ UNCHANGED <<orderStatus, rows, provider, move, faults>>

\* Mutant: applySystemStatusChange is not given the transaction.
UpdateOrderOutside(w) ==
    /\ pc[w] = "order"
    /\ Free(OrderRow(Event(w).order))
    /\ orderStatus' = [orderStatus EXCEPT ![Event(w).order] = "placed"]
    /\ Goto(w, "handled")
    /\ UNCHANGED <<rows, provider, locals, move, faults>>

\* applySystemStatusChange(PLACED), whatever the order's status.
UpdateOrder(w) ==
    /\ pc[w] = "order"
    /\ Hold(w, OrderRow(Event(w).order))
    /\ Step(w, "handled")
    /\ UNCHANGED <<found, toMark>>

\* Mutant: the reference is not asked for, only a pending refund.
FindRefundPending(w) ==
    /\ pc[w] = "recorded"
    /\ Event(w).kind = "refund"
    /\ LET matches == {f \in RefundRequests : refundStatus[f] = "pending"}
       IN  IF Succeeded(w) /\ matches # {}
           THEN \E f \in matches : /\ found' = [found EXCEPT ![w] = f]
                                   /\ Step(w, "refund")
           ELSE Step(w, "handled") /\ UNCHANGED found
    /\ UNCHANGED <<toMark, held>>

\* Mutant: the status is asked for as the function's name says.
FindRefundByName(w) ==
    /\ pc[w] = "recorded"
    /\ Event(w).kind = "refund"
    /\ LET matches == {f \in RefundRequests : /\ refundRef[f] = Event(w).tx
                                            /\ refundStatus[f] = "pending"}
       IN  IF Succeeded(w) /\ matches # {}
           THEN \E f \in matches : /\ found' = [found EXCEPT ![w] = f]
                                   /\ Step(w, "refund")
           ELSE Step(w, "handled") /\ UNCHANGED found
    /\ UNCHANGED <<toMark, held>>

\* handleRefundEvent: findPendingRefundByProviderReferenceId does not ask for
\* a pending one.
FindRefund(w) ==
    /\ pc[w] = "recorded"
    /\ Event(w).kind = "refund"
    /\ LET matches == {f \in RefundRequests : refundRef[f] = Event(w).tx}
       IN  IF Succeeded(w) /\ matches # {}
           THEN \E f \in matches : /\ found' = [found EXCEPT ![w] = f]
                                   /\ Step(w, "refund")
           ELSE Step(w, "handled") /\ UNCHANGED found
    /\ UNCHANGED <<toMark, held>>

UpdateRefund(w) ==
    /\ pc[w] = "refund"
    /\ Hold(w, TransactionRow(found[w]))
    /\ Step(w, "mark")
    /\ UNCHANGED <<found, toMark>>

\* findSucceededChargeByOrderId takes any, markChargeRefunded updates it.
MarkCharge(w) ==
    /\ pc[w] = "mark"
    /\ LET paid == {c \in Charges : /\ OrderOf[c] = OrderOf[ChargeOf[found[w]]]
                                    /\ chargeStatus[c] = "succeeded"}
       IN  IF paid = {} THEN UNCHANGED <<toMark, held>>
           ELSE \E c \in paid : /\ toMark' = [toMark EXCEPT ![w] = c]
                                /\ Hold(w, TransactionRow(c))
    /\ Step(w, "handled")
    /\ UNCHANGED found

\* Mutant: the session is captured whatever the status.
CommitPaymentCaptured(w) ==
    LET c == Event(w).tx
        won == Succeeded(w)
    IN  /\ sessionStatus' = [sessionStatus EXCEPT ![found[w]] = "captured"]
        /\ chargeStatus' = [chargeStatus EXCEPT ![c] =
              IF won THEN "succeeded" ELSE "failed"]
        /\ outbox' = [outbox EXCEPT ![c] = IF won THEN @ + 1 ELSE @]
        /\ orderStatus' = IF won THEN [orderStatus EXCEPT ![OrderOf[c]] = "placed"]
                                 ELSE orderStatus
        /\ UNCHANGED <<createdAt, refundedBy, refunds>>

\* What the committed transaction leaves in the tables.
CommitPayment(w) ==
    LET c == Event(w).tx
        won == Succeeded(w)
    IN  /\ sessionStatus' = [sessionStatus EXCEPT ![found[w]] =
              IF won THEN "captured" ELSE "failed"]
        /\ chargeStatus' = [chargeStatus EXCEPT ![c] =
              IF won THEN "succeeded" ELSE "failed"]
        /\ outbox' = [outbox EXCEPT ![c] = IF won THEN @ + 1 ELSE @]
        /\ orderStatus' = IF won THEN [orderStatus EXCEPT ![OrderOf[c]] = "placed"]
                                 ELSE orderStatus
        /\ UNCHANGED <<createdAt, refundedBy, refunds>>

CommitRefund(w) ==
    /\ SetRefund(found[w], "succeeded")
    /\ IF toMark[w] = None THEN UNCHANGED refundedBy
                            ELSE MarkRefunded(toMark[w], found[w])
    /\ UNCHANGED <<orderStatus, sessions, chargeStatus, outbox, refundRef>>

\* markWebhookEventProcessed and commit.  If the answer is lost the handler
\* throws too, and may still write process_error to the committed row.
Commit(w) ==
    /\ pc[w] = "handled"
    /\ webhookEvents' = webhookEvents \cup {Event(w)}
    /\ IF found[w] = None THEN UNCHANGED <<orderStatus, sessions, charges, refunds>>
       ELSE IF Event(w).kind = "pay" THEN CommitPayment(w) ELSE CommitRefund(w)
    /\ \/ EndTransaction(w, "acked") /\ UNCHANGED <<eventError, faults>>
       \/ /\ EndTransaction(w, "failed")
          /\ Fault
          /\ eventError' \in {eventError, eventError \cup {Event(w)}}
    /\ UNCHANGED <<provider, move>>

\* Mutant: the controller answers 200 all the same.
RollbackAcknowledged(w) ==
    /\ pc[w] \in InTransaction
    /\ Fault
    /\ EndTransaction(w, "acked")
    /\ UNCHANGED <<orderStatus, rows, provider, move>>

\* A statement throws, or the server dies.  markWebhookEventProcessed then
\* updates the row by the id the rollback has taken away: no row.
Rollback(w) ==
    /\ pc[w] \in InTransaction
    /\ Fault
    /\ EndTransaction(w, "failed")
    /\ UNCHANGED <<orderStatus, rows, provider, move>>

-----------------------------------------------------------------------------
(* The provider, and status changes by the customer and the restaurant. *)

\* A customer pays, or fails to, on a session's page: once with success.
Pay(e) ==
    /\ e.kind = "pay" /\ e \notin sent
    /\ IF e.order = None THEN UNCHANGED closed
       ELSE \E i \in InitRequests \ closed :
              /\ InitOrder[i] = e.order /\ sessionStatus[i] # "none"
              /\ closed' = IF e.status = "SUCCESS" THEN closed \cup {i} ELSE closed
    /\ sent' = sent \cup {e}
    /\ UNCHANGED <<orderStatus, rows, paidBack, pc, locals, move, faults>>

\* The outcome of an accepted refund.
ConfirmRefund(e) ==
    /\ e.kind = "refund" /\ e \notin sent
    /\ \E f \in paidBack : /\ RefundTx[f] = e.tx
                           /\ e.order = OrderOf[ChargeOf[f]]
    /\ sent' = sent \cup {e}
    /\ UNCHANGED <<orderStatus, rows, closed, paidBack, pc, locals, move, faults>>

\* A webhook not answered 200 is delivered again.
Redeliver(w) ==
    /\ pc[w] = "failed"
    /\ Step(w, "start")
    /\ UNCHANGED locals

Idle == [order |-> None, target |-> None]

\* OrderService.updateStatus reads the order ...
ReadOrder(u, o, target) ==
    /\ move[u] = Idle
    /\ \E actor \in {"customer"} \cup Staff :
          TransitionAllowed(orderStatus[o], target, actor)
    /\ move' = [move EXCEPT ![u] = [order |-> o, target |-> target]]
    /\ UNCHANGED <<orderStatus, rows, provider, pc, locals, faults>>

\* ... and updates it in a transaction of its own.
WriteOrder(u) ==
    /\ move[u] # Idle
    /\ Free(OrderRow(move[u].order))
    /\ orderStatus' = [orderStatus EXCEPT ![move[u].order] = move[u].target]
    /\ move' = [move EXCEPT ![u] = Idle]
    /\ UNCHANGED <<rows, provider, pc, locals, faults>>

-----------------------------------------------------------------------------
(* The specification. *)

\* Orders paid in cash have their cod_collection row since they were placed.
Init ==
    /\ orderStatus = [o \in Orders |-> IF o \in CodOrders THEN "delivered"
                                                         ELSE "pending_payment"]
    /\ sessionStatus = [i \in InitRequests |-> "none"]
    /\ createdAt = [i \in InitRequests |-> 0]
    /\ chargeStatus = [c \in Charges |-> IF c \in CodCharges THEN "succeeded"
                                                           ELSE "none"]
    /\ refundedBy = [c \in Charges |-> None]
    /\ refundStatus = [f \in RefundRequests |-> "none"]
    /\ refundRef = [f \in RefundRequests |-> None]
    /\ webhookEvents = {} /\ eventError = {}
    /\ outbox = [c \in Charges |-> 0]
    /\ sent = {} /\ closed = {} /\ paidBack = {}
    /\ pc = [r \in Requests |-> "start"]
    /\ found = [w \in Webhooks |-> None]
    /\ toMark = [w \in Webhooks |-> None]
    /\ held = [w \in Webhooks |-> {}]
    /\ move = [u \in Movers |-> Idle]
    /\ faults = 0

InitStep(i) == ReadPending(i) \/ FindSession(i) \/ CreateSession(i)

RefundStep(f) ==
    \/ ReadCharge(f) \/ InsertRefund(f) \/ CallProvider(f) \/ SetReference(f)
    \/ CatchRefund(f) \/ SettleCash(f) \/ MarkCash(f)

WebhookStep(w) ==
    \/ Receive(w) \/ RecordEvent(w) \/ DuplicateEvent(w)
    \/ FindPaidSession(w) \/ UpdateSession(w) \/ InsertCharge(w)
    \/ ChargeViolatesUnique(w) \/ UpdateOrder(w)
    \/ FindRefund(w) \/ UpdateRefund(w) \/ MarkCharge(w)
    \/ Commit(w) \/ Redeliver(w)

Next ==
    \/ \E i \in InitRequests : InitStep(i) \/ InitFails(i)
    \/ \E f \in RefundRequests : RefundStep(f) \/ RefundDies(f)
    \/ \E w \in Webhooks : WebhookStep(w) \/ Rollback(w)
    \/ \E e \in Events : Pay(e) \/ ConfirmRefund(e)
    \/ \E u \in Movers : \/ \E o \in Orders, target \in OrderStatuses :
                                ReadOrder(u, o, target)
                          \/ WriteOrder(u)

Spec == Init /\ [][Next]_vars

\* Node runs every handler to its end and the provider delivers again what was
\* not answered 200; nothing says that a customer pays or a refund is decided.
\* Strong fairness of a webhook: Postgres grants a row to its waiters in turn.
FairSpec ==
    /\ Spec
    /\ \A f \in RefundRequests : WF_vars(RefundStep(f))
    /\ \A w \in Webhooks : SF_vars(WebhookStep(w))
    /\ \A u \in Movers : WF_vars(WriteOrder(u))

-----------------------------------------------------------------------------
(* Properties. *)

SessionStatuses == {"none", "initialized", "captured", "failed"}
RowStatuses == {"none", "pending", "succeeded", "failed"}
Labels == InTransaction \cup
    {"start", "read", "create", "online", "accepted", "catch", "cod", "markCash",
     "refused", "answered", "failed", "acked"}
Moves == {Idle} \cup [order : Orders, target : OrderStatuses]

\* Every variable has its type.
TypeOK ==
    /\ orderStatus \in [Orders -> OrderStatuses]
    /\ sessionStatus \in [InitRequests -> SessionStatuses]
    /\ createdAt \in [InitRequests -> Nat]
    /\ chargeStatus \in [Charges -> RowStatuses]
    /\ refundedBy \in [Charges -> RefundRequests \cup {None}]
    /\ refundStatus \in [RefundRequests -> RowStatuses]
    /\ refundRef \in [RefundRequests -> {RefundTx[f] : f \in RefundRequests} \cup {None}]
    /\ webhookEvents \subseteq Events /\ eventError \subseteq webhookEvents
    /\ outbox \in [Charges -> Nat]
    /\ sent \subseteq Events /\ closed \subseteq InitRequests
    /\ paidBack \subseteq RefundRequests
    /\ pc \in [Requests -> Labels]
    /\ found \in [Webhooks -> InitRequests \cup RefundRequests \cup {None}]
    /\ toMark \in [Webhooks -> Charges \cup {None}]
    /\ held \in [Webhooks -> SUBSET Rows]
    /\ move \in [Movers -> Moves]
    /\ faults \in 0..MaxFaults

Paid(o) == \E c \in Charges : OrderOf[c] = o /\ chargeStatus[c] = "succeeded"

\* The kitchen never works for nothing: an order is past 'pending_payment', and
\* not cancelled, only if a charge of it was captured, whatever webhooks,
\* cancellations and retries overlap.
PlacedOrdersArePaid ==
    \A o \in Orders : orderStatus[o] \notin {"pending_payment", "cancelled"} => Paid(o)

\* A charge announces payment.captured and order.placed exactly once, and only
\* a captured one does, however often its webhook is delivered or retried.
AnnouncedOnce ==
    \A c \in OnlineCharges : outbox[c] = IF chargeStatus[c] = "succeeded" THEN 1 ELSE 0

\* A session is captured or failed because a charge of its order is.
SessionsBackedByCharges ==
    \A i \in InitRequests :
        /\ sessionStatus[i] = "captured" => Paid(InitOrder[i])
        /\ sessionStatus[i] = "failed" =>
              \E c \in Charges : OrderOf[c] = InitOrder[i] /\ chargeStatus[c] = "failed"

PaidBack(f) == f \in paidBack \/ ChargeOf[f] \in CodCharges

\* Neither a refund nor its charge says that money went back unless the
\* provider accepted that refund (or it was cash), even when references are
\* shared, webhooks overtake requests and requests die half way.
RefundsBackedByProvider ==
    /\ \A f \in RefundRequests : refundStatus[f] = "succeeded" => PaidBack(f)
    /\ \A c \in Charges : refundedBy[c] # None =>
          /\ PaidBack(refundedBy[c])
          /\ OrderOf[ChargeOf[refundedBy[c]]] = OrderOf[c]
          /\ chargeStatus[c] = "succeeded"

\* What a webhook's transaction relies on: the key of the charge it has inserted
\* is its own, and what it found is of its order or its refund.
CarriesPayment(w) ==
    /\ Event(w).kind = "pay" /\ found[w] # None
    /\ pc[w] \in {"order", "handled"}

WebhookOK(w) ==
    /\ pc[w] \notin InTransaction \ {"begun"} => held[w] = {}
    /\ pc[w] \notin InTransaction \ {"begun", "recorded"} => found[w] = None
    /\ pc[w] # "handled" => toMark[w] = None
    /\ pc[w] \in InTransaction => Event(w).order # None
    /\ pc[w] \in {"session", "charge", "order"} =>
          Event(w).kind = "pay" /\ found[w] # None
    /\ pc[w] \in {"refund", "mark"} => Event(w).kind = "refund" /\ found[w] # None
    /\ found[w] # None /\ Event(w).kind = "pay" =>
          found[w] \in InitRequests /\ InitOrder[found[w]] = Event(w).order
    /\ found[w] # None /\ Event(w).kind = "refund" =>
          found[w] \in paidBack
    /\ pc[w] = "order" => Succeeded(w)
    /\ CarriesPayment(w) => /\ ChargeKey(Event(w).tx) \in held[w]
                            /\ chargeStatus[Event(w).tx] = "none"
    /\ toMark[w] # None =>
          /\ found[w] # None /\ Event(w).kind = "refund"
          /\ OrderOf[toMark[w]] = OrderOf[ChargeOf[found[w]]]
          /\ chargeStatus[toMark[w]] = "succeeded"

RefundOK(f) ==
    /\ pc[f] = "accepted" \/ refundRef[f] # None => f \in paidBack
    /\ pc[f] \in {"cod", "markCash"} => ChargeOf[f] \in CodCharges
    /\ pc[f] \in {"read", "cod", "markCash"} => chargeStatus[ChargeOf[f]] = "succeeded"

MoveOK(u) == move[u] # Idle /\ move[u].target # "cancelled" => Paid(move[u].order)

LocksExclusive == \A v, w \in Webhooks : v # w => held[v] \cap held[w] = {}

\* The inductive invariant.
IInv ==
    /\ TypeOK
    /\ PlacedOrdersArePaid
    /\ AnnouncedOnce
    /\ SessionsBackedByCharges
    /\ RefundsBackedByProvider
    /\ LocksExclusive
    /\ \A w \in Webhooks : WebhookOK(w)
    /\ \A f \in RefundRequests : RefundOK(f)
    /\ \A u \in Movers : MoveOK(u)

\* A charge row is never rewritten: what a webhook has recorded of a
\* transaction no later webhook about it changes.
ChargesAreFinal ==
    [][\A c \in Charges : chargeStatus[c] # "none" =>
          chargeStatus'[c] = chargeStatus[c]]_vars

\* The provider's retries get every event recorded, or its transaction's other
\* outcome has been: whatever failed is answered so that it is delivered again.
EventsAreRecorded ==
    \A e \in Events : (e \in sent /\ e.order # None) ~>
        (e \in webhookEvents \/ (e.kind = "pay" /\ chargeStatus[e.tx] # "none"))

\* The confirmation of a refund settles one that has its reference, if no
\* delivery of it began before the reference was stored, whatever fails then.
ConfirmedRefundsSettle ==
    \A e \in {ev \in Events : ev.kind = "refund" /\ ev.status = "SUCCESS"} :
        LET matches == {f \in RefundRequests : refundRef[f] = e.tx}
        IN  (/\ e \in sent \ webhookEvents
             /\ matches # {}
             /\ \A w \in Webhooks : Event(w) = e => pc[w] \notin InTransaction)
            ~> \E f \in matches : refundStatus[f] = "succeeded"

-----------------------------------------------------------------------------
(* What comments and messages of the code say, and it does not do. *)

\* After a failed attempt the order is "eligible for retry": a payment that
\* succeeds then, and whose webhook was acknowledged, has its charge row.
RetriedPaymentIsRecorded ==
    \A w \in Webhooks :
        pc[w] = "acked" /\ Event(w).kind = "pay" /\ Succeeded(w) =>
            chargeStatus[Event(w).tx] = "succeeded"
=============================================================================
