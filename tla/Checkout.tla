------------------------------ MODULE Checkout ------------------------------
(***************************************************************************)
(* Placing an order: POST /orders through the idempotency middleware, then *)
(* placeOrder, which commits the order, reserves its stock at core-service *)
(* and takes the order back if it cannot; beside it PATCH requests that    *)
(* change the status of the order as soon as it is there.                  *)
(*                                                                         *)
(* A POST request is a process and names the order it creates, if any.     *)
(* Every await is a place where others run.  An order asks for one piece   *)
(* of one product.  A key belongs to one customer.                         *)
(***************************************************************************)
EXTENDS Integers, Sequences, FiniteSets, OrderStatus

CONSTANTS
    None,
    Requests,   \* POST /orders requests, retries of each other among them
    Key,        \* [Requests -> keys]: Idempotency-Key
    Body,       \* [Requests -> [id, method]]
    Header,     \* requests with an X-Region header
    Movers,     \* PATCH /orders/:publicId/status requests
    Callers,    \* who sends them: [role, orders, can]
    Pieces,     \* the product's stock at core
    Attempts,   \* 1 + retries of a call of core
    MaxFaults   \* bound: Redis, database and network errors, crashes

ASSUME RequestsAssumption ==
    /\ None \notin Requests
    /\ DOMAIN Key = Requests /\ DOMAIN Body = Requests
    /\ \A r \in Requests : Body[r].method \in {"cod", "online"}
    /\ Header \subseteq Requests

ASSUME NumbersAssumption ==
    Pieces \in Nat /\ Attempts \in Nat \ {0} /\ MaxFaults \in Nat

VARIABLES
    pc,        \* where a POST request is, or what it was answered
    tries,     \* attempts of its call of core that have failed
    answer,    \* the order a 2xx answer names
    orders,    \* the orders table: None, or [status, stamps]
    events,    \* the statuses an order's outbox events have announced
    redis,     \* Redis: whose answer is stored under a key
    saved,     \* idempotency_keys, likewise
    storing,   \* stores that are on their way: <<"redis" or "table", request>>
    stored,    \* history: stores that have landed, and are still there
    excused,   \* history: requests let through with another one unsettled
    stock,     \* core: what is left
    reserved,  \* core: orders with a reservation
    move,      \* what a PATCH request is about to write
    faults     \* faults so far

middleware == <<redis, saved, storing, stored, excused>>
core == <<stock, reserved>>
table == <<orders, events>>
vars == <<pc, tries, answer, table, middleware, core, move, faults>>

Keys == {Key[r] : r \in Requests}
Refusals == {"conflict", "unavailable", "refused", "failed", "abandoned"}
Ended == {"answered", "dead"} \cup Refusals
Running(r) == pc[r] \notin Ended \cup {"idle"}

Goto(r, p) == pc' = [pc EXCEPT ![r] = p]
Fault == faults < MaxFaults /\ faults' = faults + 1

-----------------------------------------------------------------------------
(* The idempotency middleware. *)

\* The fingerprint: a hash of the body.
SameBody(r, s) == Body[r] = Body[s]

\* Another request of the key is under way, or its answer is not there.
Settled(s, where) ==
    /\ ~ Running(s)
    /\ pc[s] = "answered" /\ answer[s] = s => <<where, s>> \in stored
Excuse(r, where) ==
    excused' = IF \E s \in Requests \ {r} : Key[s] = Key[r] /\ ~ Settled(s, where)
               THEN excused \cup {r} ELSE excused

\* Mutant: the body is not compared.
ReplayAnyBody(r, s) ==
    /\ Goto(r, "answered")
    /\ answer' = [answer EXCEPT ![r] = answer[s]]

\* A stored answer is replayed, or 409 for another body.
Replay(r, s) ==
    IF SameBody(r, s)
    THEN Goto(r, "answered") /\ answer' = [answer EXCEPT ![r] = answer[s]]
    ELSE Goto(r, "conflict") /\ answer' = answer

Hit(r) ==
    /\ pc[r] = "idle"
    /\ redis[Key[r]] # None
    /\ Replay(r, redis[Key[r]])
    /\ UNCHANGED <<tries, table, middleware, core, move, faults>>

\* Nothing is reserved under the key: the request goes on.
Miss(r) ==
    /\ pc[r] = "idle"
    /\ redis[Key[r]] = None
    /\ Excuse(r, "redis")
    /\ Goto(r, "validate")
    /\ UNCHANGED <<tries, answer, table, redis, saved, storing, stored, core,
                   move, faults>>

\* Redis fails: the table, if the region is known; else 503 (strict).
RedisDown(r) ==
    /\ pc[r] = "idle"
    /\ Fault
    /\ IF r \in Header
       THEN Goto(r, "fallback") /\ Excuse(r, "table")
       ELSE Goto(r, "unavailable") /\ excused' = excused
    /\ UNCHANGED <<tries, answer, table, redis, saved, storing, stored, core,
                   move>>

\* Mutant: no fallback.
FallbackSkipped(r) ==
    /\ pc[r] = "fallback"
    /\ Goto(r, "validate")
    /\ UNCHANGED <<tries, answer, table, middleware, core, move, faults>>

\* tryGet.  expires_at is not looked at.
Fallback(r) ==
    /\ pc[r] = "fallback"
    /\ IF saved[Key[r]] = None
       THEN Goto(r, "validate") /\ answer' = answer
       ELSE Replay(r, saved[Key[r]])
    /\ UNCHANGED <<tries, table, middleware, core, move, faults>>

FallbackFails(r) ==
    /\ pc[r] = "fallback"
    /\ Fault
    /\ Goto(r, "unavailable")
    /\ UNCHANGED <<tries, answer, table, middleware, core, move>>

\* Where the answer of a request is stored.
Stores(r) == {<<"redis", r>>} \cup (IF r \in Header THEN {<<"table", r>>} ELSE {})

\* set with the TTL overwrites; store() leaves an earlier row alone.
StoreRedis(r) ==
    /\ <<"redis", r>> \in storing
    /\ redis' = [redis EXCEPT ![Key[r]] = r]
    /\ storing' = storing \ {<<"redis", r>>}
    /\ stored' = stored \cup {<<"redis", r>>}
    /\ UNCHANGED <<pc, tries, answer, table, saved, excused, core, move, faults>>

StoreTable(r) ==
    /\ <<"table", r>> \in storing
    /\ saved' = [saved EXCEPT ![Key[r]] = IF @ = None THEN r ELSE @]
    /\ storing' = storing \ {<<"table", r>>}
    /\ stored' = stored \cup {<<"table", r>>}
    /\ UNCHANGED <<pc, tries, answer, table, redis, excused, core, move, faults>>

\* .catch(() => {}): nobody hears of a store that fails, or dies with the server.
StoreLost(r, where) ==
    /\ <<where, r>> \in storing
    /\ Fault
    /\ storing' = storing \ {<<where, r>>}
    /\ UNCHANGED <<pc, tries, answer, table, redis, saved, stored, excused, core,
                   move>>

\* The entry's 24 hours are over, or Redis loses it.
Expire(k) ==
    /\ redis[k] # None
    /\ Fault
    /\ redis' = [redis EXCEPT ![k] = None]
    /\ stored' = stored \ {<<"redis", r>> : r \in {s \in Requests : Key[s] = k}}
    /\ UNCHANGED <<pc, tries, answer, table, saved, storing, excused, core, move>>

-----------------------------------------------------------------------------
(* placeOrder. *)

\* Branch, address and product pass, the product perhaps only as it was cached
\* (stock only falls here).
Validate(r) ==
    /\ pc[r] = "validate"
    /\ \E seen \in stock..Pieces : seen >= 1
    /\ Goto(r, "create")
    /\ UNCHANGED <<tries, answer, table, middleware, core, move, faults>>

\* Out of stock, the branch does not accept orders, the address is somebody
\* else's, or core does not answer.
Refuse(r) ==
    /\ pc[r] = "validate"
    /\ Goto(r, "refused")
    /\ UNCHANGED <<tries, answer, table, middleware, core, move, faults>>

\* createOrder; order.placed is announced for cash, an online order waits for
\* its payment.
NewOrder(r) ==
    [status |-> IF Body[r].method = "online" THEN "pending_payment" ELSE "placed",
     stamps |-> {}]

Insert(r) ==
    /\ orders' = [orders EXCEPT ![r] = NewOrder(r)]
    /\ events' = [events EXCEPT ![r] =
                     IF Body[r].method = "cod" THEN <<"placed">> ELSE <<>>]

\* The transaction: order, items, collection row and event.
Create(r) ==
    /\ pc[r] = "create"
    /\ Insert(r)
    /\ Goto(r, "reserve")
    /\ UNCHANGED <<tries, answer, middleware, core, move, faults>>

\* It fails: rolled back, or committed with the answer lost.
CreateFails(r) ==
    /\ pc[r] = "create"
    /\ Fault
    /\ \/ Insert(r) /\ Goto(r, "abandoned")
       \/ UNCHANGED table /\ Goto(r, "failed")
    /\ UNCHANGED <<tries, answer, middleware, core, move>>

\* Core, external: a reservation per Idempotency-Key (the order's public id).
CanReserve(r) == r \in reserved \/ stock >= 1
CoreReserves(r) ==
    /\ reserved' = reserved \cup {r}
    /\ stock' = IF r \in reserved THEN stock ELSE stock - 1

\* reserveStock.
ReserveStock(r) ==
    /\ pc[r] = "reserve"
    /\ CanReserve(r) /\ CoreReserves(r)
    /\ Goto(r, "answer")
    /\ tries' = [tries EXCEPT ![r] = 0]
    /\ UNCHANGED <<answer, table, middleware, move, faults>>

\* Mutant: a refusal is retried, too.
ReserveRefusedRetried(r) ==
    /\ pc[r] = "reserve"
    /\ ~ CanReserve(r)
    /\ UNCHANGED vars

\* A 4xx is an answer: not retried, thrown.
ReserveRefused(r) ==
    /\ pc[r] = "reserve"
    /\ ~ CanReserve(r)
    /\ Goto(r, "compensate")
    /\ tries' = [tries EXCEPT ![r] = 0]
    /\ UNCHANGED <<answer, table, middleware, core, move, faults>>

\* A 5xx or a network error, before or after core has done its part.
LostCall(r) ==
    /\ pc[r] = "reserve"
    /\ Fault
    /\ \/ CanReserve(r) /\ CoreReserves(r)
       \/ UNCHANGED core

\* retryWithBackoff.
ReserveRetry(r) ==
    /\ LostCall(r)
    /\ tries[r] + 1 < Attempts
    /\ tries' = [tries EXCEPT ![r] = @ + 1]
    /\ UNCHANGED <<pc, answer, table, middleware, move>>

\* Mutant: the last error is swallowed.
ReserveUnavailableIgnored(r) ==
    /\ LostCall(r)
    /\ tries[r] + 1 = Attempts
    /\ Goto(r, "answer")
    /\ tries' = [tries EXCEPT ![r] = 0]
    /\ UNCHANGED <<answer, table, middleware, move>>

\* The last attempt: 503.
ReserveUnavailable(r) ==
    /\ LostCall(r)
    /\ tries[r] + 1 = Attempts
    /\ Goto(r, "compensate")
    /\ tries' = [tries EXCEPT ![r] = 0]
    /\ UNCHANGED <<answer, table, middleware, move>>

-----------------------------------------------------------------------------
(* The orders table, and PATCH requests. *)

\* STATUS_TIMESTAMP_COLUMN.
Columns == {"accepted", "rejected", "ready", "assigned", "picked", "delivered",
            "cancelled"}

\* updateOrderStatus: whatever the status was.
UpdateOrderStatus(o, status) ==
    orders' = [orders EXCEPT ![o] =
                 [status |-> status, stamps |-> @.stamps \cup ({status} \cap Columns)]]

\* The order is cancelled, without an event, and the error passed on.
Compensate(r) ==
    /\ pc[r] = "compensate"
    /\ UpdateOrderStatus(r, "cancelled")
    /\ Goto(r, "failed")
    /\ UNCHANGED <<tries, answer, events, middleware, core, move, faults>>

CompensateFails(r) ==
    /\ pc[r] = "compensate"
    /\ Fault
    /\ Goto(r, "abandoned")
    /\ UNCHANGED <<tries, answer, table, middleware, core, move>>

\* 201, and the stores set off.
Answer(r) ==
    /\ pc[r] = "answer"
    /\ Goto(r, "answered")
    /\ answer' = [answer EXCEPT ![r] = r]
    /\ storing' = storing \cup Stores(r)
    /\ UNCHANGED <<tries, table, redis, saved, stored, excused, core, move, faults>>

\* The server dies under a request.
Crash(r) ==
    /\ Running(r)
    /\ Fault
    /\ Goto(r, "dead")
    /\ tries' = [tries EXCEPT ![r] = 0]
    /\ UNCHANGED <<answer, table, middleware, core, move>>

\* STATUS_PERMISSION; a target without an entry needs none.
Permission(target) ==
    CASE target \in {"accepted", "rejected"} -> {"accept"}
      [] target \in {"preparing", "ready"} -> {"update"}
      [] target = "cancelled" -> {"cancel"}
      [] OTHER -> {}

\* resolveActor: whom the state machine takes a caller for.
ResolvesTo(c, o, target, actor) ==
    \/ c.role = "system_admin" /\ actor = "admin"
    \/ c.role = "customer" /\ o \in c.orders /\ actor = "customer"
    \/ /\ c.role = "restaurant_user" /\ o \in c.orders /\ actor = "restaurant"
       /\ Permission(target) \subseteq c.can

\* A customer cancels an unpaid order, or a new one; that this has become too
\* late only refuses it.
InWindow(o) == orders[o].status \in {"pending_payment", "placed"}

\* updateStatus reads and checks ...
ReadOrder(m, o, target, c, actor) ==
    /\ move[m].at = "idle"
    /\ orders[o] # None
    /\ ResolvesTo(c, o, target, actor)
    /\ TransitionAllowed(orders[o].status, target, actor)
    /\ target = "cancelled" /\ actor = "customer" => InWindow(o)
    /\ move' = [move EXCEPT ![m] = [at |-> "write", order |-> o, target |-> target]]
    /\ UNCHANGED <<pc, tries, answer, table, middleware, core, faults>>

\* Mutant: no event is written.
WriteOrderSilent(m) ==
    /\ move[m].at = "write"
    /\ UpdateOrderStatus(move[m].order, move[m].target)
    /\ move' = [move EXCEPT ![m] = [at |-> "done"]]
    /\ UNCHANGED <<pc, tries, answer, events, middleware, core, faults>>

\* ... and writes the status and its event, whatever happened in between.
WriteOrder(m) ==
    /\ move[m].at = "write"
    /\ UpdateOrderStatus(move[m].order, move[m].target)
    /\ events' = [events EXCEPT ![move[m].order] = Append(@, move[m].target)]
    /\ move' = [move EXCEPT ![m] = [at |-> "done"]]
    /\ UNCHANGED <<pc, tries, answer, middleware, core, faults>>

-----------------------------------------------------------------------------
(* The specification. *)

Init ==
    /\ pc = [r \in Requests |-> "idle"]
    /\ tries = [r \in Requests |-> 0]
    /\ answer = [r \in Requests |-> None]
    /\ orders = [r \in Requests |-> None]
    /\ events = [r \in Requests |-> <<>>]
    /\ redis = [k \in Keys |-> None]
    /\ saved = [k \in Keys |-> None]
    /\ storing = {} /\ stored = {} /\ excused = {}
    /\ stock = Pieces
    /\ reserved = {}
    /\ move = [m \in Movers |-> [at |-> "idle"]]
    /\ faults = 0

\* What a request in flight does next.
Run(r) ==
    \/ Fallback(r) \/ FallbackFails(r)
    \/ Validate(r) \/ Refuse(r)
    \/ Create(r) \/ CreateFails(r)
    \/ ReserveStock(r) \/ ReserveRefused(r) \/ ReserveRetry(r) \/ ReserveUnavailable(r)
    \/ Compensate(r) \/ CompensateFails(r)
    \/ Answer(r)

Next ==
    \/ \E r \in Requests :
          \/ Hit(r) \/ Miss(r) \/ RedisDown(r)
          \/ Run(r)
          \/ StoreRedis(r) \/ StoreTable(r)
          \/ \E where \in {"redis", "table"} : StoreLost(r, where)
          \/ Crash(r)
    \/ \E k \in Keys : Expire(k)
    \/ \E m \in Movers :
          \/ \E o \in Requests, target \in OrderStatuses, c \in Callers, a \in Actors :
                ReadOrder(m, o, target, c, a)
          \/ WriteOrder(m)

\* Node runs on what is in flight; nothing else has to happen.
Spec == Init /\ [][Next]_vars /\ WF_vars(\E r \in Requests : Run(r))

-----------------------------------------------------------------------------
(* Properties. *)

OrderRows == [status : OrderStatuses, stamps : SUBSET Columns]

ASSUME NoneAssumption == None \notin OrderRows

\* Every variable has its type.
TypeOK ==
    /\ pc \in [Requests -> Ended \cup {"idle", "fallback", "validate", "create",
                                       "reserve", "compensate", "answer"}]
    /\ tries \in [Requests -> 0..Attempts - 1]
    /\ answer \in [Requests -> Requests \cup {None}]
    /\ orders \in [Requests -> OrderRows \cup {None}]
    /\ redis \in [Keys -> Requests \cup {None}]
    /\ saved \in [Keys -> Requests \cup {None}]
    /\ storing \cup stored \subseteq {"redis", "table"} \X Requests
    /\ excused \subseteq Requests
    /\ stock \in 0..Pieces /\ reserved \subseteq Requests
    /\ faults \in 0..MaxFaults

\* Whatever was retried, replayed and lost on the way: a customer who is told
\* that an order was placed is told of an order of their key and body, whose
\* stock is theirs; one who is told of a conflict has used the key for another.
AnswersTrue ==
    /\ TypeOK
    /\ \A r \in Requests :
          /\ answer[r] # None =>
                LET o == answer[r]
                IN  /\ Key[o] = Key[r] /\ SameBody(o, r)
                    /\ orders[o] # None /\ o \in reserved
          /\ pc[r] = "conflict" =>
                \E s \in Requests : Key[s] = Key[r] /\ ~ SameBody(s, r) /\ answer[s] = s

\* Two requests of a key both place an order only if the later one came while
\* the other was still under way, or before its answer was stored: Redis down
\* or up, a retry after that is answered from the store.
RetriesPlaceOnce ==
    \A r, s \in Requests :
        r # s /\ Key[r] = Key[s] /\ answer[r] = r /\ answer[s] = s =>
            r \in excused \/ s \in excused

Live(o) == orders[o] # None /\ orders[o].status \notin {"cancelled", "rejected"}

\* Nobody prepares an order whose stock was not reserved, unless its server died
\* or lost the database before it could take the order back, or a status change
\* that had been read before that was written after it.
LiveOrdersReserved ==
    \A o \in Requests :
        Live(o) /\ o \notin reserved =>
            \/ pc[o] \in {"reserve", "compensate", "abandoned", "dead"}
            \/ "cancelled" \in orders[o].stamps

\* The last event of an order tells its status, except for an order that was
\* taken back and not moved since: that cancellation is not announced.
AnnouncedStatus ==
    \A o \in Requests :
        orders[o] # None =>
            \/ orders[o].status = "pending_payment" /\ events[o] = <<>>
            \/ events[o] # <<>> /\ events[o][Len(events[o])] = orders[o].status
            \/ orders[o].status = "cancelled" /\ pc[o] = "failed"

\* Every request ends, however often core has to be asked.
RequestsEnd == <>[](\A r \in Requests : ~ Running(r))
=============================================================================
