------------------------------ MODULE Dispatch ------------------------------
(***************************************************************************)
(* From a prepared order to a delivered one: OrderService.updateStatus,    *)
(* DeliveryService (assign, tryAutoAssign, reassign, updateStatus with     *)
(* settleDelivery and tryReassignAfterRejection), AssignmentService and    *)
(* PresenceService, over the orders, deliveries and agent_presence tables  *)
(* and the Redis geo and busy sets.                                        *)
(*                                                                         *)
(* Requests are the handlers in flight.  req[r] is the rest of r's handler *)
(* (`at`) with the local variables it needs; a step runs the handler to    *)
(* its next await of something another request can see.  A handler checks  *)
(* what it has read and writes without looking again (every UPDATE is      *)
(* WHERE id = ...), so other requests run between the two.                 *)
(***************************************************************************)
EXTENDS Naturals, Sequences, FiniteSets, OrderStatus

CONSTANTS
    Requests,       \* handlers that may be in flight at once
    Orders,
    Agents,
    MaxAttempts,    \* env.assignment.maxReassignmentAttempts
    MaxDeliveries,  \* bound: deliveries rows ever created
    Failures        \* whether a handler may die and Redis may fail

ASSUME BoundsAssumption == /\ MaxAttempts \in Nat \ {0}
                           /\ MaxDeliveries \in Nat
                           /\ Failures \in BOOLEAN

VARIABLES
    orderStatus,  \* orders.status
    deliveries,   \* deliveries, in order of id
    acceptedAt,   \* the deliveries whose accepted_at is set
    pickedAt,     \* the deliveries whose picked_at is set
    settled,      \* the deliveries with a commission transaction
    online,       \* agents whose agent_presence row is online
    geo,          \* Redis presence:geo
    busy,         \* Redis presence:busy
    req           \* what is left of each handler in flight

presence == <<online, geo, busy>>
history == <<acceptedAt, pickedAt, settled>>
tables == <<orderStatus, deliveries, history>>
vars == <<tables, presence, req>>

-----------------------------------------------------------------------------
(* Tables. *)

Ids == 1..MaxDeliveries
Null == 0  \* no delivery

\* Mutant: a delivered delivery counts as active.
ACTIVE_STATUSES_DELIVERED == {"assigned", "accepted", "picked", "delivered"}

ACTIVE_STATUSES == {"assigned", "accepted", "picked"}
DeliveryStatuses == ACTIVE_STATUSES \cup
                    {"rejected", "delivered", "cancelled", "reassigned"}

\* Mutant: an agent may pick up what it has not accepted.
DELIVERY_TRANSITIONS_SKIP ==
    {<<"assigned", "accepted">>, <<"assigned", "rejected">>,
     <<"assigned", "picked">>, <<"accepted", "picked">>, <<"picked", "delivered">>}

DELIVERY_TRANSITIONS ==
    {<<"assigned", "accepted">>, <<"assigned", "rejected">>,
     <<"accepted", "picked">>, <<"picked", "delivered">>}

Active(d) == deliveries[d].status \in ACTIVE_STATUSES
ActiveOf(o) == {d \in DOMAIN deliveries : deliveries[d].order = o /\ Active(d)}
ActiveOfAgent(a) == {d \in DOMAIN deliveries : deliveries[d].agent = a /\ Active(d)}

\* countReassignmentChain: d and the deliveries it replaced, one after another.
Chain(d) ==
    LET length[i \in DOMAIN deliveries] ==
            IF deliveries[i].from = Null THEN 1
                                         ELSE 1 + length[deliveries[i].from]
    IN  length[d]

\* Mutant: one reassignment too many.
MayReassignOnce(d) == Chain(d) <= MaxAttempts

MayReassign(d) == Chain(d) < MaxAttempts

\* Mutant: picked_at is never set.
UpdateDeliveryNoPickedAt(d, status) ==
    /\ deliveries' = [deliveries EXCEPT ![d].status = status]
    /\ acceptedAt' = IF status = "accepted" THEN acceptedAt \cup {d} ELSE acceptedAt
    /\ pickedAt' = pickedAt

\* updateDeliveryStatus: the status, and the column of the moment it began.
UpdateDelivery(d, status) ==
    /\ deliveries' = [deliveries EXCEPT ![d].status = status]
    /\ acceptedAt' = IF status = "accepted" THEN acceptedAt \cup {d} ELSE acceptedAt
    /\ pickedAt' = IF status = "picked" THEN pickedAt \cup {d} ELSE pickedAt

-----------------------------------------------------------------------------
(* Handlers. *)

Idle == [at |-> "idle"]
Continue(r, rest) == req' = [req EXCEPT ![r] = rest]
End(r) == Continue(r, Idle)

TryAssign(o, from) == [at |-> "tryAssign", order |-> o, from |-> from]
Create(o, a, from) == [at |-> "create", order |-> o, agent |-> a, from |-> from]

\* markAgentFree, then `next`: end, or tryAssign in place of delivery `from`.
Free(a, next, o, from) ==
    [at |-> "free", agent |-> a, next |-> next, order |-> o, from |-> from]

-----------------------------------------------------------------------------
(* OrderService.updateStatus, by the restaurant or an admin. *)

ReadOrder(r, o, target) ==
    /\ req[r] = Idle
    /\ \E actor \in Staff : TransitionAllowed(orderStatus[o], target, actor)
    /\ Continue(r, [at |-> "writeOrder", order |-> o, target |-> target,
                    seen |-> orderStatus[o]])
    /\ UNCHANGED <<tables, presence>>

\* Mutant: a cancelled order's delivery is left alone.
WriteOrderOnly(r) ==
    /\ req[r].at = "writeOrder"
    /\ orderStatus' = [orderStatus EXCEPT ![req[r].order] = req[r].target]
    /\ IF req[r].target = "ready"
       THEN Continue(r, [at |-> "autoAssign", order |-> req[r].order])
       ELSE End(r)
    /\ UNCHANGED <<deliveries, history, presence>>

\* A cancelled order's delivery goes next, if the order was read 'assigned';
\* the controller starts auto-assignment of a ready order.
WriteOrder(r) ==
    /\ req[r].at = "writeOrder"
    /\ LET o == req[r].order
           target == req[r].target
       IN  /\ orderStatus' = [orderStatus EXCEPT ![o] = target]
           /\ Continue(r,
                CASE target = "cancelled" /\ req[r].seen = "assigned" ->
                        [at |-> "cancelDeliveries", order |-> o]
                  [] target = "ready" -> [at |-> "autoAssign", order |-> o]
                  [] OTHER -> Idle)
    /\ UNCHANGED <<deliveries, history, presence>>

\* Mutant: the agent of a cancelled delivery is not freed.
CancelDeliveriesOnly(r) ==
    /\ req[r].at = "cancelDeliveries"
    /\ LET o == req[r].order
       IN  deliveries' = [d \in DOMAIN deliveries |->
                            IF d \in ActiveOf(o)
                            THEN [deliveries[d] EXCEPT !.status = "cancelled"]
                            ELSE deliveries[d]]
    /\ End(r)
    /\ UNCHANGED <<orderStatus, history, presence>>

\* cancelActiveDeliveryForOrder cancels every active row and returns one agent.
CancelDeliveries(r) ==
    /\ req[r].at = "cancelDeliveries"
    /\ LET o == req[r].order
       IN  /\ deliveries' = [d \in DOMAIN deliveries |->
                               IF d \in ActiveOf(o)
                               THEN [deliveries[d] EXCEPT !.status = "cancelled"]
                               ELSE deliveries[d]]
           /\ IF ActiveOf(o) = {} THEN End(r)
              ELSE \E d \in ActiveOf(o) :
                     Continue(r, Free(deliveries[d].agent, "end", o, Null))
    /\ UNCHANGED <<orderStatus, history, presence>>

-----------------------------------------------------------------------------
(* DeliveryService.assign and tryAutoAssign, AssignmentService. *)

Assignable(o) == orderStatus[o] = "ready" /\ ActiveOf(o) = {}

TryAutoAssign(r) ==
    /\ req[r].at = "autoAssign"
    /\ IF Assignable(req[r].order)
       THEN Continue(r, TryAssign(req[r].order, Null))
       ELSE End(r)
    /\ UNCHANGED <<tables, presence>>

\* An admin assigns an agent of their choice, or the nearest one.
Assign(r, o) ==
    /\ req[r] = Idle
    /\ Assignable(o)
    /\ \/ Continue(r, TryAssign(o, Null))
       \/ \E a \in Agents : /\ ActiveOfAgent(a) = {}  \* agentHasActiveDelivery
                            /\ Continue(r, Create(o, a, Null))
    /\ UNCHANGED <<tables, presence>>

Nearby == geo \ busy                                     \* findNearbyOnlineAgents
CandidateAgents == {a \in online : ActiveOfAgent(a) = {}} \* findCandidateAgents

\* tryAssign takes the nearest agent Redis offers, and asks Postgres if Redis
\* offers none or cannot be reached.  Where agents are, and whose row is older
\* than 90 seconds, is left open: any of them, or none, may be found.
PickAgent(r) ==
    /\ req[r].at = "tryAssign"
    /\ \/ End(r)
       \/ \E a \in Nearby \cup CandidateAgents :
            Continue(r, Create(req[r].order, a, req[r].from))
    /\ UNCHANGED <<tables, presence>>

\* createAssignment's transaction: the delivery and setDeliveryAgent.
CreateAssignment(r) ==
    /\ req[r].at = "create"
    /\ Len(deliveries) < MaxDeliveries
    /\ deliveries' = Append(deliveries,
          [order |-> req[r].order, agent |-> req[r].agent, status |-> "assigned",
           from |-> req[r].from])
    /\ orderStatus' = [orderStatus EXCEPT ![req[r].order] = "assigned"]
    /\ Continue(r, [at |-> "busy", agent |-> req[r].agent])
    /\ UNCHANGED <<history, presence>>

\* markAgentBusy and markAgentFree; a Redis error is swallowed.
MarkBusy(r) ==
    /\ req[r].at = "busy"
    /\ \/ busy' = busy \cup {req[r].agent}
       \/ Failures /\ busy' = busy
    /\ End(r)
    /\ UNCHANGED <<tables, online, geo>>

MarkFree(r) ==
    /\ req[r].at = "free"
    /\ \/ busy' = busy \ {req[r].agent}
       \/ Failures /\ busy' = busy
    /\ IF req[r].next = "tryAssign"
       THEN Continue(r, TryAssign(req[r].order, req[r].from))
       ELSE End(r)
    /\ UNCHANGED <<tables, online, geo>>

-----------------------------------------------------------------------------
(* DeliveryService.reassign, by an admin or when an agent goes offline. *)

Reassign(r, o) ==
    /\ req[r] \in {Idle, [at |-> "reassign", order |-> o]}
    /\ \E d \in ActiveOf(o) :
         /\ MayReassign(d)
         /\ Continue(r, [at |-> "writeReassigned", delivery |-> d])
    /\ UNCHANGED <<tables, presence>>

\* NoActiveDeliveryError and MaxReassignmentAttemptsReachedError.
ReassignRefused(r) ==
    /\ req[r].at = "reassign"
    /\ \/ ActiveOf(req[r].order) = {}
       \/ \E d \in ActiveOf(req[r].order) : ~ MayReassign(d)
    /\ End(r)
    /\ UNCHANGED <<tables, presence>>

\* Mutant: the delivery keeps its status.
WriteReassignedKept(r) ==
    /\ req[r].at = "writeReassigned"
    /\ LET d == req[r].delivery
       IN  Continue(r, Free(deliveries[d].agent, "tryAssign", deliveries[d].order, d))
    /\ UNCHANGED <<tables, presence>>

WriteReassigned(r) ==
    /\ req[r].at = "writeReassigned"
    /\ LET d == req[r].delivery
       IN  /\ UpdateDelivery(d, "reassigned")
           /\ Continue(r, Free(deliveries[d].agent, "tryAssign",
                               deliveries[d].order, d))
    /\ UNCHANGED <<orderStatus, settled, presence>>

-----------------------------------------------------------------------------
(* DeliveryService.updateStatus, by the delivery's agent. *)

ReadDelivery(r, d, target) ==
    /\ req[r] = Idle
    /\ <<deliveries[d].status, target>> \in DELIVERY_TRANSITIONS
    /\ Continue(r, [at |-> IF target = "delivered" THEN "settle"
                                                   ELSE "writeDelivery",
                    delivery |-> d, target |-> target])
    /\ UNCHANGED <<tables, presence>>

\* The write, then for a pick-up the order's status, and for a rejection
\* markAgentFree and tryReassignAfterRejection.
WriteDelivery(r) ==
    /\ req[r].at = "writeDelivery"
    /\ LET d == req[r].delivery
           o == deliveries[d].order
           a == deliveries[d].agent
       IN  /\ UpdateDelivery(d, req[r].target)
           /\ Continue(r,
                CASE req[r].target = "picked" ->
                        [at |-> "pickOrder", order |-> o]
                  [] req[r].target = "rejected" ->
                        Free(a, IF MayReassign(d) THEN "tryAssign" ELSE "end", o, d)
                  [] OTHER -> Idle)
    /\ UNCHANGED <<orderStatus, settled, presence>>

\* applySystemStatusChange(PICKED)
PickOrder(r) ==
    /\ req[r].at = "pickOrder"
    /\ orderStatus' = [orderStatus EXCEPT ![req[r].order] = "picked"]
    /\ End(r)
    /\ UNCHANGED <<deliveries, history, presence>>

\* settleDelivery's transaction (Settlement.tla), then markAgentFree.
Settle(r) ==
    /\ req[r].at = "settle"
    /\ LET d == req[r].delivery
       IN  /\ d \notin settled
           /\ settled' = settled \cup {d}
           /\ UpdateDelivery(d, "delivered")
           /\ orderStatus' = [orderStatus EXCEPT ![deliveries[d].order] = "delivered"]
           /\ Continue(r, Free(deliveries[d].agent, "end", deliveries[d].order, Null))
    /\ UNCHANGED presence

\* The commission's unique key is taken: the transaction rolls back.
SettleTwice(r) ==
    /\ req[r].at = "settle"
    /\ req[r].delivery \in settled
    /\ End(r)
    /\ UNCHANGED <<tables, presence>>

-----------------------------------------------------------------------------
(* PresenceService. *)

\* online: the row, then the geo set; going online clears the busy mark.  A
\* failing Redis may leave either half undone.
GoOnline(r, a) ==
    /\ req[r] = Idle
    /\ online' = online \cup {a}
    /\ Continue(r, [at |-> "redisOnline", agent |-> a])
    /\ UNCHANGED <<tables, geo, busy>>

RedisOnline(r) ==
    /\ req[r].at = "redisOnline"
    /\ geo' = geo \cup {req[r].agent}
    /\ \/ busy' = busy \ {req[r].agent}
       \/ Failures /\ busy' = busy
    /\ End(r)
    /\ UNCHANGED <<tables, online>>

\* offline: refused while carrying an order (AgentInActiveDeliveryError).
GoOffline(r, a) ==
    /\ req[r] = Idle
    /\ \/ ActiveOfAgent(a) = {} /\ Continue(r, [at |-> "offline", agent |-> a,
                                                 delivery |-> Null])
       \/ \E d \in ActiveOfAgent(a) :
            /\ deliveries[d].status # "picked"
            /\ Continue(r, [at |-> "offline", agent |-> a, delivery |-> d])
    /\ UNCHANGED <<tables, presence>>

WriteOffline(r) ==
    /\ req[r].at = "offline"
    /\ online' = online \ {req[r].agent}
    /\ Continue(r, [req[r] EXCEPT !.at = "redisOffline"])
    /\ UNCHANGED <<tables, geo, busy>>

\* Then reassign the order of the delivery that was active, if one was.
RedisOffline(r) ==
    /\ req[r].at = "redisOffline"
    /\ geo' = geo \ {req[r].agent}
    /\ \/ /\ busy' = busy \ {req[r].agent}
          /\ IF req[r].delivery = Null THEN End(r)
             ELSE Continue(r, [at |-> "reassign",
                               order |-> deliveries[req[r].delivery].order])
       \/ Failures /\ busy' = busy /\ End(r)
    /\ UNCHANGED <<tables, online>>

\* ping: only timestamps change in the row; the geo set gets the agent back.
Ping(r, a) ==
    /\ req[r] = Idle
    /\ a \in online
    /\ Continue(r, [at |-> "redisPing", agent |-> a])
    /\ UNCHANGED <<tables, presence>>

RedisPing(r) ==
    /\ req[r].at = "redisPing"
    /\ geo' = geo \cup {req[r].agent}
    /\ End(r)
    /\ UNCHANGED <<tables, online, busy>>

-----------------------------------------------------------------------------
(* The specification. *)

\* The server dies, or a call throws, before the handler's next step.
Crash(r) ==
    /\ Failures
    /\ req[r] # Idle
    /\ End(r)
    /\ UNCHANGED <<tables, presence>>

Init ==
    /\ orderStatus \in [Orders -> {"preparing", "ready"}]
    /\ deliveries = <<>>
    /\ acceptedAt = {} /\ pickedAt = {} /\ settled = {}
    /\ online \in SUBSET Agents
    /\ geo = online
    /\ busy = {}
    /\ req = [r \in Requests |-> Idle]

\* A request arrives.
Start(r) ==
    \/ \E o \in Orders : \/ \E target \in OrderStatuses : ReadOrder(r, o, target)
                         \/ Assign(r, o)
                         \/ req[r] = Idle /\ Reassign(r, o)
    \/ \E d \in DOMAIN deliveries, target \in DeliveryStatuses :
          ReadDelivery(r, d, target)
    \/ \E a \in Agents : GoOnline(r, a) \/ GoOffline(r, a) \/ Ping(r, a)

\* A handler in flight goes on.
Run(r) ==
    \/ WriteOrder(r) \/ CancelDeliveries(r)
    \/ TryAutoAssign(r) \/ PickAgent(r) \/ CreateAssignment(r)
    \/ MarkBusy(r) \/ MarkFree(r)
    \/ \E o \in Orders : req[r] # Idle /\ Reassign(r, o)
    \/ ReassignRefused(r) \/ WriteReassigned(r)
    \/ WriteDelivery(r) \/ PickOrder(r) \/ Settle(r) \/ SettleTwice(r)
    \/ RedisOnline(r) \/ WriteOffline(r) \/ RedisOffline(r) \/ RedisPing(r)

Next == \E r \in Requests : Start(r) \/ Run(r) \/ Crash(r)

Spec == Init /\ [][Next]_vars

\* Node runs every handler on to its end; nothing says a request arrives.
FairSpec == Spec /\ \A r \in Requests : WF_vars(Run(r))

-----------------------------------------------------------------------------
(* Properties. *)

FromIds == {Null} \cup Ids

Rows == [order : Orders, agent : Agents, status : DeliveryStatuses,
         from : FromIds]
Rests ==
    {Idle}
    \cup [at : {"writeOrder"}, order : Orders, target : OrderStatuses,
          seen : OrderStatuses]
    \cup [at : {"cancelDeliveries", "autoAssign", "reassign", "pickOrder"},
          order : Orders]
    \cup [at : {"tryAssign"}, order : Orders, from : FromIds]
    \cup [at : {"create"}, order : Orders, agent : Agents, from : FromIds]
    \cup [at : {"busy", "redisOnline", "redisPing"}, agent : Agents]
    \cup [at : {"free"}, agent : Agents, next : {"end", "tryAssign"},
          order : Orders, from : FromIds]
    \cup [at : {"writeReassigned"}, delivery : Ids]
    \cup [at : {"writeDelivery", "settle"}, delivery : Ids,
          target : DeliveryStatuses]
    \cup [at : {"offline", "redisOffline"}, agent : Agents, delivery : FromIds]

\* Every variable has its type.
TypeOK ==
    /\ orderStatus \in [Orders -> OrderStatuses]
    /\ deliveries \in Seq(Rows) /\ Len(deliveries) <= MaxDeliveries
    /\ acceptedAt \subseteq DOMAIN deliveries
    /\ pickedAt \subseteq DOMAIN deliveries
    /\ settled \subseteq DOMAIN deliveries
    /\ online \subseteq Agents /\ geo \subseteq Agents /\ busy \subseteq Agents
    /\ req \in [Requests -> Rests]

\* Each delivery replaces an earlier one of its own order, if any.
ReplacesEarlier ==
    \A d \in DOMAIN deliveries :
        deliveries[d].from # Null =>
            /\ deliveries[d].from < d
            /\ deliveries[deliveries[d].from].order = deliveries[d].order

\* However reassignments, rejections and agents going offline overlap, an
\* order is passed on at most maxReassignmentAttempts - 1 times in a row, and
\* the count of tryReassignAfterRejection walks back along one order.
ChainsBounded ==
    /\ ReplacesEarlier
    /\ \A d \in DOMAIN deliveries : Chain(d) <= MaxAttempts

\* Even when stale writes overwrite a delivery's status, no delivery is picked
\* up before it was accepted or paid for before it was picked up.
DeliveryColumnsInOrder == settled \subseteq pickedAt /\ pickedAt \subseteq acceptedAt

\* An order's status tells what a delivery of it did: assigned because one was
\* created, picked because one was picked up, delivered because one was
\* settled, whatever happened to those deliveries since.
OrderStatusIsBacked ==
    \A o \in Orders :
        LET rows == {d \in DOMAIN deliveries : deliveries[d].order = o}
        IN  /\ orderStatus[o] = "assigned" => rows # {}
            /\ orderStatus[o] = "picked" => rows \cap pickedAt # {}
            /\ orderStatus[o] = "delivered" => rows \cap settled # {}

\* A delivery's status has left its mark in the row.
RowOK(d) ==
    /\ deliveries[d].status = "accepted" => d \in acceptedAt
    /\ deliveries[d].status = "picked" => d \in pickedAt

\* What the rest of a handler relies on: what it has checked may be stale, but
\* rows never disappear, never change their order and keep their timestamps.
RestOK(x) ==
    /\ x.at = "writeOrder" => x.target \notin {"assigned", "picked", "delivered"}
    /\ x.at \in {"tryAssign", "create", "free"} /\ x.from # Null =>
          x.from \in DOMAIN deliveries /\ deliveries[x.from].order = x.order
    /\ x.at = "pickOrder" => \E d \in pickedAt : deliveries[d].order = x.order
    /\ x.at \in {"writeReassigned", "writeDelivery", "settle"} =>
          x.delivery \in DOMAIN deliveries
    /\ x.at = "writeDelivery" /\ x.target = "picked" => x.delivery \in acceptedAt
    /\ x.at = "settle" => x.delivery \in pickedAt
    /\ x.at \in {"offline", "redisOffline"} /\ x.delivery # Null =>
          x.delivery \in DOMAIN deliveries

\* The inductive invariant.
IInv ==
    /\ TypeOK
    /\ DeliveryColumnsInOrder
    /\ OrderStatusIsBacked
    /\ ReplacesEarlier
    /\ \A d \in DOMAIN deliveries : RowOK(d)
    /\ \A r \in Requests : RestOK(req[r])

\* No request is in flight.
Quiet == \A r \in Requests : req[r] = Idle

\* Between requests an order has at most one active delivery.
OneActiveDeliveryPerOrder ==
    \A o \in Orders : Cardinality(ActiveOf(o)) <= 1

\* An order on its way with nobody on it.
Unmanned(o) == orderStatus[o] \in {"assigned", "picked"} /\ ActiveOf(o) = {}
LastDelivery(o) ==
    LET ds == {d \in DOMAIN deliveries : deliveries[d].order = o}
    IN  CHOOSE d \in ds : \A e \in ds : e <= d

\* Between requests an order's active delivery and its status agree: none once
\* it is cancelled or delivered, or before it is ready.  An order on its way is
\* left with nobody only where its last agent rejected it or was taken off it
\* and no other was found.
OrderMatchesDelivery ==
    Quiet => \A o \in Orders :
        /\ \A d \in ActiveOf(o) :
              orderStatus[o] = IF deliveries[d].status = "picked" THEN "picked"
                                                                 ELSE "assigned"
        /\ Unmanned(o) =>
              deliveries[LastDelivery(o)].status \in {"rejected", "reassigned"}

\* A restaurant is credited for an order at most once.
SettledOncePerOrder ==
    \A d, e \in settled : deliveries[d].order = deliveries[e].order => d = e

\* Between requests no agent is left marked busy in Redis without a delivery.
NoPhantomBusy ==
    Quiet => \A a \in busy : ActiveOfAgent(a) # {}
=============================================================================
