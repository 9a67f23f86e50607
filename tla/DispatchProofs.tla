--------------------------- MODULE DispatchProofs ---------------------------
(***************************************************************************)
(* Theorems about Dispatch for any number of requests, orders and agents,  *)
(* any bound on reassignments and on deliveries, with or without failures; *)
(* and, in the second half, about handlers that do not overlap.            *)
(***************************************************************************)
EXTENDS Dispatch, FiniteSetTheorems, SequenceTheorems, WellFoundedInduction, TLAPS

-----------------------------------------------------------------------------
(* Facts about the tables. *)

\* What staff may move an order to.
LEMMA StaffTargets ==
    ASSUME NEW from, NEW to, NEW actor \in Staff,
           TransitionAllowed(from, to, actor)
    PROVE  to \in {"accepted", "rejected", "preparing", "ready", "cancelled"}
  BY DEF TransitionAllowed, TRANSITIONS, Rule, Staff

\* What an agent may move a delivery to.
LEMMA AgentTargets ==
    ASSUME NEW from, NEW to, <<from, to>> \in DELIVERY_TRANSITIONS
    PROVE  /\ to \in {"accepted", "rejected", "picked", "delivered"}
           /\ to = "picked" => from = "accepted"
           /\ to = "delivered" => from = "picked"
  BY DEF DELIVERY_TRANSITIONS

\* The rows of deliveries are numbered and typed.
LEMMA RowFacts ==
    ASSUME TypeOK
    PROVE  /\ DOMAIN deliveries = 1..Len(deliveries)
           /\ Len(deliveries) \in 0..MaxDeliveries
           /\ \A d \in DOMAIN deliveries :
                 /\ d \in Ids
                 /\ d # Null
                 /\ deliveries[d] \in Rows
                 /\ deliveries[d].order \in Orders
                 /\ deliveries[d].agent \in Agents
                 /\ deliveries[d].status \in DeliveryStatuses
                 /\ deliveries[d].from \in FromIds
<1>1. /\ DOMAIN deliveries = 1..Len(deliveries)
      /\ Len(deliveries) \in 0..MaxDeliveries
  BY LenProperties, BoundsAssumption DEF TypeOK
<1>2. ASSUME NEW d \in DOMAIN deliveries
      PROVE  /\ d \in Ids
             /\ d # Null
             /\ deliveries[d] \in Rows
  BY <1>1, ElementOfSeq, BoundsAssumption DEF TypeOK, Ids, Null
<1>. QED
  BY <1>1, <1>2 DEF Rows

\* Rows are only ever added, keep their orders, and keep their timestamps.
Grows ==
    /\ DOMAIN deliveries \subseteq DOMAIN deliveries'
    /\ \A d \in DOMAIN deliveries : deliveries'[d].order = deliveries[d].order
    /\ acceptedAt \subseteq acceptedAt'
    /\ pickedAt \subseteq pickedAt'
    /\ settled \subseteq settled'

\* What a handler relies on survives the steps of the others.
LEMMA RestKept ==
    ASSUME TypeOK, Grows, NEW x, RestOK(x)
    PROVE  RestOK(x)'
  BY DEF TypeOK, Grows, RestOK

\* An order that keeps its status keeps what backs it.
BackedBy(o, status) ==
    /\ status = "assigned" => \E d \in DOMAIN deliveries : deliveries[d].order = o
    /\ status = "picked" => \E d \in pickedAt : deliveries[d].order = o
    /\ status = "delivered" => \E d \in settled : deliveries[d].order = o

\* The invariant says so of every order ...
LEMMA Backing ==
    ASSUME TypeOK
    PROVE  OrderStatusIsBacked <=> \A o \in Orders : BackedBy(o, orderStatus[o])
  BY DEF TypeOK, OrderStatusIsBacked, BackedBy

\* ... before and after a step.
LEMMA BackingNext ==
    ASSUME TypeOK'
    PROVE  OrderStatusIsBacked'
             <=> \A o \in Orders : BackedBy(o, orderStatus[o])'
  BY DEF TypeOK, OrderStatusIsBacked, BackedBy

\* Deliveries, pickups and settlements are never undone.
LEMMA BackingKept ==
    ASSUME TypeOK, Grows, NEW o, NEW s, BackedBy(o, s)
    PROVE  BackedBy(o, s)'
  BY DEF TypeOK, Grows, BackedBy

\* A step that writes status s of order o, and backs it, keeps all backed.
LEMMA BackedAfterWrite ==
    ASSUME TypeOK, OrderStatusIsBacked, TypeOK', Grows,
           NEW o \in Orders, NEW s, BackedBy(o, s)',
           orderStatus' = [orderStatus EXCEPT ![o] = s]
    PROVE  OrderStatusIsBacked'
<1>1. ASSUME NEW p \in Orders PROVE BackedBy(p, orderStatus[p])'
  <2>1. CASE p = o
    BY <2>1 DEF TypeOK, BackedBy
  <2>2. CASE p # o
    <3>1. orderStatus'[p] = orderStatus[p]
      BY <2>2 DEF TypeOK
    <3>2. BackedBy(p, orderStatus[p])
      BY Backing
    <3>. QED
      BY <3>1, <3>2, BackingKept DEF BackedBy
  <2>. QED
    BY <2>1, <2>2
<1>. QED
  BY <1>1, BackingNext

\* A step that writes no order.
LEMMA BackedUnwritten ==
    ASSUME TypeOK, OrderStatusIsBacked, TypeOK', Grows, UNCHANGED orderStatus
    PROVE  OrderStatusIsBacked'
<1>1. ASSUME NEW p \in Orders PROVE BackedBy(p, orderStatus[p])'
  <2>1. BackedBy(p, orderStatus[p])
    BY Backing
  <2>. QED
    BY <2>1, BackingKept DEF BackedBy
<1>. QED
  BY <1>1, BackingNext

-----------------------------------------------------------------------------
(* Handlers. *)

\* A handler's step to a typed rest leaves req typed.
LEMMA ContinueTyped ==
    ASSUME TypeOK, NEW r \in Requests, NEW x \in Rests, Continue(r, x)
    PROVE  req' \in [Requests -> Rests]
  BY DEF TypeOK, Continue

\* A handler that goes on with a sound rest leaves every rest sound.
LEMMA ContinueOK ==
    ASSUME TypeOK, Grows, \A q \in Requests : RestOK(req[q]),
           NEW r \in Requests, NEW x, RestOK(x)', Continue(r, x)
    PROVE  \A q \in Requests : RestOK(req[q])'
<1>. SUFFICES ASSUME NEW q \in Requests PROVE RestOK(req[q])'
  OBVIOUS
<1>1. CASE q = r
  <2>1. req'[q] = x
    BY <1>1 DEF TypeOK, Continue
  <2>. QED
    BY <2>1 DEF RestOK
<1>2. CASE q # r
  <2>1. req'[q] = req[q]
    BY <1>2 DEF TypeOK, Continue
  <2>2. RestOK(req[q])'
    BY <2>1 DEF RestOK, Grows, TypeOK
  <2>. QED
    BY <2>2
<1>. QED
  BY <1>1, <1>2

\* The steps that write no table: a handler reads, checks and goes on.
LEMMA ReadingStep ==
    ASSUME IInv, NEW r \in Requests, NEW x \in Rests, RestOK(x),
           Continue(r, x), UNCHANGED tables,
           online' \subseteq Agents, geo' \subseteq Agents, busy' \subseteq Agents
    PROVE  IInv'
<1>1. Grows
  BY DEF Grows, tables, history
<1>2. RestOK(x)'
  BY <1>1, RestKept DEF IInv
<1>3. TypeOK'
  BY ContinueTyped DEF IInv, TypeOK, tables, history
<1>4. \A q \in Requests : RestOK(req[q])'
  BY <1>1, <1>2, ContinueOK DEF IInv
<1>. QED
  BY <1>3, <1>4
     DEF IInv, tables, history, DeliveryColumnsInOrder, OrderStatusIsBacked,
         ReplacesEarlier, RowOK

-----------------------------------------------------------------------------
(* The steps of a request that only read, or write Redis and presence. *)

\* Reassign chooses an active delivery of the order.
LEMMA ReassignStep ==
    ASSUME IInv, NEW r \in Requests, NEW o \in Orders, Reassign(r, o)
    PROVE  IInv'
<1>1. PICK d \in ActiveOf(o) : Continue(r, [at |-> "writeReassigned", delivery |-> d])
  BY DEF Reassign
<1>. DEFINE x == [at |-> "writeReassigned", delivery |-> d]
<1>2. x \in Rests /\ RestOK(x)
  BY RowFacts DEF IInv, ActiveOf, Rests, RestOK
<1>. QED
  BY <1>1, <1>2, ReadingStep DEF Reassign, presence, IInv, TypeOK

\* An arriving request leaves the invariant true.
LEMMA StartStep ==
    ASSUME IInv, NEW r \in Requests, Start(r)
    PROVE  IInv'
<1>. USE DEF presence
<1>1. ASSUME NEW o \in Orders, NEW target \in OrderStatuses, ReadOrder(r, o, target)
      PROVE  IInv'
  <2>. DEFINE x == [at |-> "writeOrder", order |-> o, target |-> target,
                    seen |-> orderStatus[o]]
  <2>1. x \in Rests
    BY DEF IInv, TypeOK, Rests
  <2>2. RestOK(x)
    BY <1>1, StaffTargets DEF ReadOrder, RestOK
  <2>. QED
    BY <1>1, <2>1, <2>2, ReadingStep DEF ReadOrder, IInv, TypeOK
<1>2. ASSUME NEW o \in Orders, Assign(r, o) PROVE IInv'
  <2>1. TryAssign(o, Null) \in Rests /\ RestOK(TryAssign(o, Null))
    BY DEF Rests, RestOK, TryAssign, FromIds
  <2>2. \A a \in Agents : Create(o, a, Null) \in Rests /\ RestOK(Create(o, a, Null))
    BY DEF Rests, RestOK, Create, FromIds
  <2>3. PICK x \in Rests : RestOK(x) /\ Continue(r, x)
    BY <1>2, <2>1, <2>2 DEF Assign
  <2>. QED
    BY <1>2, <2>3, ReadingStep DEF Assign, IInv, TypeOK
<1>3. ASSUME NEW o \in Orders, Reassign(r, o) PROVE IInv'
  BY <1>3, ReassignStep
<1>4. ASSUME NEW d \in DOMAIN deliveries, NEW target \in DeliveryStatuses,
             ReadDelivery(r, d, target)
      PROVE  IInv'
  <2>. DEFINE x == [at |-> IF target = "delivered" THEN "settle" ELSE "writeDelivery",
                    delivery |-> d, target |-> target]
  <2>1. x \in Rests
    BY RowFacts DEF IInv, Rests
  <2>2. /\ target = "picked" => d \in acceptedAt
        /\ target = "delivered" => d \in pickedAt
    BY <1>4, AgentTargets DEF ReadDelivery, IInv, RowOK
  <2>3. RestOK(x)
    BY <2>2 DEF RestOK
  <2>. QED
    BY <1>4, <2>1, <2>3, ReadingStep DEF ReadDelivery, IInv, TypeOK
<1>5. ASSUME NEW a \in Agents, GoOnline(r, a) PROVE IInv'
  <2>. DEFINE x == [at |-> "redisOnline", agent |-> a]
  <2>1. x \in Rests /\ RestOK(x)
    BY DEF Rests, RestOK
  <2>. QED
    BY <1>5, <2>1, ReadingStep DEF GoOnline, IInv, TypeOK
<1>6. ASSUME NEW a \in Agents, GoOffline(r, a) PROVE IInv'
  <2>1. PICK d \in {Null} \cup ActiveOfAgent(a) :
            Continue(r, [at |-> "offline", agent |-> a, delivery |-> d])
    BY <1>6 DEF GoOffline
  <2>. DEFINE x == [at |-> "offline", agent |-> a, delivery |-> d]
  <2>2. x \in Rests /\ RestOK(x)
    BY RowFacts DEF IInv, ActiveOfAgent, Rests, RestOK, FromIds
  <2>. QED
    BY <1>6, <2>1, <2>2, ReadingStep DEF GoOffline, IInv, TypeOK
<1>7. ASSUME NEW a \in Agents, Ping(r, a) PROVE IInv'
  <2>. DEFINE x == [at |-> "redisPing", agent |-> a]
  <2>1. x \in Rests /\ RestOK(x)
    BY DEF Rests, RestOK
  <2>. QED
    BY <1>7, <2>1, ReadingStep DEF Ping, IInv, TypeOK
<1>. QED
  BY <1>1, <1>2, <1>3, <1>4, <1>5, <1>6, <1>7 DEF Start

\* The rests of a handler, by where it is.
LEMMA RestTyped ==
    ASSUME NEW x \in Rests
    PROVE  /\ x.at = "writeOrder" => x.order \in Orders /\ x.target \in OrderStatuses
           /\ x.at \in {"cancelDeliveries", "autoAssign", "reassign", "pickOrder",
                        "tryAssign", "create", "free"} => x.order \in Orders
           /\ x.at \in {"tryAssign", "create", "free"} => x.from \in FromIds
           /\ x.at \in {"create", "busy", "redisOnline", "redisPing", "free",
                        "offline", "redisOffline"} => x.agent \in Agents
           /\ x.at \in {"writeReassigned", "writeDelivery", "settle"}
                => x.delivery \in Ids
           /\ x.at = "writeDelivery" => x.target \in DeliveryStatuses
           /\ x.at \in {"offline", "redisOffline"} => x.delivery \in FromIds
  BY DEF Rests, Idle

\* A handler ends.
LEMMA EndStep ==
    ASSUME IInv, NEW r \in Requests, End(r), UNCHANGED tables,
           online' \subseteq Agents, geo' \subseteq Agents, busy' \subseteq Agents
    PROVE  IInv'
<1>1. Idle \in Rests /\ RestOK(Idle)
  BY DEF Idle, Rests, RestOK
<1>. QED
  BY <1>1, ReadingStep DEF End

\* A handler in flight that writes no table leaves the invariant true.
LEMMA QuietRunStep ==
    ASSUME IInv, NEW r \in Requests,
           \/ TryAutoAssign(r) \/ PickAgent(r) \/ MarkBusy(r) \/ MarkFree(r)
           \/ ReassignRefused(r) \/ SettleTwice(r)
           \/ RedisOnline(r) \/ WriteOffline(r) \/ RedisOffline(r) \/ RedisPing(r)
    PROVE  IInv'
<1>. USE DEF presence
<1>t. /\ req[r] \in Rests /\ RestOK(req[r])
      /\ online \subseteq Agents /\ geo \subseteq Agents /\ busy \subseteq Agents
  BY DEF IInv, TypeOK
<1>1. CASE TryAutoAssign(r)
  <2>1. CASE End(r)
    BY <1>1, <2>1, <1>t, EndStep DEF TryAutoAssign
  <2>2. CASE Continue(r, TryAssign(req[r].order, Null))
    <3>1. /\ TryAssign(req[r].order, Null) \in Rests
          /\ RestOK(TryAssign(req[r].order, Null))
      BY <1>1, <1>t, RestTyped DEF TryAutoAssign, TryAssign, Rests, RestOK, FromIds
    <3>. QED
      BY <1>1, <2>2, <3>1, <1>t, ReadingStep DEF TryAutoAssign
  <2>. QED
    BY <1>1, <2>1, <2>2 DEF TryAutoAssign
<1>2. CASE PickAgent(r)
  <2>1. CASE End(r)
    BY <1>2, <2>1, <1>t, EndStep DEF PickAgent
  <2>2. ASSUME NEW a \in Agents, Continue(r, Create(req[r].order, a, req[r].from))
        PROVE  IInv'
    <3>1. req[r].at = "tryAssign"
      BY <1>2 DEF PickAgent
    <3>2. Create(req[r].order, a, req[r].from) \in Rests
      BY <3>1, <1>t, RestTyped DEF Create, Rests
    <3>3. RestOK(Create(req[r].order, a, req[r].from))
      BY <3>1, <1>t DEF Create, RestOK
    <3>. QED
      BY <1>2, <2>2, <3>2, <3>3, <1>t, ReadingStep DEF PickAgent
  <2>3. Nearby \subseteq Agents /\ CandidateAgents \subseteq Agents
    BY <1>t DEF Nearby, CandidateAgents
  <2>. QED
    BY <1>2, <2>1, <2>2, <2>3 DEF PickAgent
<1>3. CASE MarkBusy(r)
  BY <1>3, <1>t, RestTyped, EndStep DEF MarkBusy
<1>4. CASE MarkFree(r)
  <2>1. busy' \subseteq Agents /\ UNCHANGED <<tables, online, geo>>
    BY <1>4, <1>t DEF MarkFree
  <2>2. CASE End(r)
    BY <2>1, <2>2, <1>t, EndStep
  <2>3. CASE Continue(r, TryAssign(req[r].order, req[r].from))
    <3>1. req[r].at = "free"
      BY <1>4 DEF MarkFree
    <3>2. TryAssign(req[r].order, req[r].from) \in Rests
      BY <3>1, <1>t, RestTyped DEF TryAssign, Rests
    <3>3. RestOK(TryAssign(req[r].order, req[r].from))
      BY <3>1, <1>t DEF TryAssign, RestOK
    <3>. QED
      BY <2>1, <2>3, <3>2, <3>3, <1>t, ReadingStep
  <2>. QED
    BY <1>4, <2>2, <2>3 DEF MarkFree
<1>5. CASE ReassignRefused(r)
  BY <1>5, <1>t, EndStep DEF ReassignRefused
<1>6. CASE SettleTwice(r)
  BY <1>6, <1>t, EndStep DEF SettleTwice
<1>7. CASE RedisOnline(r)
  BY <1>7, <1>t, RestTyped, EndStep DEF RedisOnline
<1>8. CASE WriteOffline(r)
  <2>. DEFINE x == [req[r] EXCEPT !.at = "redisOffline"]
  <2>1. req[r] \in [at : {"offline"}, agent : Agents, delivery : FromIds]
    BY <1>8, <1>t DEF WriteOffline, Rests, Idle
  <2>2. x = [at |-> "redisOffline", agent |-> req[r].agent, delivery |-> req[r].delivery]
    BY <2>1
  <2>3. x \in Rests
    BY <2>1, <2>2 DEF Rests
  <2>4. RestOK(x)
    BY <2>1, <2>2, <1>t DEF RestOK
  <2>. QED
    BY <1>8, <2>3, <2>4, <1>t, ReadingStep DEF WriteOffline
<1>9. CASE RedisOffline(r)
  <2>1. geo' \subseteq Agents /\ busy' \subseteq Agents /\ UNCHANGED <<tables, online>>
    BY <1>9, <1>t DEF RedisOffline
  <2>2. CASE End(r)
    BY <2>1, <2>2, <1>t, EndStep
  <2>3. CASE ~ End(r)
    <3>1. /\ req[r].delivery # Null /\ req[r].at = "redisOffline"
          /\ Continue(r, [at |-> "reassign", order |-> deliveries[req[r].delivery].order])
      BY <1>9, <2>3 DEF RedisOffline
    <3>. DEFINE x == [at |-> "reassign", order |-> deliveries[req[r].delivery].order]
    <3>2. req[r].delivery \in DOMAIN deliveries
      BY <3>1, <1>t DEF RestOK
    <3>3. x \in Rests /\ RestOK(x)
      BY <3>2, RowFacts DEF IInv, Rests, RestOK
    <3>. QED
      BY <2>1, <3>1, <3>3, <1>t, ReadingStep
  <2>. QED
    BY <2>2, <2>3
<1>10. CASE RedisPing(r)
  BY <1>10, <1>t, RestTyped, EndStep DEF RedisPing
<1>. QED
  BY <1>1, <1>2, <1>3, <1>4, <1>5, <1>6, <1>7, <1>8, <1>9, <1>10

-----------------------------------------------------------------------------
(* The steps that write orders and deliveries. *)

\* updateDeliveryStatus changes one row's status and may set its timestamps.
LEMMA UpdateDeliveryFacts ==
    ASSUME IInv, NEW d \in DOMAIN deliveries, NEW status \in DeliveryStatuses,
           UpdateDelivery(d, status),
           settled \subseteq settled', settled' \subseteq DOMAIN deliveries,
           settled' \subseteq pickedAt,
           status = "picked" => d \in acceptedAt
    PROVE  /\ deliveries' \in Seq(Rows)
           /\ Len(deliveries') = Len(deliveries)
           /\ DOMAIN deliveries' = DOMAIN deliveries
           /\ acceptedAt' \subseteq DOMAIN deliveries
           /\ pickedAt' \subseteq DOMAIN deliveries
           /\ status = "picked" => d \in pickedAt'
           /\ Grows
           /\ DeliveryColumnsInOrder'
           /\ ReplacesEarlier'
           /\ \A e \in DOMAIN deliveries' : RowOK(e)'
<1>. DEFINE row == [deliveries[d] EXCEPT !.status = status]
<1>1. /\ DOMAIN deliveries = 1..Len(deliveries)
      /\ deliveries \in Seq(Rows)
      /\ \A e \in DOMAIN deliveries : deliveries[e] \in Rows
      /\ \A e \in DOMAIN deliveries : e \in Ids /\ deliveries[e].from \in FromIds
  BY RowFacts DEF IInv, TypeOK
<1>2. row \in Rows /\ row.order = deliveries[d].order
      /\ row.status = status /\ row.from = deliveries[d].from
  BY <1>1 DEF Rows
<1>3. deliveries' = [deliveries EXCEPT ![d] = row]
  BY <1>1 DEF UpdateDelivery
<1>. HIDE DEF row
<1>4. /\ deliveries' \in Seq(Rows)
      /\ Len(deliveries') = Len(deliveries)
      /\ \A e \in 1..Len(deliveries) :
            deliveries'[e] = IF e = d THEN row ELSE deliveries[e]
  BY <1>1, <1>2, <1>3, ExceptSeq
<1>5. DOMAIN deliveries' = DOMAIN deliveries
  BY <1>1, <1>3
<1>6. \A e \in DOMAIN deliveries : /\ deliveries'[e].order = deliveries[e].order
                                  /\ deliveries'[e].from = deliveries[e].from
  BY <1>1, <1>2, <1>4
<1>7. /\ acceptedAt' \subseteq DOMAIN deliveries
      /\ pickedAt' \subseteq DOMAIN deliveries
      /\ acceptedAt \subseteq acceptedAt' /\ pickedAt \subseteq pickedAt'
      /\ status = "picked" => d \in pickedAt'
      /\ status = "accepted" => d \in acceptedAt'
  BY DEF UpdateDelivery, IInv, TypeOK
<1>8. Grows
  BY <1>5, <1>6, <1>7 DEF Grows
<1>9. DeliveryColumnsInOrder'
  BY DEF UpdateDelivery, IInv, DeliveryColumnsInOrder
<1>10. ReplacesEarlier'
  <2>. SUFFICES ASSUME NEW e \in DOMAIN deliveries, deliveries[e].from # Null
                PROVE  /\ deliveries[e].from < e
                       /\ deliveries'[deliveries[e].from].order = deliveries'[e].order
    BY <1>5, <1>6 DEF ReplacesEarlier
  <2>1. /\ deliveries[e].from < e
        /\ deliveries[deliveries[e].from].order = deliveries[e].order
    BY DEF IInv, ReplacesEarlier
  <2>2. deliveries[e].from \in DOMAIN deliveries
    BY <1>1, <2>1, RowFacts, BoundsAssumption DEF IInv, FromIds, Ids, Null
  <2>. QED
    BY <1>6, <2>1, <2>2
<1>11. \A e \in DOMAIN deliveries' : RowOK(e)'
  BY <1>1, <1>2, <1>4, <1>5, <1>7 DEF IInv, RowOK
<1>. QED
  BY <1>4, <1>5, <1>7, <1>8, <1>9, <1>10, <1>11

\* A step that writes the tables soundly and goes on soundly keeps IInv.
LEMMA WritingStep ==
    ASSUME IInv, NEW r \in Requests, NEW x \in Rests, RestOK(x)', Continue(r, x),
           Grows, OrderStatusIsBacked', DeliveryColumnsInOrder', ReplacesEarlier',
           \A d \in DOMAIN deliveries' : RowOK(d)',
           TypeOK'
    PROVE  IInv'
  BY ContinueOK DEF IInv

\* WriteOrder moves an order where no delivery is needed to back it.
LEMMA WriteOrderStep ==
    ASSUME IInv, NEW r \in Requests, WriteOrder(r)
    PROVE  IInv'
<1>. USE DEF presence, history
<1>1. PICK o \in Orders, target \in OrderStatuses :
          /\ o = req[r].order /\ target = req[r].target
          /\ target \notin {"assigned", "picked", "delivered"}
  BY RestTyped DEF IInv, TypeOK, WriteOrder, RestOK
<1>2. /\ orderStatus' = [orderStatus EXCEPT ![o] = target]
      /\ UNCHANGED <<deliveries, acceptedAt, pickedAt, settled, online, geo, busy>>
  BY <1>1 DEF WriteOrder
<1>3. PICK x \in Rests : Continue(r, x) /\ RestOK(x)'
  <2>. DEFINE toCancel == target = "cancelled" /\ req[r].seen = "assigned"
              cancel == [at |-> "cancelDeliveries", order |-> o]
              assign == [at |-> "autoAssign", order |-> o]
  <2>1. \/ toCancel /\ Continue(r, cancel)
        \/ ~ toCancel /\ target = "ready" /\ Continue(r, assign)
        \/ ~ toCancel /\ target # "ready" /\ Continue(r, Idle)
    <3>1. CASE toCancel
      BY <1>1, <3>1 DEF WriteOrder
    <3>2. CASE ~ toCancel /\ target = "ready"
      BY <1>1, <3>2 DEF WriteOrder
    <3>3. CASE ~ toCancel /\ target # "ready"
      BY <1>1, <3>3 DEF WriteOrder
    <3>. QED
      BY <3>1, <3>2, <3>3
  <2>2. \A x \in {cancel, assign, Idle} : x \in Rests /\ RestOK(x)'
    BY DEF Rests, RestOK, Idle
  <2>. QED
    BY <2>1, <2>2
<1>4. Grows
  BY <1>2 DEF Grows
<1>5. TypeOK'
  BY <1>1, <1>2, <1>3, ContinueTyped DEF IInv, TypeOK
<1>6. OrderStatusIsBacked'
  BY <1>1, <1>2, <1>4, <1>5, BackedAfterWrite DEF IInv, BackedBy
<1>. QED
  BY <1>2, <1>3, <1>4, <1>5, <1>6, WritingStep
     DEF IInv, DeliveryColumnsInOrder, ReplacesEarlier, RowOK

\* CancelDeliveries changes statuses only.
LEMMA CancelDeliveriesStep ==
    ASSUME IInv, NEW r \in Requests, CancelDeliveries(r)
    PROVE  IInv'
<1>. USE DEF presence, history
<1>1. PICK o \in Orders : o = req[r].order
  BY RestTyped DEF IInv, TypeOK, CancelDeliveries
<1>2. UNCHANGED <<orderStatus, acceptedAt, pickedAt, settled, online, geo, busy>>
  BY DEF CancelDeliveries
<1>3. /\ DOMAIN deliveries = 1..Len(deliveries)
      /\ Len(deliveries) \in 0..MaxDeliveries
      /\ \A d \in DOMAIN deliveries : deliveries[d] \in Rows
  BY RowFacts DEF IInv
<1>4. /\ DOMAIN deliveries' = DOMAIN deliveries
      /\ deliveries' \in [1..Len(deliveries) -> Rows]
      /\ \A d \in DOMAIN deliveries :
            /\ deliveries'[d].order = deliveries[d].order
            /\ deliveries'[d].from = deliveries[d].from
            /\ deliveries'[d].status \in {deliveries[d].status, "cancelled"}
  BY <1>1, <1>3 DEF CancelDeliveries, Rows, DeliveryStatuses
<1>5. deliveries' \in Seq(Rows) /\ Len(deliveries') = Len(deliveries)
  BY <1>3, <1>4, SeqDef, BoundsAssumption
<1>6. Grows
  BY <1>2, <1>4 DEF Grows
<1>7. PICK x \in Rests : Continue(r, x) /\ RestOK(x)'
  <2>1. CASE ActiveOf(o) = {}
    <3>1. End(r)
      BY <1>1, <2>1 DEF CancelDeliveries
    <3>2. Idle \in Rests /\ RestOK(Idle)'
      BY DEF Rests, RestOK, Idle
    <3>. QED
      BY <3>1, <3>2 DEF End
  <2>2. CASE ActiveOf(o) # {}
    <3>1. PICK d \in ActiveOf(o) : Continue(r, Free(deliveries[d].agent, "end", o, Null))
      BY <1>1, <2>2 DEF CancelDeliveries
    <3>2. deliveries[d].agent \in Agents
      BY RowFacts DEF IInv, ActiveOf
    <3>. DEFINE x == Free(deliveries[d].agent, "end", o, Null)
    <3>3. x \in Rests
      BY <3>2 DEF Free, Rests, FromIds
    <3>4. /\ x.at = "free" /\ x.from = Null
      BY DEF Free
    <3>. HIDE DEF x
    <3>5. \A y \in Rests : y.at = "free" /\ y.from = Null => RestOK(y)'
      BY DEF RestOK
    <3>. QED
      BY <3>1, <3>3, <3>4, <3>5 DEF x
  <2>. QED
    BY <2>1, <2>2
<1>8. TypeOK'
  BY <1>2, <1>3, <1>4, <1>5, <1>7, ContinueTyped DEF IInv, TypeOK
<1>9. OrderStatusIsBacked'
  BY <1>2, <1>6, <1>8, BackedUnwritten DEF IInv
<1>10. ReplacesEarlier'
  <2>. SUFFICES ASSUME NEW e \in DOMAIN deliveries, deliveries[e].from # Null
                PROVE  /\ deliveries[e].from < e
                       /\ deliveries'[deliveries[e].from].order = deliveries'[e].order
    BY <1>4 DEF ReplacesEarlier
  <2>1. /\ deliveries[e].from < e
        /\ deliveries[deliveries[e].from].order = deliveries[e].order
    BY DEF IInv, ReplacesEarlier
  <2>2. deliveries[e].from \in DOMAIN deliveries
    BY <1>3, <2>1, RowFacts, BoundsAssumption DEF IInv, FromIds, Ids, Null
  <2>. QED
    BY <1>4, <2>1, <2>2
<1>11. \A d \in DOMAIN deliveries' : RowOK(d)'
  BY <1>2, <1>4 DEF IInv, RowOK
<1>12. DeliveryColumnsInOrder'
  BY <1>2 DEF IInv, DeliveryColumnsInOrder
<1>. QED
  BY <1>6, <1>7, <1>8, <1>9, <1>10, <1>11, <1>12, WritingStep

\* CreateAssignment appends the delivery that makes its order 'assigned'.
LEMMA CreateAssignmentStep ==
    ASSUME IInv, NEW r \in Requests, CreateAssignment(r)
    PROVE  IInv'
<1>. USE DEF presence, history
<1>1. PICK o \in Orders, a \in Agents, from \in FromIds :
          /\ o = req[r].order /\ a = req[r].agent /\ from = req[r].from
          /\ from # Null => /\ from \in DOMAIN deliveries
                            /\ deliveries[from].order = o
  BY RestTyped DEF IInv, TypeOK, CreateAssignment, RestOK
<1>. DEFINE row == [order |-> o, agent |-> a, status |-> "assigned", from |-> from]
            new == Len(deliveries) + 1
<1>2. /\ deliveries' = Append(deliveries, row)
      /\ orderStatus' = [orderStatus EXCEPT ![o] = "assigned"]
      /\ UNCHANGED <<acceptedAt, pickedAt, settled, online, geo, busy>>
      /\ Len(deliveries) < MaxDeliveries
  BY <1>1 DEF CreateAssignment
<1>3. row \in Rows
  BY DEF Rows, DeliveryStatuses, ACTIVE_STATUSES
<1>4. /\ DOMAIN deliveries = 1..Len(deliveries)
      /\ Len(deliveries) \in 0..MaxDeliveries
      /\ deliveries \in Seq(Rows)
  BY RowFacts DEF IInv, TypeOK
<1>5. row.order = o /\ row.status = "assigned" /\ row.from = from
  OBVIOUS
<1>. HIDE DEF row
<1>6. /\ deliveries' \in Seq(Rows)
      /\ Len(deliveries') = new
      /\ \A d \in DOMAIN deliveries : deliveries'[d] = deliveries[d]
      /\ deliveries'[new] = row
  BY <1>2, <1>3, <1>4
<1>7. DOMAIN deliveries' = DOMAIN deliveries \cup {new} /\ new \notin DOMAIN deliveries
  BY <1>4, <1>6, LenProperties
<1>8. Grows
  BY <1>2, <1>6, <1>7 DEF Grows
<1>9. PICK x \in Rests : Continue(r, x) /\ RestOK(x)'
  <2>. DEFINE x == [at |-> "busy", agent |-> a]
  <2>1. x \in Rests /\ RestOK(x)'
    BY DEF Rests, RestOK
  <2>. QED
    BY <1>1, <2>1 DEF CreateAssignment
<1>10. TypeOK'
  <2>1. /\ acceptedAt' \subseteq DOMAIN deliveries'
        /\ pickedAt' \subseteq DOMAIN deliveries'
        /\ settled' \subseteq DOMAIN deliveries'
    BY <1>2, <1>7 DEF IInv, TypeOK
  <2>2. Len(deliveries') <= MaxDeliveries
    BY <1>2, <1>4, <1>6, BoundsAssumption
  <2>3. orderStatus' \in [Orders -> OrderStatuses]
    BY <1>2 DEF IInv, TypeOK, OrderStatuses
  <2>. QED
    BY <1>2, <1>6, <1>9, <2>1, <2>2, <2>3, ContinueTyped DEF IInv, TypeOK
<1>11. OrderStatusIsBacked'
  <2>1. BackedBy(o, "assigned")'
    BY <1>5, <1>6, <1>7 DEF BackedBy
  <2>. QED
    BY <1>2, <1>8, <1>10, <2>1, BackedAfterWrite DEF IInv
<1>12. ReplacesEarlier'
  <2>. SUFFICES ASSUME NEW d \in DOMAIN deliveries', deliveries'[d].from # Null
                PROVE  /\ deliveries'[d].from < d
                       /\ deliveries'[deliveries'[d].from].order = deliveries'[d].order
    BY DEF ReplacesEarlier
  <2>1. CASE d = new
    BY <1>1, <1>4, <1>5, <1>6, <2>1
  <2>2. CASE d \in DOMAIN deliveries
    <3>1. /\ deliveries[d].from # Null
          /\ deliveries[d].from < d
          /\ deliveries[deliveries[d].from].order = deliveries[d].order
      BY <1>6, <2>2 DEF IInv, ReplacesEarlier
    <3>2. deliveries[d].from \in DOMAIN deliveries
      BY <1>4, <2>2, <3>1, RowFacts, BoundsAssumption DEF IInv, FromIds, Ids, Null
    <3>. QED
      BY <1>6, <2>2, <3>1, <3>2
  <2>. QED
    BY <1>7, <2>1, <2>2
<1>13. \A d \in DOMAIN deliveries' : RowOK(d)'
  BY <1>2, <1>5, <1>6, <1>7 DEF IInv, RowOK
<1>14. DeliveryColumnsInOrder'
  BY <1>2 DEF IInv, DeliveryColumnsInOrder
<1>. QED
  BY <1>8, <1>9, <1>10, <1>11, <1>12, <1>13, <1>14, WritingStep

\* WriteReassigned writes a status that nothing depends on.
LEMMA WriteReassignedStep ==
    ASSUME IInv, NEW r \in Requests, WriteReassigned(r)
    PROVE  IInv'
<1>. USE DEF presence
<1>1. PICK d \in DOMAIN deliveries : d = req[r].delivery
  BY DEF IInv, WriteReassigned, RestOK
<1>. DEFINE x == Free(deliveries[d].agent, "tryAssign", deliveries[d].order, d)
<1>2. /\ UpdateDelivery(d, "reassigned") /\ Continue(r, x)
      /\ UNCHANGED <<orderStatus, settled, online, geo, busy>>
  BY <1>1 DEF WriteReassigned
<1>3. /\ deliveries' \in Seq(Rows)
      /\ Len(deliveries') = Len(deliveries)
      /\ DOMAIN deliveries' = DOMAIN deliveries
      /\ acceptedAt' \subseteq DOMAIN deliveries
      /\ pickedAt' \subseteq DOMAIN deliveries
      /\ Grows /\ DeliveryColumnsInOrder' /\ ReplacesEarlier'
      /\ \A e \in DOMAIN deliveries' : RowOK(e)'
  BY <1>2, UpdateDeliveryFacts
     DEF IInv, TypeOK, DeliveryColumnsInOrder, DeliveryStatuses
<1>4. x \in Rests
  BY RowFacts DEF IInv, Free, Rests, FromIds
<1>5. /\ x.at = "free" /\ x.from = d /\ x.order = deliveries[d].order
  BY DEF Free
<1>. HIDE DEF x
<1>6. PICK y \in Rests : Continue(r, y) /\ RestOK(y)'
  <2>1. \A y \in Rests : y.at = "free" /\ y.from = d /\ y.order = deliveries[d].order
                             => RestOK(y)'
    BY <1>3 DEF Grows, RestOK
  <2>. QED
    BY <1>2, <1>4, <1>5, <2>1
<1>7. TypeOK'
  BY <1>2, <1>3, <1>6, ContinueTyped DEF IInv, TypeOK
<1>8. OrderStatusIsBacked'
  BY <1>2, <1>3, <1>7, BackedUnwritten DEF IInv
<1>. QED
  BY <1>3, <1>6, <1>7, <1>8, WritingStep

\* WriteDelivery writes what its handler has checked, however long ago.
LEMMA WriteDeliveryStep ==
    ASSUME IInv, NEW r \in Requests, WriteDelivery(r)
    PROVE  IInv'
<1>. USE DEF presence
<1>1. PICK d \in DOMAIN deliveries, target \in DeliveryStatuses :
          /\ d = req[r].delivery /\ target = req[r].target
          /\ target = "picked" => d \in acceptedAt
  BY RestTyped DEF IInv, TypeOK, WriteDelivery, RestOK
<1>. DEFINE o == deliveries[d].order
            a == deliveries[d].agent
            next == IF MayReassign(d) THEN "tryAssign" ELSE "end"
            pick == [at |-> "pickOrder", order |-> o]
            free == Free(a, next, o, d)
<1>2. /\ UpdateDelivery(d, target)
      /\ UNCHANGED <<orderStatus, settled, online, geo, busy>>
  BY <1>1 DEF WriteDelivery
<1>3. \/ target = "picked" /\ Continue(r, pick)
      \/ target = "rejected" /\ Continue(r, free)
      \/ target \notin {"picked", "rejected"} /\ Continue(r, Idle)
  <2>1. CASE target = "picked"
    BY <1>1, <2>1 DEF WriteDelivery
  <2>2. CASE target = "rejected"
    BY <1>1, <2>2 DEF WriteDelivery
  <2>3. CASE target \notin {"picked", "rejected"}
    BY <1>1, <2>3 DEF WriteDelivery
  <2>. QED
    BY <2>1, <2>2, <2>3
<1>4. /\ deliveries' \in Seq(Rows)
      /\ Len(deliveries') = Len(deliveries)
      /\ DOMAIN deliveries' = DOMAIN deliveries
      /\ acceptedAt' \subseteq DOMAIN deliveries
      /\ pickedAt' \subseteq DOMAIN deliveries
      /\ target = "picked" => d \in pickedAt'
      /\ Grows /\ DeliveryColumnsInOrder' /\ ReplacesEarlier'
      /\ \A e \in DOMAIN deliveries' : RowOK(e)'
  BY <1>1, <1>2, UpdateDeliveryFacts DEF IInv, TypeOK, DeliveryColumnsInOrder
<1>5. PICK x \in Rests : Continue(r, x) /\ RestOK(x)'
  <2>0. deliveries'[d].order = o /\ o \in Orders /\ a \in Agents
    BY <1>4, RowFacts DEF Grows, IInv
  <2>1. CASE target = "picked" /\ Continue(r, pick)
    <3>1. pick \in Rests
      BY <2>0 DEF Rests
    <3>2. pick.at = "pickOrder" /\ pick.order = o
      OBVIOUS
    <3>3. \A y : y = pick => RestOK(y)'
      BY <1>4, <2>0, <2>1 DEF RestOK
    <3>. QED
      BY <2>1, <3>1, <3>3
  <2>2. CASE target = "rejected" /\ Continue(r, free)
    <3>1. free \in Rests
      BY <2>0, RowFacts DEF IInv, Free, Rests, FromIds
    <3>2. free.at = "free" /\ free.from = d /\ free.order = o
      BY DEF Free
    <3>3. \A y : y.at = "free" /\ y.from = d /\ y.order = o => RestOK(y)'
      BY <1>4, <2>0 DEF RestOK
    <3>. HIDE DEF free
    <3>. QED
      BY <2>2, <3>1, <3>2, <3>3
  <2>3. CASE Continue(r, Idle)
    <3>1. Idle \in Rests /\ RestOK(Idle)'
      BY DEF Rests, RestOK, Idle
    <3>. QED
      BY <2>3, <3>1
  <2>. HIDE DEF pick, free
  <2>. QED
    BY <1>3, <2>1, <2>2, <2>3
<1>6. TypeOK'
  BY <1>2, <1>4, <1>5, ContinueTyped DEF IInv, TypeOK
<1>7. OrderStatusIsBacked'
  BY <1>2, <1>4, <1>6, BackedUnwritten DEF IInv
<1>. QED
  BY <1>4, <1>5, <1>6, <1>7, WritingStep

\* PickOrder follows the pick-up that backs it.
LEMMA PickOrderStep ==
    ASSUME IInv, NEW r \in Requests, PickOrder(r)
    PROVE  IInv'
<1>. USE DEF presence, history
<1>1. PICK o \in Orders : /\ o = req[r].order
                          /\ \E d \in pickedAt : deliveries[d].order = o
  BY RestTyped DEF IInv, TypeOK, PickOrder, RestOK
<1>2. /\ orderStatus' = [orderStatus EXCEPT ![o] = "picked"]
      /\ Continue(r, Idle)
      /\ UNCHANGED <<deliveries, acceptedAt, pickedAt, settled, online, geo, busy>>
  BY <1>1 DEF PickOrder, End
<1>3. Idle \in Rests /\ RestOK(Idle)'
  BY DEF Rests, RestOK, Idle
<1>4. Grows
  BY <1>2 DEF Grows
<1>5. TypeOK'
  BY <1>2, <1>3, ContinueTyped DEF IInv, TypeOK, OrderStatuses
<1>6. BackedBy(o, "picked")'
  BY <1>1, <1>2 DEF BackedBy
<1>7. OrderStatusIsBacked'
  BY <1>2, <1>4, <1>5, <1>6, BackedAfterWrite DEF IInv
<1>. QED
  BY <1>2, <1>3, <1>4, <1>5, <1>7, WritingStep
     DEF IInv, DeliveryColumnsInOrder, ReplacesEarlier, RowOK

\* Settle pays for a delivery that was picked up.
LEMMA SettleStep ==
    ASSUME IInv, NEW r \in Requests, Settle(r)
    PROVE  IInv'
<1>. USE DEF presence
<1>1. PICK d \in DOMAIN deliveries : d = req[r].delivery /\ d \in pickedAt
  BY DEF IInv, TypeOK, Settle, RestOK
<1>2. PICK o \in Orders, a \in Agents : o = deliveries[d].order /\ a = deliveries[d].agent
  BY RowFacts DEF IInv
<1>. DEFINE x == Free(a, "end", o, Null)
<1>3. /\ settled' = settled \cup {d}
      /\ UpdateDelivery(d, "delivered")
      /\ orderStatus' = [orderStatus EXCEPT ![o] = "delivered"]
      /\ Continue(r, x)
      /\ UNCHANGED <<online, geo, busy>>
  BY <1>1, <1>2 DEF Settle
<1>4. /\ deliveries' \in Seq(Rows)
      /\ Len(deliveries') = Len(deliveries)
      /\ DOMAIN deliveries' = DOMAIN deliveries
      /\ acceptedAt' \subseteq DOMAIN deliveries
      /\ pickedAt' \subseteq DOMAIN deliveries
      /\ Grows /\ DeliveryColumnsInOrder' /\ ReplacesEarlier'
      /\ \A e \in DOMAIN deliveries' : RowOK(e)'
  BY <1>1, <1>3, UpdateDeliveryFacts
     DEF IInv, TypeOK, DeliveryColumnsInOrder, DeliveryStatuses
<1>5. x \in Rests /\ x.at = "free" /\ x.from = Null
  BY DEF Free, Rests, FromIds
<1>. HIDE DEF x
<1>6. PICK y \in Rests : Continue(r, y) /\ RestOK(y)'
  <2>1. \A y \in Rests : y.at = "free" /\ y.from = Null => RestOK(y)'
    BY DEF RestOK
  <2>. QED
    BY <1>3, <1>5, <2>1
<1>7. TypeOK'
  BY <1>1, <1>3, <1>4, <1>6, ContinueTyped DEF IInv, TypeOK, OrderStatuses
<1>8. BackedBy(o, "delivered")'
  <2>1. d \in settled' /\ deliveries'[d].order = o
    BY <1>1, <1>2, <1>3, <1>4 DEF Grows
  <2>. QED
    BY <2>1 DEF BackedBy
<1>9. OrderStatusIsBacked'
  BY <1>3, <1>4, <1>7, <1>8, BackedAfterWrite DEF IInv
<1>. QED
  BY <1>4, <1>6, <1>7, <1>9, WritingStep

-----------------------------------------------------------------------------
(* The theorems. *)

\* A server starts with no deliveries and no handler in flight.
LEMMA InitIInv == Init => IInv
<1>. SUFFICES ASSUME Init PROVE IInv
  OBVIOUS
<1>1. TypeOK
  BY BoundsAssumption DEF Init, TypeOK, Rests, OrderStatuses
<1>2. OrderStatusIsBacked /\ DeliveryColumnsInOrder /\ ReplacesEarlier
  BY DEF Init, OrderStatusIsBacked, DeliveryColumnsInOrder, ReplacesEarlier
<1>3. \A r \in Requests : RestOK(req[r])
  BY DEF Init, RestOK, Idle
<1>4. \A d \in DOMAIN deliveries : RowOK(d)
  BY DEF Init
<1>. QED
  BY <1>1, <1>2, <1>3, <1>4 DEF IInv

\* Every step of every handler preserves the invariant.
LEMMA NextIInv == IInv /\ [Next]_vars => IInv'
<1>. SUFFICES ASSUME IInv, [Next]_vars PROVE IInv'
  OBVIOUS
<1>1. CASE UNCHANGED vars
  BY <1>1
     DEF vars, tables, history, presence, IInv, TypeOK, DeliveryColumnsInOrder,
         OrderStatusIsBacked, ReplacesEarlier, RowOK, RestOK
<1>2. ASSUME NEW r \in Requests, Start(r) PROVE IInv'
  BY <1>2, StartStep
<1>3. ASSUME NEW r \in Requests, Run(r) PROVE IInv'
  BY <1>3, ReassignStep, QuietRunStep, WriteOrderStep, CancelDeliveriesStep,
     CreateAssignmentStep, WriteReassignedStep, WriteDeliveryStep,
     PickOrderStep, SettleStep
     DEF Run
<1>4. ASSUME NEW r \in Requests, Crash(r) PROVE IInv'
  BY <1>4, EndStep DEF Crash, presence, IInv, TypeOK
<1>. QED
  BY <1>1, <1>2, <1>3, <1>4 DEF Next

\* The inductive invariant holds: checks on stale reads notwithstanding, rows,
\* their orders and their timestamps only grow, and that is what handlers use.
THEOREM Invariance == Spec => []IInv
  BY InitIInv, NextIInv, PTL DEF Spec

\* Every variable keeps its type.
THEOREM TypeCorrect == Spec => []TypeOK
<1>1. IInv => TypeOK
  BY DEF IInv
<1>. QED
  BY <1>1, Invariance, PTL

\* No delivery is picked up that was not accepted, or paid for that was not
\* picked up (updateStatus, settleDelivery), whatever requests overlap.
THEOREM ColumnsInOrder == Spec => []DeliveryColumnsInOrder
<1>1. IInv => DeliveryColumnsInOrder
  BY DEF IInv
<1>. QED
  BY <1>1, Invariance, PTL

\* An order is never assigned, picked or delivered without a delivery that was
\* created, picked up or settled (setDeliveryAgent, applySystemStatusChange,
\* settleDelivery).
THEOREM StatusBacked == Spec => []OrderStatusIsBacked
<1>1. IInv => OrderStatusIsBacked
  BY DEF IInv
<1>. QED
  BY <1>1, Invariance, PTL

\* The walk of countReassignmentChain ends, within one order: each delivery
\* replaces an older one of its order.
THEOREM ChainsEnd == Spec => []ReplacesEarlier
<1>1. IInv => ReplacesEarlier
  BY DEF IInv
<1>. QED
  BY <1>1, Invariance, PTL
-----------------------------------------------------------------------------
(* Chains of deliveries.  The recursion of countReassignmentChain exists and *)
(* is unique because deliveries replace earlier ones: were it not, there     *)
(* would be a first delivery where it fails.                                 *)

\* Of natural numbers there is a least one.
LEMMA LeastNat ==
    ASSUME NEW T \in SUBSET Nat, T # {}
    PROVE  \E m \in T : \A k \in T : m <= k
<1>. DEFINE R == OpToRel(<, Nat)
<1>1. IsWellFoundedOn(R, Nat)
  BY NatLessThanWellFounded
<1>2. \A m, k \in Nat : <<k, m>> \in R <=> k < m
  BY DEF OpToRel
<1>. HIDE DEF R
<1>3. PICK m \in T : \A k \in T : ~ (<<k, m>> \in R)
  BY <1>1, WFMin
<1>4. \A k \in T : ~ (k < m)
  BY <1>2, <1>3
<1>5. m \in Nat /\ \A k \in T : k \in Nat
  BY <1>3
<1>. QED
  BY <1>4, <1>5

\* f is the recursion of countReassignmentChain over the deliveries D.
Lengths(f, D) ==
    f = [i \in DOMAIN D |-> IF D[i].from = Null THEN 1 ELSE 1 + f[D[i].from]]

\* Deliveries numbered from 1 that replace earlier ones.
Replacing(D, n) ==
    /\ n \in Nat /\ DOMAIN D = 1..n
    /\ \A i \in 1..n : D[i].from = Null \/ D[i].from \in 1..(i - 1)

\* There is such a recursion: if not for the first n deliveries, there is one for
\* the first n - 1, and the n-th adds a value to it.
LEMMA LengthsExist ==
    ASSUME NEW D, NEW n, Replacing(D, n)
    PROVE  \E f : Lengths(f, D)
<1>. DEFINE Step(f, i) == IF D[i].from = Null THEN 1 ELSE 1 + f[D[i].from]
            Part(f, k) == \A i \in 1..k : f[i] = Step(f, i)
            Missing == {k \in 0..n : ~ \E f : Part(f, k)}
<1>1. Missing = {}
  <2>. SUFFICES ASSUME Missing # {} PROVE FALSE
    OBVIOUS
  <2>1. PICK k \in Missing : \A j \in Missing : k <= j
    <3>. HIDE DEF Missing
    <3>1. Missing \in SUBSET Nat
      BY DEF Missing, Replacing
    <3>. QED
      BY <3>1, LeastNat
  <2>2. k \in 0..n /\ n \in Nat /\ ~ \E f : Part(f, k)
    BY <2>1 DEF Replacing
  <2>3. k # 0
    <3>1. Part([i \in {} |-> 0], 0)
      OBVIOUS
    <3>. QED
      BY <2>2, <3>1
  <2>4. k \in 1..n /\ k - 1 \in 0..n /\ k - 1 \notin Missing
    <3>. HIDE DEF Missing
    <3>1. k - 1 \in 0..n /\ ~ (k <= k - 1)
      BY <2>2, <2>3
    <3>. QED
      BY <2>1, <2>2, <2>3, <3>1
  <2>5. PICK f : Part(f, k - 1)
    BY <2>4
  <2>. DEFINE g == [i \in 1..k |-> IF i = k THEN Step(f, k) ELSE f[i]]
  <2>6. ASSUME NEW i \in 1..k PROVE g[i] = Step(g, i)
    <3>1. D[i].from = Null \/ (D[i].from \in 1..(k - 1) /\ D[i].from \in 1..k)
      BY <2>4 DEF Replacing
    <3>2. Step(g, i) = Step(f, i)
      BY <2>4, <3>1
    <3>3. g[i] = Step(f, i)
      BY <2>4, <2>5
    <3>. QED
      BY <3>2, <3>3
  <2>. QED
    BY <2>2, <2>6
<1>2. n \in 0..n /\ DOMAIN D = 1..n
  BY DEF Replacing
<1>3. PICK f : Part(f, n)
  BY <1>1, <1>2
<1>. DEFINE h == [i \in 1..n |-> f[i]]
<1>4. \A i \in 1..n : D[i].from = Null \/ D[i].from \in 1..n
  BY DEF Replacing
<1>5. h = [i \in DOMAIN D |-> IF D[i].from = Null THEN 1 ELSE 1 + h[D[i].from]]
  BY <1>2, <1>3, <1>4
<1>. QED
  BY <1>5 DEF Lengths

\* Lengths are counts, and stay what they are while deliveries are added.
LEMMA LengthsAgree ==
    ASSUME NEW D, NEW n, Replacing(D, n), NEW f, Lengths(f, D),
           NEW E, NEW m, Replacing(E, m), NEW g, Lengths(g, E),
           n <= m, \A i \in 1..n : E[i].from = D[i].from
    PROVE  \A i \in 1..n : f[i] \in Nat /\ g[i] = f[i]
<1>. DEFINE Wrong == {i \in 1..n : ~ (f[i] \in Nat /\ g[i] = f[i])}
<1>1. Wrong = {}
  <2>. SUFFICES ASSUME Wrong # {} PROVE FALSE
    OBVIOUS
  <2>1. PICK i \in Wrong : \A j \in Wrong : i <= j
    <3>. HIDE DEF Wrong
    <3>1. Wrong \in SUBSET Nat
      BY DEF Wrong, Replacing
    <3>. QED
      BY <3>1, LeastNat
  <2>2. i \in 1..n /\ i \in 1..m /\ n \in Nat /\ m \in Nat
    BY <2>1 DEF Replacing
  <2>3. /\ f[i] = IF D[i].from = Null THEN 1 ELSE 1 + f[D[i].from]
        /\ g[i] = IF E[i].from = Null THEN 1 ELSE 1 + g[E[i].from]
        /\ E[i].from = D[i].from
    BY <2>2 DEF Lengths, Replacing
  <2>4. CASE D[i].from = Null
    BY <2>1, <2>3, <2>4
  <2>5. CASE D[i].from # Null
    <3>. DEFINE j == D[i].from
    <3>1. j \in 1..n /\ ~ (i <= j)
      BY <2>2, <2>5 DEF Replacing
    <3>2. f[j] \in Nat /\ g[j] = f[j]
      BY <2>1, <3>1
    <3>. QED
      BY <2>1, <2>3, <2>5, <3>2
  <2>. QED
    BY <2>4, <2>5
<1>. QED
  BY <1>1

\* The deliveries are such ones, and Chain is their recursion.
ChainIs ==
    /\ Replacing(deliveries, Len(deliveries))
    /\ \E f : Lengths(f, deliveries) /\ \A d : Chain(d) = f[d]

LEMMA ChainDefined == IInv => ChainIs
<1>. SUFFICES ASSUME IInv PROVE ChainIs
  OBVIOUS
<1>1. Replacing(deliveries, Len(deliveries))
  <2>1. /\ DOMAIN deliveries = 1..Len(deliveries) /\ Len(deliveries) \in Nat
        /\ \A d \in DOMAIN deliveries : deliveries[d].from \in FromIds
    BY RowFacts, BoundsAssumption DEF IInv
  <2>2. \A d \in DOMAIN deliveries : deliveries[d].from # Null => deliveries[d].from < d
    BY DEF IInv, ReplacesEarlier
  <2>. QED
    BY <2>1, <2>2, BoundsAssumption DEF Replacing, FromIds, Ids, Null
<1>2. \E f : Lengths(f, deliveries)
  BY <1>1, LengthsExist
<1>. DEFINE f == CHOOSE f : Lengths(f, deliveries)
<1>3. Lengths(f, deliveries)
  BY <1>2
<1>4. \A d : Chain(d) = f[d]
  BY DEF Chain, Lengths
<1>. QED
  BY <1>1, <1>3, <1>4 DEF ChainIs

\* ... before and after a step.
LEMMA ChainDefinedNext == IInv' => ChainIs'
  BY ChainDefined, PTL

\* A chain is as long as the one it goes on, and one more.
LEMMA ChainCounts ==
    ASSUME IInv, NEW d \in DOMAIN deliveries
    PROVE  /\ Chain(d) \in Nat
           /\ Chain(d) = IF deliveries[d].from = Null THEN 1
                                                     ELSE 1 + Chain(deliveries[d].from)
<1>1. PICK f : Lengths(f, deliveries) /\ \A e : Chain(e) = f[e]
  BY ChainDefined DEF ChainIs
<1>2. DOMAIN deliveries = 1..Len(deliveries) /\ Len(deliveries) \in Nat
      /\ Replacing(deliveries, Len(deliveries))
  BY ChainDefined DEF ChainIs, Replacing
<1>3. f[d] \in Nat
  BY <1>1, <1>2, LengthsAgree
<1>. QED
  BY <1>1, <1>3 DEF Lengths

\* Deliveries keep what they replace.
FromKept ==
    \A d \in DOMAIN deliveries : /\ d \in DOMAIN deliveries'
                                 /\ deliveries'[d].from = deliveries[d].from

\* Chains stay what they are.
LEMMA ChainKept ==
    ASSUME IInv, IInv', FromKept
    PROVE  \A d \in DOMAIN deliveries : Chain(d)' = Chain(d)
<1>1. PICK f : Lengths(f, deliveries) /\ \A d : Chain(d) = f[d]
  BY ChainDefined DEF ChainIs
<1>2. PICK g : Lengths(g, deliveries') /\ \A d : Chain(d)' = g[d]
  BY ChainDefinedNext DEF ChainIs
<1>3. /\ Replacing(deliveries, Len(deliveries))
      /\ Replacing(deliveries', Len(deliveries'))
  BY ChainDefined, ChainDefinedNext DEF ChainIs
<1>4. Len(deliveries) <= Len(deliveries')
  BY <1>3 DEF Replacing, FromKept
<1>5. \A d \in 1..Len(deliveries) : deliveries'[d].from = deliveries[d].from
  BY <1>3 DEF FromKept, Replacing
<1>6. PICK D, E, n, m : /\ D = deliveries /\ E = deliveries'
                        /\ n = Len(deliveries) /\ m = Len(deliveries')
  OBVIOUS
<1>7. /\ Replacing(D, n) /\ Replacing(E, m) /\ n <= m
      /\ Lengths(f, D) /\ Lengths(g, E)
      /\ \A i \in 1..n : E[i].from = D[i].from
  BY <1>1, <1>2, <1>3, <1>4, <1>5, <1>6
<1>8. \A i \in 1..n : g[i] = f[i]
  BY <1>7, LengthsAgree
<1>. QED
  BY <1>1, <1>2, <1>3, <1>6, <1>8 DEF Replacing

-----------------------------------------------------------------------------
(* How long chains get. *)

\* A handler that will replace a delivery has found its chain short enough.
Short(d) == d \in DOMAIN deliveries /\ MayReassign(d)

MayReplace(x) ==
    /\ (x.at \in {"tryAssign", "create"} /\ x.from # Null) => Short(x.from)
    /\ (x.at = "free" /\ x.next = "tryAssign" /\ x.from # Null) => Short(x.from)
    /\ x.at = "writeReassigned" => Short(x.delivery)

ChainInv ==
    /\ \A d \in DOMAIN deliveries : Chain(d) <= MaxAttempts
    /\ \A r \in Requests : MayReplace(req[r])

\* What a step adds to the chains: at most one delivery, to a short enough one.
StepChains ==
    /\ FromKept
    /\ \A d \in DOMAIN deliveries' \ DOMAIN deliveries :
          deliveries'[d].from = Null \/ Short(deliveries'[d].from)
    /\ \A r \in Requests : MayReplace(req'[r])

\* A handler that goes on so that it may replace what it will replace.
LEMMA MayReplaceNext ==
    ASSUME TypeOK, ChainInv, NEW r \in Requests, NEW x, MayReplace(x), Continue(r, x)
    PROVE  \A q \in Requests : MayReplace(req'[q])
<1>1. \A q \in Requests : req'[q] = x \/ req'[q] = req[q]
  BY DEF TypeOK, Continue
<1>2. \A q \in Requests : MayReplace(req[q])
  BY DEF ChainInv
<1>. QED
  BY <1>1, <1>2

\* A handler that will replace nothing, or nothing it has yet to write.
LEMMA ReplacesNothing ==
    ASSUME NEW x,
           \/ x.at \notin {"tryAssign", "create", "free", "writeReassigned"}
           \/ x.at \in {"tryAssign", "create", "free"} /\ x.from = Null
           \/ x.at = "free" /\ x.next = "end"
    PROVE  MayReplace(x)
  BY DEF MayReplace

\* A step that keeps the deliveries and what they replace.
LEMMA ChainsUnwritten ==
    ASSUME TypeOK, ChainInv, NEW r \in Requests, NEW x, MayReplace(x), Continue(r, x),
           DOMAIN deliveries' = DOMAIN deliveries,
           \A d \in DOMAIN deliveries : deliveries'[d].from = deliveries[d].from
    PROVE  StepChains
  BY MayReplaceNext DEF StepChains, FromKept

\* reassign goes on only with a delivery whose chain is short enough.
LEMMA ReassignGoes ==
    ASSUME NEW r, NEW o, Reassign(r, o)
    PROVE  \E x : MayReplace(x) /\ Continue(r, x)
<1>1. PICK d \in ActiveOf(o) :
          MayReassign(d) /\ Continue(r, [at |-> "writeReassigned", delivery |-> d])
  BY DEF Reassign
<1>2. MayReplace([at |-> "writeReassigned", delivery |-> d])
  BY <1>1 DEF MayReplace, Short, ActiveOf
<1>. QED
  BY <1>1, <1>2

\* An arriving request.
LEMMA StartChains ==
    ASSUME IInv, ChainInv, NEW r \in Requests, Start(r)
    PROVE  StepChains
<1>. DEFINE Goes == \E x : MayReplace(x) /\ Continue(r, x)
<1>1. UNCHANGED deliveries /\ Goes
  <2>1. ASSUME NEW o \in Orders, NEW target \in OrderStatuses, ReadOrder(r, o, target)
        PROVE  UNCHANGED deliveries /\ Goes
    <3>. DEFINE x == [at |-> "writeOrder", order |-> o, target |-> target,
                      seen |-> orderStatus[o]]
    <3>1. MayReplace(x)
      BY ReplacesNothing
    <3>. QED
      BY <2>1, <3>1 DEF ReadOrder, tables
  <2>2. ASSUME NEW o \in Orders, Assign(r, o)
        PROVE  UNCHANGED deliveries /\ Goes
    <3>1. MayReplace(TryAssign(o, Null)) /\ \A a : MayReplace(Create(o, a, Null))
      BY ReplacesNothing DEF TryAssign, Create
    <3>. QED
      BY <2>2, <3>1 DEF Assign, tables
  <2>3. ASSUME NEW o \in Orders, Reassign(r, o)
        PROVE  UNCHANGED deliveries /\ Goes
    BY <2>3, ReassignGoes DEF Reassign, tables
  <2>4. ASSUME NEW d \in DOMAIN deliveries, NEW target \in DeliveryStatuses,
               ReadDelivery(r, d, target)
        PROVE  UNCHANGED deliveries /\ Goes
    <3>. DEFINE x == [at |-> IF target = "delivered" THEN "settle" ELSE "writeDelivery",
                      delivery |-> d, target |-> target]
    <3>1. MayReplace(x)
      BY ReplacesNothing
    <3>. QED
      BY <2>4, <3>1 DEF ReadDelivery, tables
  <2>5. ASSUME NEW a \in Agents, GoOnline(r, a)
        PROVE  UNCHANGED deliveries /\ Goes
    <3>1. MayReplace([at |-> "redisOnline", agent |-> a])
      BY ReplacesNothing
    <3>. QED
      BY <2>5, <3>1 DEF GoOnline, tables
  <2>6. ASSUME NEW a \in Agents, GoOffline(r, a)
        PROVE  UNCHANGED deliveries /\ Goes
    <3>1. \A d : MayReplace([at |-> "offline", agent |-> a, delivery |-> d])
      BY ReplacesNothing
    <3>. QED
      BY <2>6, <3>1 DEF GoOffline, tables
  <2>7. ASSUME NEW a \in Agents, Ping(r, a)
        PROVE  UNCHANGED deliveries /\ Goes
    <3>1. MayReplace([at |-> "redisPing", agent |-> a])
      BY ReplacesNothing
    <3>. QED
      BY <2>7, <3>1 DEF Ping, tables
  <2>. HIDE DEF Goes
  <2>. QED
    BY <2>1, <2>2, <2>3, <2>4, <2>5, <2>6, <2>7 DEF Start
<1>. QED
  BY <1>1, ChainsUnwritten DEF IInv

\* A handler in flight that writes no delivery.
LEMMA QuietRunChains ==
    ASSUME IInv, ChainInv, NEW r \in Requests,
           \/ WriteOrder(r) \/ TryAutoAssign(r) \/ PickAgent(r)
           \/ MarkBusy(r) \/ MarkFree(r) \/ ReassignRefused(r) \/ PickOrder(r)
           \/ SettleTwice(r) \/ RedisOnline(r) \/ WriteOffline(r)
           \/ RedisOffline(r) \/ RedisPing(r) \/ Crash(r)
    PROVE  StepChains
<1>. DEFINE Goes == \E x : MayReplace(x) /\ Continue(r, x)
<1>t. req[r] \in Rests /\ MayReplace(req[r])
  BY DEF IInv, TypeOK, ChainInv
<1>e. ASSUME End(r) PROVE Goes
  <2>1. MayReplace(Idle)
    BY ReplacesNothing DEF Idle
  <2>. QED
    BY <1>e, <2>1 DEF End
<1>0. UNCHANGED deliveries
  BY DEF WriteOrder, TryAutoAssign, PickAgent, MarkBusy, MarkFree, ReassignRefused,
         PickOrder, SettleTwice, RedisOnline, WriteOffline, RedisOffline, RedisPing,
         Crash, tables
<1>. SUFFICES Goes
  BY <1>0, ChainsUnwritten DEF IInv
<1>1. CASE WriteOrder(r)
  <2>. DEFINE o == req[r].order
              cancel == [at |-> "cancelDeliveries", order |-> o]
              assign == [at |-> "autoAssign", order |-> o]
              toCancel == req[r].target = "cancelled" /\ req[r].seen = "assigned"
  <2>1. MayReplace(cancel) /\ MayReplace(assign)
    BY ReplacesNothing
  <2>2. CASE toCancel
    BY <1>1, <2>1, <2>2 DEF WriteOrder
  <2>3. CASE ~ toCancel /\ req[r].target = "ready"
    BY <1>1, <2>1, <2>3 DEF WriteOrder
  <2>4. CASE ~ toCancel /\ req[r].target # "ready"
    BY <1>1, <1>e, <2>4 DEF WriteOrder, End
  <2>. QED
    BY <2>2, <2>3, <2>4
<1>2. CASE TryAutoAssign(r)
  <2>1. MayReplace(TryAssign(req[r].order, Null))
    BY ReplacesNothing DEF TryAssign
  <2>. QED
    BY <1>2, <1>e, <2>1 DEF TryAutoAssign
<1>3. CASE PickAgent(r)
  <2>1. ASSUME NEW a PROVE MayReplace(Create(req[r].order, a, req[r].from))
    BY <1>3, <1>t DEF PickAgent, Create, MayReplace
  <2>. QED
    BY <1>3, <1>e, <2>1 DEF PickAgent
<1>4. CASE MarkFree(r)
  <2>1. req[r].next = "tryAssign" => MayReplace(TryAssign(req[r].order, req[r].from))
    BY <1>4, <1>t DEF MarkFree, TryAssign, MayReplace
  <2>. QED
    BY <1>4, <1>e, <2>1 DEF MarkFree
<1>5. CASE WriteOffline(r)
  <2>1. req[r] \in [at : {"offline"}, agent : Agents, delivery : FromIds]
    BY <1>5, <1>t DEF WriteOffline, Rests, Idle
  <2>2. MayReplace([req[r] EXCEPT !.at = "redisOffline"])
    BY <2>1, ReplacesNothing
  <2>. QED
    BY <1>5, <2>2 DEF WriteOffline
<1>6. CASE RedisOffline(r)
  <2>1. MayReplace([at |-> "reassign", order |-> deliveries[req[r].delivery].order])
    BY ReplacesNothing
  <2>. QED
    BY <1>6, <1>e, <2>1 DEF RedisOffline
<1>7. CASE \/ MarkBusy(r) \/ ReassignRefused(r) \/ PickOrder(r) \/ SettleTwice(r)
           \/ RedisOnline(r) \/ RedisPing(r) \/ Crash(r)
  BY <1>7, <1>e DEF MarkBusy, ReassignRefused, PickOrder, SettleTwice, RedisOnline,
                    RedisPing, Crash
<1>. QED
  BY <1>1, <1>2, <1>3, <1>4, <1>5, <1>6, <1>7

\* updateDeliveryStatus keeps what the delivery replaces.
LEMMA UpdateKeepsFrom ==
    ASSUME NEW d, NEW status, UpdateDelivery(d, status), IInv
    PROVE  /\ DOMAIN deliveries' = DOMAIN deliveries
           /\ \A e \in DOMAIN deliveries : deliveries'[e].from = deliveries[e].from
<1>1. \A e \in DOMAIN deliveries : deliveries[e] \in Rows
  BY RowFacts DEF IInv
<1>. QED
  BY <1>1 DEF UpdateDelivery, Rows

\* A handler in flight that writes deliveries.
LEMMA WritingRunChains ==
    ASSUME IInv, ChainInv, NEW r \in Requests,
           \/ CancelDeliveries(r) \/ WriteReassigned(r) \/ WriteDelivery(r) \/ Settle(r)
    PROVE  StepChains
<1>t. MayReplace(req[r])
  BY DEF ChainInv
<1>1. CASE CancelDeliveries(r)
  <2>1. /\ DOMAIN deliveries' = DOMAIN deliveries
        /\ \A e \in DOMAIN deliveries : deliveries'[e].from = deliveries[e].from
    <3>1. \A e \in DOMAIN deliveries : deliveries[e] \in Rows
      BY RowFacts DEF IInv
    <3>. QED
      BY <1>1, <3>1 DEF CancelDeliveries, Rows
  <2>2. MayReplace(Idle) /\ \A a, o : MayReplace(Free(a, "end", o, Null))
    BY ReplacesNothing DEF Idle, Free
  <2>3. \E x : MayReplace(x) /\ Continue(r, x)
    BY <1>1, <2>2 DEF CancelDeliveries, End
  <2>. QED
    BY <2>1, <2>3, ChainsUnwritten DEF IInv
<1>2. CASE WriteReassigned(r)
  <2>. DEFINE d == req[r].delivery
              x == Free(deliveries[d].agent, "tryAssign", deliveries[d].order, d)
  <2>1. MayReplace(x)
    BY <1>2, <1>t DEF WriteReassigned, Free, MayReplace
  <2>. QED
    BY <1>2, <2>1, UpdateKeepsFrom, ChainsUnwritten DEF WriteReassigned, IInv
<1>3. CASE WriteDelivery(r)
  <2>. DEFINE d == req[r].delivery
              o == deliveries[d].order
              target == req[r].target
              free == Free(deliveries[d].agent,
                           IF MayReassign(d) THEN "tryAssign" ELSE "end", o, d)
              pick == [at |-> "pickOrder", order |-> o]
  <2>1. MayReplace(free)
    <3>1. d \in DOMAIN deliveries
      BY <1>3 DEF WriteDelivery, IInv, RestOK
    <3>. QED
      BY <3>1 DEF Free, MayReplace, Short
  <2>2. MayReplace(pick) /\ MayReplace(Idle)
    BY ReplacesNothing DEF Idle
  <2>3. \E x : MayReplace(x) /\ Continue(r, x)
    <3>1. CASE target = "picked"
      BY <1>3, <2>2, <3>1 DEF WriteDelivery
    <3>2. CASE target = "rejected"
      BY <1>3, <2>1, <3>2 DEF WriteDelivery
    <3>3. CASE target \notin {"picked", "rejected"}
      BY <1>3, <2>2, <3>3 DEF WriteDelivery
    <3>. QED
      BY <3>1, <3>2, <3>3
  <2>4. UpdateDelivery(d, target)
    BY <1>3 DEF WriteDelivery
  <2>. QED
    BY <2>3, <2>4, UpdateKeepsFrom, ChainsUnwritten DEF IInv
<1>4. CASE Settle(r)
  <2>. DEFINE d == req[r].delivery
              x == Free(deliveries[d].agent, "end", deliveries[d].order, Null)
  <2>1. MayReplace(x)
    BY ReplacesNothing DEF Free
  <2>. QED
    BY <1>4, <2>1, UpdateKeepsFrom, ChainsUnwritten DEF Settle, IInv
<1>. QED
  BY <1>1, <1>2, <1>3, <1>4

\* createAssignment adds one delivery to a chain that is short enough.
LEMMA CreateChains ==
    ASSUME IInv, ChainInv, NEW r \in Requests, CreateAssignment(r)
    PROVE  StepChains
<1>1. PICK row :
          /\ deliveries' = Append(deliveries, row)
          /\ row.from = req[r].from
  BY DEF CreateAssignment
<1>2. /\ req[r].at = "create" /\ Continue(r, [at |-> "busy", agent |-> req[r].agent])
  BY DEF CreateAssignment
<1>3. /\ deliveries \in Seq(Rows) /\ Len(deliveries) \in Nat
      /\ DOMAIN deliveries = 1..Len(deliveries)
  BY RowFacts, BoundsAssumption DEF IInv, TypeOK
<1>4. /\ DOMAIN deliveries' = 1..(Len(deliveries) + 1)
      /\ \A d \in DOMAIN deliveries : deliveries'[d] = deliveries[d]
      /\ deliveries'[Len(deliveries) + 1] = row
  BY <1>1, <1>3
<1>5. FromKept
  BY <1>3, <1>4 DEF FromKept
<1>6. row.from = Null \/ Short(row.from)
  BY <1>1, <1>2 DEF ChainInv, MayReplace
<1>7. \A q \in Requests : MayReplace(req'[q])
  <2>1. MayReplace([at |-> "busy", agent |-> req[r].agent])
    BY ReplacesNothing
  <2>. QED
    BY <1>2, <2>1, MayReplaceNext DEF IInv
<1>8. \A d \in DOMAIN deliveries' \ DOMAIN deliveries : deliveries'[d] = row
  BY <1>3, <1>4
<1>. QED
  BY <1>5, <1>6, <1>7, <1>8 DEF StepChains

\* Every step.
LEMMA NextChains ==
    ASSUME IInv, ChainInv, [Next]_vars
    PROVE  StepChains
<1>1. ASSUME NEW r \in Requests, Start(r) \/ Run(r) \/ Crash(r)
      PROVE  StepChains
  <2>1. ASSUME NEW o \in Orders, Reassign(r, o) PROVE StepChains
    <3>1. UNCHANGED deliveries
      BY <2>1 DEF Reassign, tables
    <3>. QED
      BY <2>1, <3>1, ReassignGoes, ChainsUnwritten DEF IInv
  <2>. QED
    BY <1>1, <2>1, StartChains, QuietRunChains, WritingRunChains, CreateChains DEF Run
<1>2. CASE UNCHANGED vars
  BY <1>2 DEF vars, tables, StepChains, FromKept, ChainInv
<1>. QED
  BY <1>1, <1>2 DEF Next

\* A chain is as long as the one it goes on, and one more, after a step too.
ChainsCount ==
    \A d \in DOMAIN deliveries : \A e :
        deliveries[d].from = e => Chain(d) = IF e = Null THEN 1 ELSE 1 + Chain(e)

LEMMA CountsNext == IInv' => ChainsCount'
<1>1. IInv => ChainsCount
  BY ChainCounts DEF ChainsCount
<1>. QED
  BY <1>1, PTL

\* The bound is inductive: a delivery is added where the chain was short enough,
\* and chains never change.
LEMMA ChainInvKept ==
    ASSUME IInv, IInv', ChainInv, [Next]_vars
    PROVE  ChainInv'
<1>1. StepChains
  BY NextChains
<1>2. \A d \in DOMAIN deliveries : Chain(d)' = Chain(d)
  BY <1>1, ChainKept DEF StepChains
<1>3. \A d \in DOMAIN deliveries : Chain(d) \in Nat /\ d \in DOMAIN deliveries'
  BY <1>1, ChainCounts DEF StepChains, FromKept
<1>4. ASSUME NEW d \in DOMAIN deliveries' PROVE Chain(d)' <= MaxAttempts
  <2>1. CASE d \in DOMAIN deliveries
    BY <1>2, <2>1 DEF ChainInv
  <2>2. CASE d \notin DOMAIN deliveries
    <3>1. PICK e : deliveries'[d].from = e
      OBVIOUS
    <3>2. Chain(d)' = IF e = Null THEN 1 ELSE 1 + Chain(e)'
      BY <3>1, CountsNext DEF ChainsCount
    <3>3. CASE e = Null
      BY <3>2, <3>3, BoundsAssumption
    <3>4. CASE e # Null
      <4>1. e \in DOMAIN deliveries /\ Chain(e) < MaxAttempts
        BY <1>1, <2>2, <3>1, <3>4 DEF StepChains, Short, MayReassign
      <4>2. Chain(e)' = Chain(e) /\ Chain(e) \in Nat
        BY <1>2, <1>3, <4>1
      <4>. QED
        BY <3>2, <3>4, <4>1, <4>2, BoundsAssumption
    <3>. QED
      BY <3>3, <3>4
  <2>. QED
    BY <2>1, <2>2
<1>5. ASSUME NEW r \in Requests PROVE MayReplace(req[r])'
  <2>1. PICK x : x = req'[r]
    OBVIOUS
  <2>2. MayReplace(x)
    BY <1>1, <2>1 DEF StepChains
  <2>3. ASSUME NEW d, Short(d) PROVE Short(d)'
    BY <1>2, <1>3, <2>3 DEF Short, MayReassign
  <2>4. MayReplace(x)'
    BY <2>2, <2>3 DEF MayReplace
  <2>. QED
    BY <2>1, <2>4 DEF MayReplace
<1>. QED
  BY <1>4, <1>5 DEF ChainInv

\* However the handlers overlap, no order is passed on more often in a row than
\* maxReassignmentAttempts allows, and countReassignmentChain walks back along
\* one order (ChainsBounded of the runs).
THEOREM ChainsStayBounded == Spec => []ChainsBounded
<1>1. Init => ChainInv
  BY ReplacesNothing DEF Init, ChainInv, Idle
<1>2. IInv /\ IInv' /\ ChainInv /\ [Next]_vars => ChainInv'
  BY ChainInvKept
<1>3. IInv /\ ChainInv => ChainsBounded
  BY DEF IInv, ChainInv, ChainsBounded
<1>4. Spec => []IInv
  BY Invariance
<1>. QED
  BY <1>1, <1>2, <1>3, <1>4, PTL DEF Spec

-----------------------------------------------------------------------------
(* Handlers that do not overlap. *)

\* One request at a time, Redis is there and nobody dies.
Serial == (\E r : Requests = {r}) /\ ~ Failures

\* An active delivery is the last of its order.
ActiveIsLast ==
    \A d \in DOMAIN deliveries : Active(d) =>
        \A e \in DOMAIN deliveries : deliveries[e].order = deliveries[d].order => e <= d

\* A settled delivery's order is delivered, and no other of it was settled.
SettledFinal ==
    /\ \A d \in settled : orderStatus[deliveries[d].order] = "delivered"
    /\ \A d, e \in settled : deliveries[d].order = deliveries[e].order => d = e

\* The last delivery of an order was rejected, or taken off its agent.
GivenUp(o) ==
    \E d \in DOMAIN deliveries :
        /\ deliveries[d].order = o
        /\ deliveries[d].status \in {"rejected", "reassigned"}
        /\ \A e \in DOMAIN deliveries : deliveries[e].order = o => e <= d

\* An order and its deliveries agree.
OrderOK(o) ==
    /\ \A d \in ActiveOf(o) :
          orderStatus[o] = IF deliveries[d].status = "picked" THEN "picked"
                                                              ELSE "assigned"
    /\ Unmanned(o) => GivenUp(o)

\* Order o waits for the next step of handler x to agree with its delivery.
Pending(x, o) == x.at \in {"cancelDeliveries", "pickOrder"} /\ x.order = o

\* The handler looks for another agent for its order.
Searching(x) ==
    \/ x.at \in {"tryAssign", "create"}
    \/ x.at = "free" /\ x.next = "tryAssign"

\* What the handler in flight has read is still so.
Fresh(x) ==
    /\ x.at = "writeOrder" =>
          /\ x.seen = orderStatus[x.order]
          /\ \E actor \in Staff : TransitionAllowed(x.seen, x.target, actor)
    /\ x.at = "cancelDeliveries" => orderStatus[x.order] = "cancelled"
    /\ Searching(x) => ActiveOf(x.order) = {} /\ orderStatus[x.order] # "delivered"
    /\ x.at = "busy" => ActiveOfAgent(x.agent) # {}
    /\ x.at = "writeReassigned" => Active(x.delivery)
    /\ x.at = "writeDelivery" =>
          /\ <<deliveries[x.delivery].status, x.target>> \in DELIVERY_TRANSITIONS
          /\ x.target # "delivered"
    /\ x.at = "settle" => deliveries[x.delivery].status = "picked"
    /\ x.at = "pickOrder" =>
          /\ orderStatus[x.order] # "delivered"
          /\ \E d \in ActiveOf(x.order) : deliveries[d].status = "picked"

\* Every order and every busy agent is accounted for, by a delivery or by the
\* next step of handler x.
Accounted(x) ==
    /\ \A o \in Orders : Pending(x, o) \/ OrderOK(o)
    /\ \A a \in busy : ActiveOfAgent(a) # {} \/ (x.at = "free" /\ x.agent = a)

\* The inductive invariant of handlers that do not overlap.
SInv ==
    /\ IInv
    /\ ActiveIsLast
    /\ SettledFinal
    /\ \A r \in Requests : Fresh(req[r]) /\ Accounted(req[r])

\* What staff move is not on its way or delivered, unless it is cancelled.
LEMMA StaffMoves ==
    ASSUME NEW from, NEW to, NEW actor \in Staff,
           TransitionAllowed(from, to, actor)
    PROVE  /\ from \notin {"picked", "delivered"}
           /\ from = "assigned" => to = "cancelled"
           /\ to \notin {"assigned", "picked", "delivered"}
  BY DEF TransitionAllowed, TRANSITIONS, Rule, Staff

\* An order has one active delivery at most.
LEMMA OneActive ==
    ASSUME SInv, NEW o, NEW d \in ActiveOf(o), NEW e \in ActiveOf(o)
    PROVE  d = e
<1>1. d <= e /\ e <= d
  BY DEF SInv, ActiveIsLast, ActiveOf
<1>2. d \in Nat /\ e \in Nat
  BY RowFacts, BoundsAssumption DEF SInv, IInv, ActiveOf, Ids
<1>. QED
  BY <1>1, <1>2

\* An order agrees with its deliveries as long as both are left alone.
LEMMA Untouched ==
    ASSUME NEW o, OrderOK(o), orderStatus'[o] = orderStatus[o],
           \A e : (e \in DOMAIN deliveries' /\ deliveries'[e].order = o)
                     <=> (e \in DOMAIN deliveries /\ deliveries[e].order = o),
           \A e \in DOMAIN deliveries :
               deliveries[e].order = o => deliveries'[e].status = deliveries[e].status
    PROVE  OrderOK(o)'
<1>1. /\ ActiveOf(o)' = ActiveOf(o)
      /\ \A d \in ActiveOf(o) : deliveries'[d].status = deliveries[d].status
  BY DEF ActiveOf, Active
<1>2. GivenUp(o) => GivenUp(o)'
  BY DEF GivenUp
<1>. QED
  BY <1>1, <1>2 DEF OrderOK, Unmanned

\* The handler in flight goes on with y.
LEMMA Alone ==
    ASSUME TypeOK, NEW r, Requests = {r}, NEW y, Continue(r, y),
           IInv', ActiveIsLast', SettledFinal', Fresh(y)', Accounted(y)'
    PROVE  SInv'
<1>1. req'[r] = y
  BY DEF TypeOK, Continue
<1>2. Fresh(req[r])' /\ Accounted(req[r])'
  BY <1>1 DEF Fresh, Searching, Accounted, Pending
<1>. QED
  BY <1>2 DEF SInv

-----------------------------------------------------------------------------
(* Steps that write no table. *)

\* The handler has read something, and goes on with what is still so.
LEMMA SerialReading ==
    ASSUME SInv, IInv', NEW r, Requests = {r}, NEW y, Continue(r, y), Fresh(y),
           UNCHANGED <<orderStatus, deliveries, settled>>,
           req[r].at \notin {"cancelDeliveries", "pickOrder"},
           \A a \in busy' : ActiveOfAgent(a) # {} \/ (y.at = "free" /\ y.agent = a)
    PROVE  SInv'
<1>1. TypeOK /\ ActiveIsLast' /\ SettledFinal' /\ Fresh(y)'
  BY DEF SInv, IInv, ActiveIsLast, Active, SettledFinal, Fresh, Searching, ActiveOf,
         ActiveOfAgent
<1>2. \A o \in Orders : OrderOK(o)
  BY DEF SInv, Accounted, Pending
<1>3. Accounted(y)'
  BY <1>2 DEF Accounted, OrderOK, Unmanned, GivenUp, ActiveOf, Active, ActiveOfAgent
<1>. QED
  BY <1>1, <1>3, Alone

\* Without a handler in flight every busy agent has a delivery.
LEMMA BusyBacked ==
    ASSUME SInv, NEW r \in Requests, req[r].at # "free"
    PROVE  \A a \in busy : ActiveOfAgent(a) # {}
  BY DEF SInv, Accounted

\* Any active delivery of the order can be reassigned.
LEMMA SerialReassign ==
    ASSUME SInv, IInv', NEW r, Requests = {r}, NEW o \in Orders, Reassign(r, o)
    PROVE  SInv'
<1>. USE DEF presence, tables
<1>1. PICK d \in ActiveOf(o) : Continue(r, [at |-> "writeReassigned", delivery |-> d])
  BY DEF Reassign
<1>. DEFINE y == [at |-> "writeReassigned", delivery |-> d]
<1>2. Fresh(y) /\ y.at # "free"
  BY DEF Fresh, Searching, ActiveOf
<1>3. req[r].at \notin {"cancelDeliveries", "pickOrder", "free"}
  BY DEF Reassign, Idle
<1>4. UNCHANGED <<orderStatus, deliveries, settled, busy>>
  BY DEF Reassign, history
<1>. HIDE DEF y
<1>. QED
  BY <1>1, <1>2, <1>3, <1>4, BusyBacked, SerialReading DEF y

\* A request arrives and reads.
LEMMA SerialStart ==
    ASSUME SInv, IInv', NEW r, Requests = {r}, Start(r)
    PROVE  SInv'
<1>. SUFFICES ASSUME \A o \in Orders : ~ Reassign(r, o)
              PROVE  SInv'
  BY SerialReassign
<1>1. /\ req[r] = Idle
      /\ UNCHANGED <<orderStatus, deliveries, settled, busy>>
  BY DEF Start, ReadOrder, Assign, ReadDelivery, GoOnline, GoOffline, Ping,
         presence, tables, history
<1>2. PICK y : Continue(r, y) /\ Fresh(y)
  <2>1. ASSUME NEW o \in Orders, NEW target \in OrderStatuses, ReadOrder(r, o, target)
        PROVE  \E y : Continue(r, y) /\ Fresh(y)
    <3>. DEFINE y == [at |-> "writeOrder", order |-> o, target |-> target,
                      seen |-> orderStatus[o]]
    <3>1. Continue(r, y) /\ Fresh(y)
      BY <2>1 DEF ReadOrder, Fresh, Searching
    <3>. QED
      BY <3>1
  <2>2. ASSUME NEW o \in Orders, Assign(r, o)
        PROVE  \E y : Continue(r, y) /\ Fresh(y)
    <3>1. ActiveOf(o) = {} /\ orderStatus[o] # "delivered"
      BY <2>2 DEF Assign, Assignable
    <3>2. Fresh(TryAssign(o, Null)) /\ \A a : Fresh(Create(o, a, Null))
      BY <3>1 DEF Fresh, Searching, TryAssign, Create
    <3>. QED
      BY <2>2, <3>2 DEF Assign
  <2>3. ASSUME NEW d \in DOMAIN deliveries, NEW target \in DeliveryStatuses,
               ReadDelivery(r, d, target)
        PROVE  \E y : Continue(r, y) /\ Fresh(y)
    <3>. DEFINE y == [at |-> IF target = "delivered" THEN "settle" ELSE "writeDelivery",
                      delivery |-> d, target |-> target]
    <3>1. /\ <<deliveries[d].status, target>> \in DELIVERY_TRANSITIONS
          /\ target = "delivered" => deliveries[d].status = "picked"
      BY <2>3, AgentTargets DEF ReadDelivery
    <3>2. Continue(r, y) /\ Fresh(y)
      BY <2>3, <3>1 DEF ReadDelivery, Fresh, Searching
    <3>. QED
      BY <3>2
  <2>4. ASSUME NEW a \in Agents, GoOnline(r, a) \/ GoOffline(r, a) \/ Ping(r, a)
        PROVE  \E y : Continue(r, y) /\ Fresh(y)
    <3>1. \A y : y.at \in {"redisOnline", "offline", "redisPing"} => Fresh(y)
      BY DEF Fresh, Searching
    <3>2. \E d : \/ Continue(r, [at |-> "redisOnline", agent |-> a])
                 \/ Continue(r, [at |-> "offline", agent |-> a, delivery |-> d])
                 \/ Continue(r, [at |-> "redisPing", agent |-> a])
      BY <2>4 DEF GoOnline, GoOffline, Ping
    <3>. QED
      BY <3>1, <3>2
  <2>. QED
    BY <2>1, <2>2, <2>3, <2>4 DEF Start
<1>3. req[r].at \notin {"cancelDeliveries", "pickOrder", "free"}
  BY <1>1 DEF Idle
<1>. QED
  BY <1>1, <1>2, <1>3, BusyBacked, SerialReading

\* The handler in flight reads, or writes Redis or presence.
LEMMA SerialQuietRun ==
    ASSUME SInv, IInv', NEW r, Requests = {r}, ~ Failures,
           \/ TryAutoAssign(r) \/ PickAgent(r) \/ MarkBusy(r) \/ MarkFree(r)
           \/ ReassignRefused(r) \/ SettleTwice(r)
           \/ RedisOnline(r) \/ WriteOffline(r) \/ RedisOffline(r) \/ RedisPing(r)
    PROVE  SInv'
<1>. DEFINE x == req[r]
<1>1. Fresh(x) /\ Accounted(x)
  BY DEF SInv
<1>2. /\ x.at \notin {"cancelDeliveries", "pickOrder"}
      /\ UNCHANGED <<orderStatus, deliveries, settled>>
  BY DEF TryAutoAssign, PickAgent, MarkBusy, MarkFree, ReassignRefused, SettleTwice,
         RedisOnline, WriteOffline, RedisOffline, RedisPing, tables, history
<1>3. \A a \in busy' : ActiveOfAgent(a) # {}
  <2>1. CASE MarkBusy(r)
    BY <1>1, <2>1 DEF MarkBusy, Fresh, Accounted
  <2>2. CASE MarkFree(r)
    BY <1>1, <2>2 DEF MarkFree, Accounted
  <2>3. CASE ~ MarkBusy(r) /\ ~ MarkFree(r)
    <3>1. busy' \subseteq busy /\ x.at # "free"
      BY <2>3 DEF TryAutoAssign, PickAgent, ReassignRefused, SettleTwice, RedisOnline,
                  WriteOffline, RedisOffline, RedisPing, presence
    <3>. QED
      BY <3>1, BusyBacked
  <2>. QED
    BY <2>1, <2>2, <2>3
<1>4. PICK y : Continue(r, y) /\ Fresh(y)
  <2>1. Fresh(Idle)
    BY DEF Fresh, Searching, Idle
  <2>2. CASE TryAutoAssign(r)
    <3>1. CASE Assignable(x.order)
      <4>1. Fresh(TryAssign(x.order, Null))
        BY <3>1 DEF Assignable, Fresh, Searching, TryAssign
      <4>. QED
        BY <2>2, <3>1, <4>1 DEF TryAutoAssign
    <3>2. CASE ~ Assignable(x.order)
      BY <2>1, <2>2, <3>2 DEF TryAutoAssign, End
    <3>. QED
      BY <3>1, <3>2
  <2>3. CASE PickAgent(r)
    <3>1. \A a : Fresh(Create(x.order, a, x.from))
      BY <1>1, <2>3 DEF PickAgent, Fresh, Searching, Create
    <3>. QED
      BY <2>1, <2>3, <3>1 DEF PickAgent, End
  <2>4. CASE MarkFree(r)
    <3>1. CASE x.next = "tryAssign"
      <4>1. Fresh(TryAssign(x.order, x.from))
        BY <1>1, <2>4, <3>1 DEF MarkFree, Fresh, Searching, TryAssign
      <4>. QED
        BY <2>4, <3>1, <4>1 DEF MarkFree
    <3>2. CASE x.next # "tryAssign"
      BY <2>1, <2>4, <3>2 DEF MarkFree, End
    <3>. QED
      BY <3>1, <3>2
  <2>5. CASE WriteOffline(r)
    <3>1. x \in Rests /\ x.at = "offline"
      BY <2>5 DEF SInv, IInv, TypeOK, WriteOffline
    <3>2. x \in [at : {"offline"}, agent : Agents, delivery : FromIds]
      BY <3>1 DEF Rests, Idle
    <3>3. [x EXCEPT !.at = "redisOffline"].at = "redisOffline"
      BY <3>2
    <3>4. \A y : y.at = "redisOffline" => Fresh(y)
      BY DEF Fresh, Searching
    <3>. QED
      BY <2>5, <3>3, <3>4 DEF WriteOffline
  <2>6. CASE RedisOffline(r)
    <3>1. \A o : Fresh([at |-> "reassign", order |-> o])
      BY DEF Fresh, Searching
    <3>. QED
      BY <2>1, <2>6, <3>1 DEF RedisOffline, End
  <2>. QED
    BY <2>1, <2>2, <2>3, <2>4, <2>5, <2>6
       DEF MarkBusy, ReassignRefused, SettleTwice, RedisOnline, RedisPing, End
<1>. HIDE DEF x
<1>. QED
  BY <1>2, <1>3, <1>4, SerialReading DEF x

-----------------------------------------------------------------------------
(* Steps that write tables. *)

\* An order that staff move to has no delivery, or is about to cancel it.
LEMMA SerialWriteOrder ==
    ASSUME SInv, IInv', NEW r, Requests = {r}, WriteOrder(r)
    PROVE  SInv'
<1>. USE DEF presence, history
<1>1. PICK o \in Orders, target \in OrderStatuses, seen \in OrderStatuses :
          /\ o = req[r].order /\ target = req[r].target /\ seen = req[r].seen
          /\ seen = orderStatus[o]
          /\ \E actor \in Staff : TransitionAllowed(seen, target, actor)
  BY RestTyped DEF SInv, IInv, TypeOK, WriteOrder, Fresh
<1>2. /\ seen \notin {"picked", "delivered"}
      /\ seen = "assigned" => target = "cancelled"
      /\ target \notin {"assigned", "picked", "delivered"}
  BY <1>1, StaffMoves
<1>3. /\ orderStatus' = [orderStatus EXCEPT ![o] = target]
      /\ UNCHANGED <<deliveries, settled, busy>>
      /\ req[r].at = "writeOrder"
      /\ TypeOK
  BY <1>1 DEF WriteOrder, SInv, IInv
<1>4. PICK y : /\ Continue(r, y)
               /\ \/ y.at = "cancelDeliveries" /\ y.order = o
                     /\ target = "cancelled" /\ seen = "assigned"
                  \/ y.at \in {"autoAssign", "idle"} /\ seen # "assigned"
  <2>1. CASE target = "cancelled" /\ seen = "assigned"
    BY <1>1, <2>1 DEF WriteOrder
  <2>2. CASE ~ (target = "cancelled" /\ seen = "assigned")
    <3>1. \/ Continue(r, [at |-> "autoAssign", order |-> o])
          \/ Continue(r, Idle)
      BY <1>1, <2>2 DEF WriteOrder
    <3>2. seen # "assigned"
      BY <1>2, <2>2
    <3>. QED
      BY <3>1, <3>2 DEF Idle
  <2>. QED
    BY <2>1, <2>2
<1>5. ActiveIsLast'
  BY <1>3 DEF SInv, ActiveIsLast, Active
<1>6. SettledFinal'
  <2>1. \A d \in settled : deliveries[d].order # o
    BY <1>1, <1>2 DEF SInv, SettledFinal
  <2>2. \A d \in settled : deliveries[d].order \in Orders
    BY <1>3, RowFacts DEF TypeOK
  <2>3. \A p \in Orders \ {o} : orderStatus'[p] = orderStatus[p]
    BY <1>3 DEF TypeOK
  <2>. QED
    BY <1>3, <2>1, <2>2, <2>3 DEF SInv, SettledFinal
<1>7. Fresh(y)'
  <2>1. orderStatus'[o] = target
    BY <1>3 DEF TypeOK
  <2>. QED
    BY <1>4, <2>1 DEF Fresh, Searching
<1>8. \A p \in Orders : OrderOK(p)
  BY <1>3 DEF SInv, Accounted, Pending
<1>9. \A p \in Orders : Pending(y, p) \/ OrderOK(p)'
  <2>1. ASSUME NEW p \in Orders, p # o
        PROVE  OrderOK(p)'
    <3>1. orderStatus'[p] = orderStatus[p]
      BY <1>3, <2>1 DEF TypeOK
    <3>. QED
      BY <1>3, <1>8, <3>1, Untouched
  <2>2. CASE seen = "assigned"
    BY <1>4, <2>1, <2>2 DEF Pending
  <2>3. CASE seen # "assigned"
    <3>1. ActiveOf(o) = {}
      BY <1>1, <1>2, <1>8, <2>3 DEF OrderOK
    <3>2. orderStatus'[o] = target /\ ActiveOf(o)' = {}
      BY <1>3, <3>1 DEF TypeOK, ActiveOf, Active
    <3>3. OrderOK(o)'
      BY <1>2, <3>2 DEF OrderOK, Unmanned
    <3>. QED
      BY <2>1, <3>3
  <2>. QED
    BY <2>2, <2>3
<1>10. Accounted(y)'
  <2>1. \A a \in busy : ActiveOfAgent(a) # {}
    BY <1>3, BusyBacked
  <2>. QED
    BY <1>3, <1>9, <2>1 DEF Accounted, Pending, ActiveOfAgent, Active
<1>. QED
  BY <1>3, <1>4, <1>5, <1>6, <1>7, <1>10, Alone

\* The steps of a delivery's status change that no handler sees but its own.
LEMMA StatusWritten ==
    ASSUME SInv, NEW d \in DOMAIN deliveries, Active(d), NEW status,
           UpdateDelivery(d, status),
           NEW o, o = deliveries[d].order, NEW a, a = deliveries[d].agent
    PROVE  /\ DOMAIN deliveries' = DOMAIN deliveries
           /\ \A e \in DOMAIN deliveries :
                 /\ deliveries'[e].order = deliveries[e].order
                 /\ deliveries'[e].agent = deliveries[e].agent
                 /\ deliveries'[e].status = IF e = d THEN status ELSE deliveries[e].status
           /\ ActiveIsLast'
           /\ \A p : /\ p # o /\ OrderOK(p)
                     /\ orderStatus'[p] = orderStatus[p]
                     => OrderOK(p)'
           /\ ActiveOf(o)' = IF status \in ACTIVE_STATUSES THEN {d} ELSE {}
           /\ \A b : ActiveOfAgent(b) # {} =>
                 \/ ActiveOfAgent(b)' # {}
                 \/ status \notin ACTIVE_STATUSES /\ b = a
           /\ status \in {"rejected", "reassigned"} => GivenUp(o)'
<1>1. \A e \in DOMAIN deliveries : deliveries[e] \in Rows
  BY RowFacts DEF SInv, IInv
<1>2. DOMAIN deliveries' = DOMAIN deliveries
  BY DEF UpdateDelivery
<1>3. \A e \in DOMAIN deliveries :
         /\ deliveries'[e].order = deliveries[e].order
         /\ deliveries'[e].agent = deliveries[e].agent
         /\ deliveries'[e].status = IF e = d THEN status ELSE deliveries[e].status
  BY <1>1 DEF UpdateDelivery, Rows
<1>4. \A e \in DOMAIN deliveries : deliveries[e].order = o => e <= d
  BY DEF SInv, ActiveIsLast
<1>5. ActiveIsLast'
  <2>. SUFFICES ASSUME NEW c \in DOMAIN deliveries,
                       deliveries'[c].status \in ACTIVE_STATUSES,
                       NEW e \in DOMAIN deliveries,
                       deliveries[e].order = deliveries[c].order
                PROVE  e <= c
    BY <1>2, <1>3 DEF ActiveIsLast, Active
  <2>1. CASE c = d
    BY <1>4, <2>1
  <2>2. CASE c # d
    BY <1>3, <2>2 DEF SInv, ActiveIsLast, Active
  <2>. QED
    BY <2>1, <2>2
<1>6. ASSUME NEW p, p # o, OrderOK(p), orderStatus'[p] = orderStatus[p]
      PROVE  OrderOK(p)'
  BY <1>2, <1>3, <1>6, Untouched
<1>7. \A e \in ActiveOf(o) : e = d
  BY OneActive DEF ActiveOf
<1>8. \A e : e \in ActiveOf(o)' <=> e = d /\ status \in ACTIVE_STATUSES
  BY <1>2, <1>3, <1>7 DEF ActiveOf, Active
<1>9. ASSUME NEW b, ActiveOfAgent(b) # {}
      PROVE  \/ ActiveOfAgent(b)' # {}
             \/ status \notin ACTIVE_STATUSES /\ b = a
  <2>1. PICK e \in ActiveOfAgent(b) : TRUE
    BY <1>9
  <2>2. e \in ActiveOfAgent(b)' \/ (e = d /\ status \notin ACTIVE_STATUSES)
    BY <1>2, <1>3, <2>1 DEF ActiveOfAgent, Active
  <2>. QED
    BY <2>1, <2>2 DEF ActiveOfAgent
<1>10. status \in {"rejected", "reassigned"} => GivenUp(o)'
  BY <1>2, <1>3, <1>4 DEF GivenUp
<1>. QED
  BY <1>2, <1>3, <1>5, <1>6, <1>8, <1>9, <1>10

\* The delivery of a cancelled order is gone.
LEMMA SerialCancelDeliveries ==
    ASSUME SInv, IInv', NEW r, Requests = {r}, CancelDeliveries(r)
    PROVE  SInv'
<1>. USE DEF presence, history
<1>1. PICK o \in Orders : o = req[r].order
  BY RestTyped DEF SInv, IInv, TypeOK, CancelDeliveries
<1>2. /\ orderStatus[o] = "cancelled"
      /\ req[r].at = "cancelDeliveries"
      /\ UNCHANGED <<orderStatus, settled, busy>>
      /\ TypeOK
  BY <1>1 DEF SInv, IInv, Fresh, CancelDeliveries
<1>3. \A e \in DOMAIN deliveries : deliveries[e] \in Rows
  BY <1>2, RowFacts
<1>4. /\ DOMAIN deliveries' = DOMAIN deliveries
      /\ \A e \in DOMAIN deliveries :
            /\ deliveries'[e].order = deliveries[e].order
            /\ deliveries'[e].agent = deliveries[e].agent
            /\ deliveries'[e].status = IF e \in ActiveOf(o) THEN "cancelled"
                                                           ELSE deliveries[e].status
  BY <1>1, <1>3 DEF CancelDeliveries, Rows
<1>5. PICK y : /\ Continue(r, y)
               /\ \/ y = Idle /\ ActiveOf(o) = {}
                  \/ \E d \in ActiveOf(o) : y = Free(deliveries[d].agent, "end", o, Null)
  BY <1>1 DEF CancelDeliveries, End
<1>6. ActiveIsLast'
  <2>1. \A e \in DOMAIN deliveries : Active(e)' => Active(e)
    BY <1>4 DEF Active, ACTIVE_STATUSES
  <2>. QED
    BY <1>4, <2>1 DEF SInv, ActiveIsLast
<1>7. SettledFinal'
  BY <1>2, <1>4 DEF SInv, IInv, TypeOK, SettledFinal
<1>8. Fresh(y)'
  BY <1>5 DEF Fresh, Searching, Free, Idle
<1>9. \A p \in Orders : OrderOK(p)'
  <2>1. ASSUME NEW p \in Orders, p # o
        PROVE  OrderOK(p)'
    <3>1. OrderOK(p)
      BY <1>1, <2>1 DEF SInv, Accounted, Pending
    <3>2. \A e \in DOMAIN deliveries :
             deliveries[e].order = p => deliveries'[e].status = deliveries[e].status
      BY <1>4, <2>1 DEF ActiveOf
    <3>. QED
      BY <1>2, <1>4, <3>1, <3>2, Untouched
  <2>2. OrderOK(o)'
    <3>1. ActiveOf(o)' = {}
      BY <1>4 DEF ActiveOf, Active, ACTIVE_STATUSES
    <3>. QED
      BY <1>2, <3>1 DEF OrderOK, Unmanned
  <2>. QED
    BY <2>1, <2>2
<1>10. \A a \in busy : ActiveOfAgent(a)' # {} \/ (y.at = "free" /\ y.agent = a)
  <2>. SUFFICES ASSUME NEW a \in busy
                PROVE  ActiveOfAgent(a)' # {} \/ (y.at = "free" /\ y.agent = a)
    OBVIOUS
  <2>1. PICK e \in ActiveOfAgent(a) : TRUE
    BY <1>2, BusyBacked
  <2>2. CASE e \in ActiveOf(o)
    <3>1. y = Free(deliveries[e].agent, "end", o, Null)
      BY <1>5, <2>2, OneActive
    <3>. QED
      BY <2>1, <3>1 DEF Free, ActiveOfAgent
  <2>3. CASE e \notin ActiveOf(o)
    BY <1>4, <2>1, <2>3 DEF ActiveOfAgent, Active
  <2>. QED
    BY <2>2, <2>3
<1>11. Accounted(y)'
  BY <1>2, <1>9, <1>10 DEF Accounted
<1>. QED
  BY <1>2, <1>5, <1>6, <1>7, <1>8, <1>11, Alone

\* A new delivery is its order's only active one.
LEMMA SerialCreateAssignment ==
    ASSUME SInv, IInv', NEW r, Requests = {r}, CreateAssignment(r)
    PROVE  SInv'
<1>. USE DEF presence, history
<1>1. PICK o \in Orders, a \in Agents, from \in FromIds :
         o = req[r].order /\ a = req[r].agent /\ from = req[r].from
  BY RestTyped DEF SInv, IInv, TypeOK, CreateAssignment
<1>. DEFINE row == [order |-> o, agent |-> a, status |-> "assigned", from |-> from]
            y == [at |-> "busy", agent |-> a]
<1>2. /\ ActiveOf(o) = {} /\ orderStatus[o] # "delivered"
      /\ req[r].at = "create"
      /\ TypeOK
  BY <1>1 DEF SInv, IInv, Fresh, Searching, CreateAssignment
<1>3. /\ deliveries' = Append(deliveries, row)
      /\ orderStatus' = [orderStatus EXCEPT ![o] = "assigned"]
      /\ UNCHANGED <<settled, busy>>
      /\ Continue(r, y)
  BY <1>1 DEF CreateAssignment
<1>4. /\ row \in Rows
      /\ row.order = o /\ row.agent = a /\ row.status = "assigned"
      /\ y.at = "busy" /\ y.agent = a
  BY DEF Rows, DeliveryStatuses, ACTIVE_STATUSES
<1>. HIDE DEF row, y
<1>5. PICK n \in Nat : n = Len(deliveries) + 1
  BY <1>2, LenProperties DEF TypeOK
<1>6. /\ DOMAIN deliveries = 1..(n - 1)
      /\ DOMAIN deliveries' = 1..n
      /\ \A e \in DOMAIN deliveries : deliveries'[e] = deliveries[e]
      /\ deliveries'[n] = row
  <2>1. deliveries \in Seq(Rows) /\ Len(deliveries) \in Nat
    BY <1>2, LenProperties DEF TypeOK
  <2>. QED
    BY <1>3, <1>4, <1>5, <2>1, AppendProperties, LenProperties
<1>7. DOMAIN deliveries' = DOMAIN deliveries \cup {n} /\ n \notin DOMAIN deliveries
  BY <1>5, <1>6
<1>8. ActiveIsLast'
  <2>. SUFFICES ASSUME NEW d \in DOMAIN deliveries', Active(d)',
                       NEW e \in DOMAIN deliveries',
                       deliveries'[e].order = deliveries'[d].order
                PROVE  e <= d
    BY DEF ActiveIsLast
  <2>1. CASE d = n
    BY <1>6, <2>1
  <2>2. CASE d # n
    <3>1. d \in DOMAIN deliveries /\ Active(d) /\ deliveries'[d].order # o
      BY <1>2, <1>6, <1>7, <2>2 DEF Active, ActiveOf
    <3>2. e # n
      BY <1>4, <1>6, <3>1
    <3>. QED
      BY <1>6, <1>7, <3>1, <3>2 DEF SInv, ActiveIsLast
  <2>. QED
    BY <2>1, <2>2
<1>9. SettledFinal'
  <2>1. settled \subseteq DOMAIN deliveries
    BY <1>2 DEF TypeOK
  <2>2. \A d \in settled : /\ orderStatus[deliveries[d].order] = "delivered"
                           /\ deliveries[d].order \in Orders
    BY <1>2, <2>1, RowFacts DEF SInv, SettledFinal
  <2>3. \A d \in settled : orderStatus'[deliveries[d].order] = "delivered"
    BY <1>2, <1>3, <2>2 DEF TypeOK
  <2>. QED
    BY <1>3, <1>6, <2>1, <2>3 DEF SInv, SettledFinal
<1>10. ActiveOfAgent(a)' # {} /\ ActiveOf(o)' = {n}
  <2>1. Active(n)' /\ deliveries'[n].order = o /\ deliveries'[n].agent = a
    BY <1>4, <1>6 DEF Active, ACTIVE_STATUSES
  <2>2. \A d \in DOMAIN deliveries : ~ (deliveries'[d].order = o /\ Active(d)')
    BY <1>2, <1>6 DEF ActiveOf, Active
  <2>. QED
    BY <1>7, <2>1, <2>2 DEF ActiveOfAgent, ActiveOf
<1>11. Fresh(y)'
  BY <1>4, <1>10 DEF Fresh, Searching
<1>12. \A p \in Orders : OrderOK(p)'
  <2>1. ASSUME NEW p \in Orders, p # o
        PROVE  OrderOK(p)'
    <3>1. OrderOK(p) /\ orderStatus'[p] = orderStatus[p]
      BY <1>2, <1>3, <2>1 DEF SInv, Accounted, Pending, TypeOK
    <3>2. \A e : (e \in DOMAIN deliveries' /\ deliveries'[e].order = p)
                    <=> (e \in DOMAIN deliveries /\ deliveries[e].order = p)
      BY <1>4, <1>6, <1>7, <2>1
    <3>. QED
      BY <1>6, <3>1, <3>2, Untouched
  <2>2. OrderOK(o)'
    <3>1. orderStatus'[o] = "assigned"
      BY <1>2, <1>3 DEF TypeOK
    <3>2. deliveries'[n].status # "picked"
      BY <1>4, <1>6
    <3>. QED
      BY <1>10, <3>1, <3>2 DEF OrderOK, Unmanned
  <2>. QED
    BY <2>1, <2>2
<1>13. \A b \in busy : ActiveOfAgent(b)' # {}
  <2>1. \A b : ActiveOfAgent(b) \subseteq ActiveOfAgent(b)'
    BY <1>6, <1>7 DEF ActiveOfAgent, Active
  <2>. QED
    BY <1>2, <2>1, BusyBacked
<1>14. Accounted(y)'
  BY <1>3, <1>12, <1>13 DEF Accounted
<1>. QED
  BY <1>2, <1>3, <1>8, <1>9, <1>11, <1>14, Alone

\* A delivery taken off its agent leaves its order without one, for now.
LEMMA SerialWriteReassigned ==
    ASSUME SInv, IInv', NEW r, Requests = {r}, WriteReassigned(r)
    PROVE  SInv'
<1>. USE DEF presence
<1>1. PICK d \in DOMAIN deliveries : d = req[r].delivery /\ Active(d)
  BY DEF SInv, IInv, WriteReassigned, RestOK, Fresh
<1>2. PICK o \in Orders, a \in Agents :
          o = deliveries[d].order /\ a = deliveries[d].agent
  BY RowFacts DEF SInv, IInv
<1>. DEFINE y == Free(a, "tryAssign", o, d)
<1>3. /\ UpdateDelivery(d, "reassigned")
      /\ Continue(r, y)
      /\ UNCHANGED <<orderStatus, settled, busy>>
      /\ req[r].at = "writeReassigned"
      /\ TypeOK
  BY <1>1, <1>2 DEF WriteReassigned, SInv, IInv
<1>4. y.at = "free" /\ y.agent = a /\ y.order = o
  BY DEF Free
<1>. HIDE DEF y
<1>5. /\ ActiveIsLast'
      /\ \A e \in DOMAIN deliveries : deliveries'[e].order = deliveries[e].order
      /\ \A p \in Orders \ {o} : OrderOK(p) => OrderOK(p)'
      /\ ActiveOf(o)' = {}
      /\ \A b : ActiveOfAgent(b) # {} => ActiveOfAgent(b)' # {} \/ b = a
      /\ GivenUp(o)'
  BY <1>1, <1>2, <1>3, StatusWritten DEF ACTIVE_STATUSES
<1>6. \A p \in Orders : OrderOK(p)
  BY <1>3 DEF SInv, Accounted, Pending
<1>7. orderStatus[o] \in {"assigned", "picked"}
  BY <1>1, <1>2, <1>6 DEF OrderOK, ActiveOf
<1>8. SettledFinal'
  BY <1>3, <1>5 DEF SInv, IInv, TypeOK, SettledFinal
<1>9. Fresh(y)'
  BY <1>3, <1>4, <1>5, <1>7 DEF Fresh, Searching
<1>10. \A p \in Orders : OrderOK(p)'
  BY <1>5, <1>6 DEF OrderOK
<1>11. \A b \in busy : ActiveOfAgent(b) # {}
  BY <1>3, BusyBacked
<1>12. Accounted(y)'
  BY <1>3, <1>4, <1>5, <1>10, <1>11 DEF Accounted
<1>. QED
  BY <1>3, <1>5, <1>8, <1>9, <1>12, Alone

\* An agent's answer: the order follows a pick-up, and loses who rejects it.
LEMMA SerialWriteDelivery ==
    ASSUME SInv, IInv', NEW r, Requests = {r}, WriteDelivery(r)
    PROVE  SInv'
<1>. USE DEF presence
<1>1. PICK d \in DOMAIN deliveries, target \in DeliveryStatuses :
         /\ d = req[r].delivery /\ target = req[r].target
         /\ <<deliveries[d].status, target>> \in DELIVERY_TRANSITIONS
         /\ target # "delivered"
  BY RestTyped DEF SInv, IInv, TypeOK, WriteDelivery, RestOK, Fresh
<1>2. PICK o \in Orders, a \in Agents :
          o = deliveries[d].order /\ a = deliveries[d].agent
  BY RowFacts DEF SInv, IInv
<1>3. /\ target \in {"accepted", "rejected", "picked"}
      /\ deliveries[d].status \in {"assigned", "accepted"}
      /\ Active(d)
  BY <1>1 DEF DELIVERY_TRANSITIONS, Active, ACTIVE_STATUSES
<1>4. /\ UpdateDelivery(d, target)
      /\ UNCHANGED <<orderStatus, settled, busy>>
      /\ req[r].at = "writeDelivery"
      /\ TypeOK
  BY <1>1 DEF WriteDelivery, SInv, IInv
<1>5. PICK y :
         /\ Continue(r, y)
         /\ \/ target = "picked" /\ y.at = "pickOrder" /\ y.order = o
            \/ target = "rejected" /\ y.at = "free" /\ y.agent = a /\ y.order = o
            \/ target = "accepted" /\ y.at = "idle"
  <2>1. CASE target = "picked"
    BY <1>1, <1>2, <2>1 DEF WriteDelivery
  <2>2. CASE target = "rejected"
    BY <1>1, <1>2, <2>2 DEF WriteDelivery, Free
  <2>3. CASE target = "accepted"
    BY <1>1, <2>3 DEF WriteDelivery, Idle
  <2>. QED
    BY <1>3, <2>1, <2>2, <2>3
<1>6. /\ ActiveIsLast'
      /\ \A e \in DOMAIN deliveries : deliveries'[e].order = deliveries[e].order
      /\ deliveries'[d].status = target
      /\ \A p \in Orders \ {o} : OrderOK(p) => OrderOK(p)'
      /\ ActiveOf(o)' = IF target \in ACTIVE_STATUSES THEN {d} ELSE {}
      /\ \A b : ActiveOfAgent(b) # {} =>
            ActiveOfAgent(b)' # {} \/ (target \notin ACTIVE_STATUSES /\ b = a)
      /\ target = "rejected" => GivenUp(o)'
  <2>1. Active(d) /\ UpdateDelivery(d, target)
    BY <1>3, <1>4
  <2>2. /\ ActiveIsLast'
        /\ \A e \in DOMAIN deliveries :
              /\ deliveries'[e].order = deliveries[e].order
              /\ deliveries'[e].status = IF e = d THEN target ELSE deliveries[e].status
    BY <1>2, <2>1, StatusWritten
  <2>3. \A p \in Orders \ {o} : OrderOK(p) => OrderOK(p)'
    BY <1>2, <1>4, <2>1, StatusWritten
  <2>4. ActiveOf(o)' = IF target \in ACTIVE_STATUSES THEN {d} ELSE {}
    BY <1>2, <2>1, StatusWritten
  <2>5. \A b : ActiveOfAgent(b) # {} =>
            ActiveOfAgent(b)' # {} \/ (target \notin ACTIVE_STATUSES /\ b = a)
    BY <1>2, <2>1, StatusWritten
  <2>6. target = "rejected" => GivenUp(o)'
    BY <1>2, <2>1, StatusWritten
  <2>. QED
    BY <2>2, <2>3, <2>4, <2>5, <2>6
<1>7. \A p \in Orders : OrderOK(p)
  BY <1>4 DEF SInv, Accounted, Pending
<1>8. orderStatus[o] = "assigned"
  BY <1>2, <1>3, <1>7 DEF OrderOK, ActiveOf
<1>9. SettledFinal'
  BY <1>4, <1>6 DEF SInv, IInv, TypeOK, SettledFinal
<1>10. Fresh(y)'
  BY <1>3, <1>4, <1>5, <1>6, <1>8 DEF Fresh, Searching, ACTIVE_STATUSES
<1>11. OrderOK(o)' \/ Pending(y, o)
  <2>1. CASE target = "accepted"
    BY <1>4, <1>6, <1>8, <2>1 DEF OrderOK, Unmanned, ACTIVE_STATUSES
  <2>2. CASE target = "rejected"
    BY <1>4, <1>6, <1>8, <2>2 DEF OrderOK, Unmanned, ACTIVE_STATUSES
  <2>3. CASE target = "picked"
    BY <1>5, <2>3 DEF Pending
  <2>. QED
    BY <1>3, <2>1, <2>2, <2>3
<1>12. \A b \in busy : ActiveOfAgent(b) # {}
  BY <1>4, BusyBacked
<1>13. \A b \in busy : ActiveOfAgent(b)' # {} \/ (y.at = "free" /\ y.agent = b)
  BY <1>3, <1>5, <1>6, <1>12 DEF ACTIVE_STATUSES
<1>14. Accounted(y)'
  BY <1>4, <1>6, <1>7, <1>11, <1>13 DEF Accounted, Pending
<1>. QED
  BY <1>4, <1>5, <1>6, <1>9, <1>10, <1>14, Alone

\* The order follows its delivery.
LEMMA SerialPickOrder ==
    ASSUME SInv, IInv', NEW r, Requests = {r}, PickOrder(r)
    PROVE  SInv'
<1>. USE DEF presence, history
<1>0. PICK o \in Orders : o = req[r].order
  BY RestTyped DEF SInv, IInv, TypeOK, PickOrder
<1>1. PICK d \in ActiveOf(o) :
         /\ o = req[r].order
         /\ deliveries[d].status = "picked"
         /\ orderStatus[o] # "delivered"
  BY <1>0 DEF SInv, PickOrder, Fresh
<1>2. /\ orderStatus' = [orderStatus EXCEPT ![o] = "picked"]
      /\ Continue(r, Idle)
      /\ UNCHANGED <<deliveries, settled, busy>>
      /\ req[r].at = "pickOrder"
      /\ TypeOK
  BY <1>1 DEF PickOrder, End, SInv, IInv
<1>3. ActiveIsLast'
  BY <1>2 DEF SInv, ActiveIsLast, Active
<1>4. SettledFinal'
  <2>1. \A e \in settled : /\ orderStatus[deliveries[e].order] = "delivered"
                           /\ deliveries[e].order \in Orders
    BY <1>2, RowFacts DEF SInv, SettledFinal, TypeOK
  <2>2. \A e \in settled : orderStatus'[deliveries[e].order] = "delivered"
    BY <1>1, <1>2, <2>1 DEF TypeOK
  <2>. QED
    BY <1>2, <2>2 DEF SInv, SettledFinal
<1>5. Fresh(Idle)'
  BY DEF Fresh, Searching, Idle
<1>6. \A p \in Orders : OrderOK(p)'
  <2>1. ASSUME NEW p \in Orders, p # o
        PROVE  OrderOK(p)'
    <3>1. OrderOK(p) /\ orderStatus'[p] = orderStatus[p]
      BY <1>1, <1>2, <2>1 DEF SInv, Accounted, Pending, TypeOK
    <3>. QED
      BY <1>2, <3>1, Untouched
  <2>2. OrderOK(o)'
    <3>1. orderStatus'[o] = "picked"
      BY <1>2 DEF TypeOK
    <3>2. ActiveOf(o)' = ActiveOf(o) /\ \A e \in ActiveOf(o) : e = d
      BY <1>1, <1>2, OneActive DEF ActiveOf, Active
    <3>. QED
      BY <1>1, <1>2, <3>1, <3>2 DEF OrderOK, Unmanned
  <2>. QED
    BY <2>1, <2>2
<1>7. \A a \in busy : ActiveOfAgent(a)' # {}
  <2>1. \A a \in busy : ActiveOfAgent(a) # {}
    BY <1>2, BusyBacked
  <2>. QED
    BY <1>2, <2>1 DEF ActiveOfAgent, Active
<1>8. Accounted(Idle)'
  BY <1>2, <1>6, <1>7 DEF Accounted
<1>. QED
  BY <1>2, <1>3, <1>4, <1>5, <1>8, Alone

\* The order whose delivery is settled was on its way, and is delivered for good.
LEMMA SerialSettle ==
    ASSUME SInv, IInv', NEW r, Requests = {r}, Settle(r)
    PROVE  SInv'
<1>. USE DEF presence
<1>1. PICK d \in DOMAIN deliveries :
         /\ d = req[r].delivery
         /\ deliveries[d].status = "picked"
         /\ Active(d)
  BY DEF SInv, IInv, Settle, RestOK, Fresh, Active, ACTIVE_STATUSES
<1>2. PICK o \in Orders, a \in Agents :
          o = deliveries[d].order /\ a = deliveries[d].agent
  BY RowFacts DEF SInv, IInv
<1>. DEFINE y == Free(a, "end", o, Null)
<1>3. /\ settled' = settled \cup {d}
      /\ UpdateDelivery(d, "delivered")
      /\ orderStatus' = [orderStatus EXCEPT ![o] = "delivered"]
      /\ Continue(r, y)
      /\ UNCHANGED busy
      /\ req[r].at = "settle"
      /\ TypeOK
  BY <1>1, <1>2 DEF Settle, SInv, IInv
<1>4. y.at = "free" /\ y.agent = a /\ y.next = "end"
  BY DEF Free
<1>. HIDE DEF y
<1>5. /\ orderStatus'[o] = "delivered"
      /\ \A p \in Orders \ {o} : orderStatus'[p] = orderStatus[p]
  BY <1>3 DEF TypeOK
<1>6. /\ ActiveIsLast'
      /\ \A e \in DOMAIN deliveries : deliveries'[e].order = deliveries[e].order
      /\ \A p \in Orders \ {o} : OrderOK(p) => OrderOK(p)'
      /\ ActiveOf(o)' = {}
      /\ \A b : ActiveOfAgent(b) # {} => ActiveOfAgent(b)' # {} \/ b = a
  BY <1>1, <1>2, <1>3, <1>5, StatusWritten DEF ACTIVE_STATUSES
<1>7. \A p \in Orders : OrderOK(p)
  BY <1>3 DEF SInv, Accounted, Pending
<1>8. orderStatus[o] = "picked"
  BY <1>1, <1>2, <1>7 DEF OrderOK, ActiveOf
<1>9. SettledFinal'
  <2>1. \A e \in settled : /\ orderStatus[deliveries[e].order] = "delivered"
                           /\ deliveries[e].order \in Orders
                           /\ e \in DOMAIN deliveries
    BY <1>3, RowFacts DEF SInv, SettledFinal, TypeOK
  <2>2. \A e \in settled : deliveries[e].order # o
    BY <1>8, <2>1
  <2>. QED
    BY <1>1, <1>2, <1>3, <1>5, <1>6, <2>1, <2>2 DEF SInv, SettledFinal
<1>10. Fresh(y)'
  BY <1>4 DEF Fresh, Searching
<1>11. OrderOK(o)'
  BY <1>5, <1>6 DEF OrderOK, Unmanned
<1>12. \A b \in busy : ActiveOfAgent(b) # {}
  BY <1>3, BusyBacked
<1>13. Accounted(y)'
  BY <1>3, <1>4, <1>6, <1>7, <1>11, <1>12 DEF Accounted
<1>. QED
  BY <1>3, <1>6, <1>9, <1>10, <1>13, Alone

-----------------------------------------------------------------------------
(* The theorems about handlers that do not overlap. *)

\* A handler that nobody interrupts finds what it has read unchanged, and leaves
\* orders, deliveries and busy marks in agreement.
THEOREM SerialInvariance == ASSUME Serial PROVE Spec => []SInv
<1>. PICK r : Requests = {r}
  BY DEF Serial
<1>1. Init => SInv
  <2>. SUFFICES ASSUME Init PROVE SInv
    OBVIOUS
  <2>1. ActiveIsLast /\ SettledFinal
    BY DEF Init, ActiveIsLast, SettledFinal
  <2>2. Fresh(Idle)
    BY DEF Fresh, Searching, Idle
  <2>3. \A o \in Orders : OrderOK(o)
    BY DEF Init, OrderOK, Unmanned, ActiveOf
  <2>4. Accounted(Idle)
    BY <2>3 DEF Init, Accounted
  <2>. QED
    BY <2>1, <2>2, <2>4, InitIInv DEF Init, SInv
<1>2. SInv /\ [Next]_vars => SInv'
  <2>. SUFFICES ASSUME SInv, [Next]_vars PROVE SInv'
    OBVIOUS
  <2>1. IInv'
    BY NextIInv DEF SInv
  <2>2. CASE UNCHANGED vars
    BY <2>1, <2>2
       DEF SInv, vars, tables, history, presence, ActiveIsLast, SettledFinal, Fresh,
           Searching, Accounted, Pending, OrderOK, Unmanned, GivenUp, ActiveOf,
           ActiveOfAgent, Active
  <2>3. CASE Start(r)
    BY <2>1, <2>3, SerialStart
  <2>4. CASE Run(r)
    BY <2>1, <2>4, SerialReassign, SerialQuietRun, SerialWriteOrder,
       SerialCancelDeliveries, SerialCreateAssignment, SerialWriteReassigned,
       SerialWriteDelivery, SerialPickOrder, SerialSettle
       DEF Run, Serial
  <2>. QED
    BY <2>2, <2>3, <2>4 DEF Next, Crash, Serial
<1>. QED
  BY <1>1, <1>2, PTL DEF Spec

\* Without overlaps an order has one active delivery at most (assign, reassign
\* and tryReassignAfterRejection look for one first).
THEOREM OneDelivery == ASSUME Serial PROVE Spec => []OneActiveDeliveryPerOrder
<1>1. SInv => OneActiveDeliveryPerOrder
  <2>. SUFFICES ASSUME SInv, NEW o \in Orders
                PROVE  Cardinality(ActiveOf(o)) <= 1
    BY DEF OneActiveDeliveryPerOrder
  <2>1. CASE ActiveOf(o) = {}
    BY <2>1, FS_EmptySet
  <2>2. ASSUME NEW d \in ActiveOf(o)
        PROVE  Cardinality(ActiveOf(o)) = 1
    <3>1. ActiveOf(o) = {d}
      BY OneActive
    <3>. QED
      BY <3>1, FS_Singleton
  <2>. QED
    BY <2>1, <2>2
<1>. QED
  BY <1>1, SerialInvariance, PTL

\* Without overlaps an order's status and its delivery agree between requests.
THEOREM StatusMatches == ASSUME Serial PROVE Spec => []OrderMatchesDelivery
<1>1. SInv => OrderMatchesDelivery
  <2>. SUFFICES ASSUME SInv, Quiet, NEW o \in Orders
                PROVE  /\ \A d \in ActiveOf(o) :
                             orderStatus[o] = IF deliveries[d].status = "picked"
                                              THEN "picked" ELSE "assigned"
                       /\ Unmanned(o) => deliveries[LastDelivery(o)].status
                                           \in {"rejected", "reassigned"}
    BY DEF OrderMatchesDelivery
  <2>1. PICK r \in Requests : req[r] = Idle
    BY DEF Serial, Quiet
  <2>2. OrderOK(o)
    BY <2>1 DEF SInv, Accounted, Pending, Idle
  <2>3. ASSUME Unmanned(o)
        PROVE  deliveries[LastDelivery(o)].status \in {"rejected", "reassigned"}
    <3>. DEFINE ds == {d \in DOMAIN deliveries : deliveries[d].order = o}
    <3>1. PICK d \in ds : /\ deliveries[d].status \in {"rejected", "reassigned"}
                          /\ \A e \in ds : e <= d
      BY <2>2, <2>3 DEF OrderOK, GivenUp
    <3>2. \A c \in ds : (\A e \in ds : e <= c) => c = d
      <4>1. \A c \in ds : c \in Nat
        BY RowFacts, BoundsAssumption DEF SInv, IInv, Ids
      <4>. QED
        BY <3>1, <4>1
    <3>3. LastDelivery(o) = d
      BY <3>1, <3>2 DEF LastDelivery
    <3>. QED
      BY <3>1, <3>3
  <2>. QED
    BY <2>2, <2>3 DEF OrderOK
<1>. QED
  BY <1>1, SerialInvariance, PTL

\* Without overlaps a restaurant is credited for an order once.
THEOREM SettledOnce == ASSUME Serial PROVE Spec => []SettledOncePerOrder
<1>1. SInv => SettledOncePerOrder
  BY DEF SInv, SettledFinal, SettledOncePerOrder
<1>. QED
  BY <1>1, SerialInvariance, PTL

\* Without overlaps and with Redis up, a busy mark has a delivery behind it
\* between requests.
THEOREM BusyHaveDeliveries == ASSUME Serial PROVE Spec => []NoPhantomBusy
<1>1. SInv => NoPhantomBusy
  <2>. SUFFICES ASSUME SInv, Quiet, NEW a \in busy
                PROVE  ActiveOfAgent(a) # {}
    BY DEF NoPhantomBusy
  <2>1. PICK r \in Requests : req[r] = Idle
    BY DEF Serial, Quiet
  <2>. QED
    BY <2>1, BusyBacked DEF Idle
<1>. QED
  BY <1>1, SerialInvariance, PTL
=============================================================================
