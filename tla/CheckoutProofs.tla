--------------------------- MODULE CheckoutProofs ---------------------------
(***************************************************************************)
(* Theorems about Checkout for any requests, keys, bodies, callers, stock, *)
(* number of attempts and of faults.                                       *)
(***************************************************************************)
EXTENDS Checkout, TLAPS

-----------------------------------------------------------------------------
(* The inductive invariant. *)

\* A PATCH request, between its read and its write.
Moves == [at : {"idle", "done"}]
           \cup [at : {"write"}, order : Requests, target : OrderStatuses]

\* TypeOK, and the types of events and moves; only rows that exist are moved.
Types ==
    /\ TypeOK
    /\ events \in [Requests -> Seq(OrderStatuses)]
    /\ move \in [Movers -> Moves]
    /\ \A m \in Movers : move[m].at = "write" => orders[move[m].order] # None

\* What is stored under a key is the answer of a request of that key, and a
\* store that has landed has left one.
StoresTrue ==
    /\ \A k \in Keys :
          /\ redis[k] # None => Key[redis[k]] = k /\ answer[redis[k]] = redis[k]
          /\ saved[k] # None => Key[saved[k]] = k /\ answer[saved[k]] = saved[k]
    /\ \A r \in Requests :
          /\ <<"redis", r>> \in storing \/ <<"table", r>> \in storing => answer[r] = r
          /\ <<"redis", r>> \in stored => redis[Key[r]] # None
          /\ <<"table", r>> \in stored => saved[Key[r]] # None

\* A request's order, its stock and its answer go with where it is.
Own(r) ==
    /\ answer[r] = None <=> pc[r] # "answered"
    /\ answer[r] # None =>
          /\ Key[answer[r]] = Key[r] /\ SameBody(answer[r], r)
          /\ answer[answer[r]] = answer[r]
    /\ pc[r] \in {"idle", "fallback", "validate", "create", "conflict",
                  "unavailable", "refused"} => orders[r] = None
    /\ pc[r] \in {"reserve", "answer", "compensate"} => orders[r] # None
    /\ pc[r] = "answer" \/ answer[r] = r => orders[r] # None /\ r \in reserved
    /\ pc[r] = "answered" /\ answer[r] # r => orders[r] = None
    /\ pc[r] = "failed" /\ orders[r] # None => "cancelled" \in orders[r].stamps
    /\ pc[r] = "conflict" =>
          \E s \in Requests : Key[s] = Key[r] /\ ~ SameBody(s, r) /\ answer[s] = s

\* Requests of one key that nobody has to excuse.
Rivals(r, s) == /\ r # s /\ Key[r] = Key[s]
                /\ r \notin excused /\ s \notin excused

\* A request that may still place an order, or has been told of its own.
Placing(r) == \/ pc[r] \in {"validate", "create", "reserve", "compensate", "answer"}
              \/ answer[r] = r

\* One of them is past the gate at most; while one looks in the table, an
\* answer of the other's is there.
Gate(r, s) ==
    Rivals(r, s) =>
        /\ ~ (Placing(r) /\ Placing(s))
        /\ pc[r] = "fallback" =>
              ~ Running(s) /\ (answer[s] = s => <<"table", s>> \in stored)

\* The inductive invariant.
IInv ==
    /\ Types
    /\ StoresTrue
    /\ \A r \in Requests : Own(r)
    /\ \A r, s \in Requests : Gate(r, s)
    /\ AnnouncedStatus

\* AnnouncedStatus, of one order.
Announced(o) ==
    orders[o] # None =>
        \/ orders[o].status = "pending_payment" /\ events[o] = <<>>
        \/ events[o] # <<>> /\ events[o][Len(events[o])] = orders[o].status
        \/ orders[o].status = "cancelled" /\ pc[o] = "failed"

\* Where a request can be.
Places == Ended \cup {"idle", "fallback", "validate", "create", "reserve",
                      "compensate", "answer"}

-----------------------------------------------------------------------------
(* What the steps of a request have in common. *)

\* A request goes on, and the others stay where they are.
LEMMA GoneTo ==
    ASSUME Types, NEW r \in Requests, NEW p \in Places, Goto(r, p)
    PROVE  /\ pc' \in [Requests -> Places] /\ pc'[r] = p
           /\ \A s \in Requests \ {r} : pc'[s] = pc[s]
BY DEF Goto, Types, TypeOK, Places

\* Orders, reservations and answers are never taken back, so what holds of a
\* request that is not moved goes on to hold.
LEMMA RequestStep ==
    ASSUME IInv, NEW r \in Requests,
           Types', StoresTrue', Own(r)', Announced(r)',
           \A s \in Requests \ {r} :
              /\ pc'[s] = pc[s] /\ answer'[s] = answer[s]
              /\ orders'[s] = orders[s] /\ events'[s] = events[s],
           answer[r] # None => answer'[r] = answer[r],
           reserved \subseteq reserved', excused \subseteq excused',
           stored \subseteq stored',
           \A s \in Requests \ {r} : Gate(r, s)' /\ Gate(s, r)'
    PROVE  IInv'
<1>1. ASSUME NEW s \in Requests \ {r} PROVE Own(s)'
  <2>1. Own(s)
    BY DEF IInv
  <2>2. answer[s] \in Requests \cup {None} /\ None \notin Requests
    BY RequestsAssumption DEF IInv, Types, TypeOK
  <2>3. \A q \in Requests : answer[q] = q => answer'[q] = q
    BY RequestsAssumption
  <2>4. answer[s] # None => answer'[answer[s]] = answer[answer[s]]
    BY <2>1, <2>2 DEF Own
  <2>. QED
    BY <2>1, <2>2, <2>3, <2>4 DEF Own, SameBody
<1>2. ASSUME NEW s \in Requests, NEW t \in Requests PROVE Gate(s, t)'
  <2>1. CASE s # r /\ t # r
    <3>1. Gate(s, t)
      BY DEF IInv
    <3>2. Rivals(s, t)' => Rivals(s, t)
      BY DEF Rivals
    <3>. QED
      BY <2>1, <3>1, <3>2 DEF Gate, Placing, Running
  <2>2. CASE s = t
    BY <2>2 DEF Gate, Rivals
  <2>. QED
    BY <2>1, <2>2
<1>3. AnnouncedStatus'
  BY DEF AnnouncedStatus, Announced, IInv
<1>. QED
  BY <1>1, <1>2, <1>3 DEF IInv

\* A request that is past the gate, or leaves, disturbs no rival.
LEMMA GateKept ==
    ASSUME IInv, NEW r \in Requests,
           \A s \in Requests \ {r} : pc'[s] = pc[s] /\ answer'[s] = answer[s],
           excused \subseteq excused', stored \subseteq stored',
           Placing(r)' => Placing(r),
           Running(r)' => Running(r),
           pc'[r] # "fallback",
           answer'[r] = r => answer[r] = r \/ Running(r)
    PROVE  \A s \in Requests \ {r} : Gate(r, s)' /\ Gate(s, r)'
<1>. SUFFICES ASSUME NEW s \in Requests \ {r} PROVE Gate(r, s)' /\ Gate(s, r)'
  OBVIOUS
<1>1. Gate(r, s) /\ Gate(s, r)
  BY DEF IInv
<1>2. (Rivals(r, s)' => Rivals(r, s)) /\ (Rivals(s, r)' => Rivals(s, r))
  BY DEF Rivals
<1>3. Placing(s)' = Placing(s) /\ Running(s)' = Running(s)
  BY DEF Placing, Running
<1>. QED
  BY <1>1, <1>2, <1>3 DEF Gate

\* A step that only moves a request, and may reserve its stock.
LEMMA Moved ==
    ASSUME IInv, NEW r \in Requests, NEW p \in Places, Goto(r, p),
           UNCHANGED <<answer, orders, events, redis, saved, storing, stored,
                       excused, move>>,
           Types', reserved \subseteq reserved', Own(r)',
           pc[r] # "failed", Running(r), p # "fallback",
           Placing(r)' => Placing(r)
    PROVE  IInv'
<1>1. /\ pc'[r] = p
      /\ \A s \in Requests \ {r} : pc'[s] = pc[s]
  BY GoneTo DEF IInv
<1>2. StoresTrue'
  BY DEF IInv, StoresTrue
<1>3. Announced(r)'
  BY DEF IInv, AnnouncedStatus, Announced
<1>4. \A s \in Requests \ {r} : Gate(r, s)' /\ Gate(s, r)'
  BY <1>1, GateKept
<1>. QED
  BY <1>1, <1>2, <1>3, <1>4, RequestStep

-----------------------------------------------------------------------------
(* Every step preserves the inductive invariant. *)

\* Initially nothing is placed, stored or reserved.
LEMMA InitInv == Init => IInv
<1>. SUFFICES ASSUME Init PROVE IInv
  OBVIOUS
<1>1. Types
  BY NumbersAssumption DEF Init, Types, TypeOK, Moves, Ended
<1>2. StoresTrue
  BY DEF Init, StoresTrue
<1>3. \A r \in Requests : Own(r) /\ \A s \in Requests : Gate(r, s)
  BY RequestsAssumption DEF Init, Own, Gate, Placing
<1>4. AnnouncedStatus
  BY DEF Init, AnnouncedStatus
<1>. QED
  BY <1>1, <1>2, <1>3, <1>4 DEF IInv

\* A request that leaves its call of core has no failed attempts.
LEMMA TriesReset ==
    ASSUME IInv, NEW r \in Requests, tries' = [tries EXCEPT ![r] = 0]
    PROVE  tries' \in [Requests -> 0..Attempts - 1]
<1>1. tries \in [Requests -> 0..Attempts - 1] /\ 0 \in 0..Attempts - 1
  BY NumbersAssumption DEF IInv, Types, TypeOK
<1>. QED
  BY <1>1

\* The parts of a step that only moves a request, by what it may touch besides.
LEMMA MovedTypes ==
    ASSUME IInv, NEW r \in Requests, NEW p \in Places, Goto(r, p),
           UNCHANGED <<answer, orders, events, redis, saved, storing, stored,
                       excused, move>>,
           tries' \in [Requests -> 0..Attempts - 1],
           stock' \in 0..Pieces, reserved' \subseteq Requests,
           faults' = faults \/ Fault
    PROVE  Types'
<1>1. pc' \in [Requests -> Places]
  BY GoneTo DEF IInv
<1>2. faults' \in 0..MaxFaults
  BY NumbersAssumption DEF IInv, Types, TypeOK, Fault
<1>. QED
  BY <1>1, <1>2 DEF IInv, Types, TypeOK, Places

\* A request leaves the fallback, or its server dies.
LEMMA FallbackFailsInv ==
    ASSUME IInv, NEW r \in Requests, FallbackFails(r)
    PROVE  IInv'
<1>1. /\ pc[r] = "fallback" /\ Fault /\ Goto(r, "unavailable")
      /\ UNCHANGED <<tries, stock, reserved, answer, orders, events, redis, saved,
                     storing, stored, excused, move>>
  BY DEF FallbackFails, table, middleware, core
<1>2. pc'[r] = "unavailable"
  BY <1>1, GoneTo DEF IInv, Places, Ended, Refusals
<1>3. Types'
  BY <1>1, MovedTypes DEF Places, Ended, Refusals, IInv, Types, TypeOK
<1>4. Own(r)'
  BY <1>1, <1>2 DEF IInv, Own
<1>. QED
  BY <1>1, <1>2, <1>3, <1>4, Moved
     DEF Places, Ended, Refusals, Running, Placing

\* The server dies under a request, wherever it is.
LEMMA CrashInv ==
    ASSUME IInv, NEW r \in Requests, Crash(r)
    PROVE  IInv'
<1>1. /\ Running(r) /\ Fault /\ Goto(r, "dead")
      /\ tries' = [tries EXCEPT ![r] = 0]
      /\ UNCHANGED <<stock, reserved, answer, orders, events, redis, saved,
                     storing, stored, excused, move>>
  BY DEF Crash, table, middleware, core
<1>2. pc'[r] = "dead" /\ "dead" \in Places
  BY <1>1, GoneTo DEF IInv, Places, Ended
<1>3. Types'
  <2>1. stock' \in 0..Pieces /\ reserved' \subseteq Requests
    BY <1>1 DEF IInv, Types, TypeOK
  <2>. QED
    BY <1>1, <1>2, <2>1, MovedTypes, TriesReset
<1>4. Own(r)'
  BY <1>1, <1>2 DEF IInv, Own, Running, Ended, Refusals
<1>. QED
  BY <1>1, <1>2, <1>3, <1>4, Moved
     DEF Places, Ended, Refusals, Running, Placing

\* Validation, passed or not, comes before there is an order.
LEMMA ValidateInv ==
    ASSUME IInv, NEW r \in Requests, Validate(r) \/ Refuse(r)
    PROVE  IInv'
<1>1. PICK p \in {"create", "refused"} : Goto(r, p)
  BY DEF Validate, Refuse
<1>2. /\ pc[r] = "validate"
      /\ UNCHANGED <<tries, faults, stock, reserved, answer, orders, events, redis,
                     saved, storing, stored, excused, move>>
  BY DEF Validate, Refuse, table, middleware, core
<1>3. p \in Places
  BY DEF Places, Ended, Refusals
<1>4. pc'[r] = p
  BY <1>1, <1>3, GoneTo DEF IInv
<1>5. Types'
  BY <1>1, <1>2, <1>3, MovedTypes DEF IInv, Types, TypeOK
<1>6. Own(r)'
  BY <1>2, <1>4 DEF IInv, Own
<1>. QED
  BY <1>1, <1>2, <1>3, <1>4, <1>5, <1>6, Moved DEF Ended, Refusals, Running, Placing

\* Core has a reservation of the order whenever the request goes on with one.
LEMMA CoreTypes ==
    ASSUME IInv, NEW r \in Requests,
           (CanReserve(r) /\ CoreReserves(r)) \/ UNCHANGED core
    PROVE  /\ stock' \in 0..Pieces /\ reserved' \subseteq Requests
           /\ reserved \subseteq reserved'
BY NumbersAssumption DEF IInv, Types, TypeOK, CanReserve, CoreReserves, core

\* A reservation that succeeds.
LEMMA ReserveStockInv ==
    ASSUME IInv, NEW r \in Requests, ReserveStock(r)
    PROVE  IInv'
<1>1. /\ pc[r] = "reserve" /\ CanReserve(r) /\ CoreReserves(r) /\ Goto(r, "answer")
      /\ tries' = [tries EXCEPT ![r] = 0]
      /\ UNCHANGED <<faults, answer, orders, events, redis, saved, storing, stored,
                     excused, move>>
  BY DEF ReserveStock, table, middleware
<1>2. pc'[r] = "answer" /\ "answer" \in Places
  BY <1>1, GoneTo DEF IInv, Places
<1>3. Types'
  BY <1>1, <1>2, MovedTypes, CoreTypes, TriesReset
<1>4. Own(r)'
  BY <1>1, <1>2 DEF IInv, Own, CoreReserves
<1>. QED
  BY <1>1, <1>2, <1>3, <1>4, CoreTypes, Moved DEF Ended, Refusals, Running, Placing

\* A reservation that is refused, or given up: core may have it nevertheless.
LEMMA ReserveEndsInv ==
    ASSUME IInv, NEW r \in Requests, ReserveRefused(r) \/ ReserveUnavailable(r)
    PROVE  IInv'
<1>1. /\ pc[r] = "reserve" /\ Goto(r, "compensate")
      /\ tries' = [tries EXCEPT ![r] = 0]
      /\ (CanReserve(r) /\ CoreReserves(r)) \/ UNCHANGED core
      /\ faults' = faults \/ Fault
      /\ UNCHANGED <<answer, orders, events, redis, saved, storing, stored,
                     excused, move>>
  BY DEF ReserveRefused, ReserveUnavailable, LostCall, table, middleware
<1>2. pc'[r] = "compensate" /\ "compensate" \in Places
  BY <1>1, GoneTo DEF IInv, Places
<1>3. Types'
  BY <1>1, <1>2, MovedTypes, CoreTypes, TriesReset
<1>4. Own(r)'
  BY <1>1, <1>2, CoreTypes DEF IInv, Own
<1>. QED
  BY <1>1, <1>2, <1>3, <1>4, CoreTypes, Moved DEF Ended, Refusals, Running, Placing

\* A call of core that is lost and tried again.
LEMMA ReserveRetryInv ==
    ASSUME IInv, NEW r \in Requests, ReserveRetry(r)
    PROVE  IInv'
<1>1. /\ pc[r] = "reserve" /\ Fault /\ tries[r] + 1 < Attempts
      /\ tries' = [tries EXCEPT ![r] = @ + 1]
      /\ (CanReserve(r) /\ CoreReserves(r)) \/ UNCHANGED core
      /\ UNCHANGED <<pc, answer, orders, events, redis, saved, storing, stored,
                     excused, move>>
  BY DEF ReserveRetry, LostCall, table, middleware
<1>2. Goto(r, "reserve") /\ pc'[r] = "reserve" /\ "reserve" \in Places
  BY <1>1 DEF Goto, IInv, Types, TypeOK, Places
<1>3. Types'
  <2>1. tries' \in [Requests -> 0..Attempts - 1]
    <3>1. tries \in [Requests -> 0..Attempts - 1] /\ Attempts \in Nat
      BY NumbersAssumption DEF IInv, Types, TypeOK
    <3>2. tries[r] + 1 \in 0..Attempts - 1
      BY <1>1, <3>1
    <3>. QED
      BY <1>1, <3>1, <3>2
  <2>. QED
    BY <1>1, <1>2, <2>1, MovedTypes, CoreTypes
<1>4. Own(r)'
  BY <1>1, CoreTypes DEF IInv, Own
<1>. QED
  BY <1>1, <1>2, <1>3, <1>4, CoreTypes, Moved DEF Ended, Refusals, Running, Placing

\* An order that cannot be taken back is left behind.
LEMMA CompensateFailsInv ==
    ASSUME IInv, NEW r \in Requests, CompensateFails(r)
    PROVE  IInv'
<1>1. /\ pc[r] = "compensate" /\ Fault /\ Goto(r, "abandoned")
      /\ UNCHANGED <<tries, stock, reserved, answer, orders, events, redis, saved,
                     storing, stored, excused, move>>
  BY DEF CompensateFails, table, middleware, core
<1>2. pc'[r] = "abandoned" /\ "abandoned" \in Places
  BY <1>1, GoneTo DEF IInv, Places, Ended, Refusals
<1>3. Types'
  BY <1>1, <1>2, MovedTypes DEF IInv, Types, TypeOK
<1>4. Own(r)'
  BY <1>1, <1>2 DEF IInv, Own
<1>. QED
  BY <1>1, <1>2, <1>3, <1>4, Moved DEF Ended, Refusals, Running, Placing

\* A replay, from Redis or from the table, places no order.
LEMMA ReplayInv ==
    ASSUME IInv, NEW r \in Requests, NEW q \in Requests,
           pc[r] \in {"idle", "fallback"}, answer[q] = q, Key[q] = Key[r],
           Replay(r, q),
           UNCHANGED <<tries, table, middleware, core, move, faults>>
    PROVE  IInv'
<1>1. UNCHANGED <<tries, orders, events, redis, saved, storing, stored, excused,
                  stock, reserved, move, faults>>
  BY DEF table, middleware, core
<1>2. answer[r] = None /\ orders[r] = None /\ q # r
  BY RequestsAssumption DEF IInv, Own
<1>3. PICK p \in {"answered", "conflict"} :
          /\ Goto(r, p) /\ p \in Places
          /\ p = "answered" => SameBody(r, q) /\ answer' = [answer EXCEPT ![r] = q]
          /\ p = "conflict" => ~ SameBody(r, q) /\ answer' = answer
  BY DEF Replay, Places, Ended, Refusals
<1>4. /\ pc' \in [Requests -> Places] /\ pc'[r] = p
      /\ \A s \in Requests \ {r} : pc'[s] = pc[s] /\ answer'[s] = answer[s]
      /\ answer' \in [Requests -> Requests \cup {None}]
      /\ answer'[r] = IF p = "answered" THEN q ELSE None
  <2>1. answer \in [Requests -> Requests \cup {None}]
    BY DEF IInv, Types, TypeOK
  <2>. QED
    BY <1>2, <1>3, <2>1, GoneTo DEF IInv
<1>5. \A s \in Requests : answer[s] = s => answer'[s] = s
  BY <1>2, <1>4, RequestsAssumption
<1>6. Types'
  BY <1>1, <1>4 DEF IInv, Types, TypeOK, Places
<1>7. StoresTrue'
  <2>1. /\ redis \in [Keys -> Requests \cup {None}]
        /\ saved \in [Keys -> Requests \cup {None}]
    BY DEF IInv, Types, TypeOK
  <2>. QED
    BY <1>1, <1>5, <2>1 DEF IInv, StoresTrue
<1>8. Own(r)'
  BY <1>1, <1>2, <1>3, <1>4, <1>5, RequestsAssumption DEF Own, SameBody
<1>9. Announced(r)'
  BY <1>1, <1>2 DEF Announced
<1>10. \A s \in Requests \ {r} : Gate(r, s)' /\ Gate(s, r)'
  <2>1. ~ Placing(r)' /\ ~ Running(r)' /\ pc'[r] # "fallback" /\ answer'[r] # r
    BY <1>2, <1>4, RequestsAssumption DEF Placing, Running, Ended, Refusals
  <2>. QED
    BY <1>1, <1>4, <2>1, GateKept
<1>. QED
  BY <1>1, <1>2, <1>4, <1>6, <1>7, <1>8, <1>9, <1>10, RequestStep

\* A hit in Redis is a replay.
LEMMA HitInv ==
    ASSUME IInv, NEW r \in Requests, Hit(r)
    PROVE  IInv'
<1>1. Key[r] \in Keys
  BY DEF Keys
<1>2. /\ redis[Key[r]] \in Requests
      /\ Key[redis[Key[r]]] = Key[r] /\ answer[redis[Key[r]]] = redis[Key[r]]
  BY <1>1 DEF Hit, IInv, Types, TypeOK, StoresTrue
<1>. QED
  BY <1>2, ReplayInv DEF Hit

\* A request past the gate, with the steps of all four ways to it.
LEMMA Passed ==
    ASSUME IInv, NEW r \in Requests, NEW p \in Places, Goto(r, p),
           pc[r] \in {"idle", "fallback"},
           p \in {"fallback", "validate", "unavailable"},
           UNCHANGED <<tries, answer, table, redis, saved, storing, stored, core,
                       move>>,
           faults' = faults \/ Fault,
           excused' \in {excused, excused \cup {r}},
           \A s \in Requests \ {r} : Gate(r, s)' /\ Gate(s, r)'
    PROVE  IInv'
<1>1. UNCHANGED <<orders, events, stock, reserved>>
  BY DEF table, core
<1>2. /\ pc' \in [Requests -> Places] /\ pc'[r] = p
      /\ \A s \in Requests \ {r} : pc'[s] = pc[s]
  BY GoneTo DEF IInv
<1>3. faults' \in 0..MaxFaults
  BY NumbersAssumption DEF IInv, Types, TypeOK, Fault
<1>4. excused \subseteq excused' /\ excused' \subseteq Requests
  BY DEF IInv, Types, TypeOK
<1>5. Types'
  BY <1>1, <1>2, <1>3, <1>4 DEF IInv, Types, TypeOK, Places
<1>6. StoresTrue'
  BY DEF IInv, StoresTrue
<1>7. Own(r)'
  BY <1>1, <1>2 DEF IInv, Own
<1>8. Announced(r)'
  BY <1>1 DEF IInv, Own, Announced
<1>. QED
  BY <1>1, <1>2, <1>4, <1>5, <1>6, <1>7, <1>8, RequestStep

\* Nothing under the key in Redis, and nobody to excuse: no rival has placed an
\* order, for its answer would be there, or is about to.
LEMMA MissInv ==
    ASSUME IInv, NEW r \in Requests, Miss(r)
    PROVE  IInv'
<1>1. /\ pc[r] = "idle" /\ redis[Key[r]] = None /\ Goto(r, "validate")
      /\ Excuse(r, "redis") /\ "validate" \in Places
      /\ UNCHANGED <<tries, answer, table, redis, saved, storing, stored, core,
                     move, faults>>
  BY DEF Miss, Places
<1>2. excused' \in {excused, excused \cup {r}}
  BY <1>1 DEF Excuse
<1>3. \A s \in Requests \ {r} : pc'[s] = pc[s]
  BY <1>1, GoneTo DEF IInv
<1>4. ASSUME NEW s \in Requests \ {r} PROVE Gate(r, s)' /\ Gate(s, r)'
  <2>. SUFFICES ASSUME Key[r] = Key[s], r \notin excused'
                PROVE  Gate(r, s)' /\ Gate(s, r)'
    BY DEF Gate, Rivals
  <2>1. Settled(s, "redis")
    BY <1>1 DEF Excuse
  <2>2. answer[s] # s
    <3>1. answer[s] = s => pc[s] = "answered"
      BY RequestsAssumption DEF IInv, Own
    <3>2. <<"redis", s>> \in stored => redis[Key[s]] # None
      BY DEF IInv, StoresTrue
    <3>. QED
      BY <1>1, <2>1, <3>1, <3>2 DEF Settled
  <2>3. ~ Running(s)' /\ answer'[s] # s
    BY <1>1, <1>3, <2>1, <2>2 DEF Settled, Running
  <2>4. ~ Placing(s)' /\ pc'[s] # "fallback"
    BY <2>3 DEF Placing, Running, Ended, Refusals
  <2>. QED
    BY <2>3, <2>4 DEF Gate
<1>. QED
  BY <1>1, <1>2, <1>4, Passed

\* Without Redis a request of a known region is sent to the table.
LEMMA RedisDownInv ==
    ASSUME IInv, NEW r \in Requests, RedisDown(r)
    PROVE  IInv'
<1>1. /\ pc[r] = "idle" /\ Fault
      /\ UNCHANGED <<tries, answer, table, redis, saved, storing, stored, core,
                     move>>
  BY DEF RedisDown
<1>2. answer[r] = None
  BY <1>1 DEF IInv, Own
<1>3. CASE r \in Header
  <2>1. Goto(r, "fallback") /\ Excuse(r, "table") /\ "fallback" \in Places
    BY <1>3 DEF RedisDown, Places
  <2>2. excused' \in {excused, excused \cup {r}}
    BY <2>1 DEF Excuse
  <2>3. pc'[r] = "fallback" /\ \A s \in Requests \ {r} : pc'[s] = pc[s]
    BY <2>1, GoneTo DEF IInv
  <2>4. ASSUME NEW s \in Requests \ {r} PROVE Gate(r, s)' /\ Gate(s, r)'
    <3>. SUFFICES ASSUME Key[r] = Key[s], r \notin excused'
                  PROVE  Gate(r, s)' /\ Gate(s, r)'
      BY DEF Gate, Rivals
    <3>1. Settled(s, "table")
      BY <2>1 DEF Excuse
    <3>2. answer[s] = s => <<"table", s>> \in stored
      BY <3>1, RequestsAssumption DEF Settled, IInv, Own
    <3>3. ~ Running(s)' /\ (answer'[s] = s => <<"table", s>> \in stored')
      BY <1>1, <2>3, <3>1, <3>2 DEF Settled, Running
    <3>4. ~ Placing(r)' /\ pc'[s] # "fallback"
      BY <1>1, <1>2, <2>3, <3>3, RequestsAssumption
         DEF Placing, Running, Ended, Refusals
    <3>. QED
      BY <3>3, <3>4 DEF Gate
  <2>. QED
    BY <1>1, <2>1, <2>2, <2>4, Passed
<1>4. CASE r \notin Header
  <2>1. Goto(r, "unavailable") /\ excused' = excused /\ "unavailable" \in Places
    BY <1>4 DEF RedisDown, Places, Ended, Refusals
  <2>2. pc'[r] = "unavailable" /\ \A s \in Requests \ {r} : pc'[s] = pc[s]
    BY <2>1, GoneTo DEF IInv
  <2>3. \A s \in Requests \ {r} : Gate(r, s)' /\ Gate(s, r)'
    BY <1>1, <1>2, <2>1, <2>2, GateKept, RequestsAssumption
       DEF Placing, Running, Ended, Refusals
  <2>. QED
    BY <1>1, <2>1, <2>3, Passed
<1>. QED
  BY <1>3, <1>4

\* A row in the table is replayed; without one no rival has placed an order.
LEMMA FallbackInv ==
    ASSUME IInv, NEW r \in Requests, Fallback(r)
    PROVE  IInv'
<1>1. /\ pc[r] = "fallback"
      /\ UNCHANGED <<tries, table, middleware, core, move, faults>>
  BY DEF Fallback
<1>2. CASE saved[Key[r]] # None
  <2>1. Key[r] \in Keys
    BY DEF Keys
  <2>2. /\ saved[Key[r]] \in Requests
        /\ Key[saved[Key[r]]] = Key[r] /\ answer[saved[Key[r]]] = saved[Key[r]]
    BY <1>2, <2>1 DEF IInv, Types, TypeOK, StoresTrue
  <2>. QED
    BY <1>1, <1>2, <2>2, ReplayInv DEF Fallback
<1>3. CASE saved[Key[r]] = None
  <2>1. /\ Goto(r, "validate") /\ answer' = answer /\ "validate" \in Places
        /\ UNCHANGED <<redis, saved, storing, stored, excused>>
    BY <1>1, <1>3 DEF Fallback, Places, middleware
  <2>2. \A s \in Requests \ {r} : pc'[s] = pc[s]
    BY <2>1, GoneTo DEF IInv
  <2>3. ASSUME NEW s \in Requests \ {r} PROVE Gate(r, s)' /\ Gate(s, r)'
    <3>. SUFFICES ASSUME Rivals(r, s) PROVE Gate(r, s)' /\ Gate(s, r)'
      BY <2>1 DEF Gate, Rivals
    <3>1. ~ Running(s) /\ (answer[s] = s => <<"table", s>> \in stored)
      BY <1>1 DEF IInv, Gate
    <3>2. answer[s] # s
      BY <1>3, <3>1 DEF IInv, StoresTrue, Rivals
    <3>3. ~ Running(s)' /\ answer'[s] # s
      BY <2>1, <2>2, <3>1, <3>2 DEF Running
    <3>4. ~ Placing(s)' /\ pc'[s] # "fallback"
      BY <3>3 DEF Placing, Running, Ended, Refusals
    <3>. QED
      BY <3>3, <3>4 DEF Gate
  <2>. QED
    BY <1>1, <2>1, <2>3, Passed
<1>. QED
  BY <1>2, <1>3

\* A row of the orders table is one, and none of them is None.
LEMMA Rows ==
    ASSUME IInv, NEW o \in Requests, NEW status \in OrderStatuses,
           orders[o] # None, UpdateOrderStatus(o, status)
    PROVE  /\ orders' \in [Requests -> OrderRows \cup {None}]
           /\ orders'[o] # None /\ orders'[o].status = status
           /\ orders[o].stamps \cup ({status} \cap Columns) = orders'[o].stamps
           /\ \A q \in Requests \ {o} : orders'[q] = orders[q]
<1>1. orders \in [Requests -> OrderRows \cup {None}] /\ orders[o] \in OrderRows
  BY DEF IInv, Types, TypeOK
<1>. DEFINE row == [status |-> status,
                    stamps |-> orders[o].stamps \cup ({status} \cap Columns)]
<1>2. row \in OrderRows
  BY <1>1 DEF OrderRows
<1>3. orders' = [orders EXCEPT ![o] = row]
  BY DEF UpdateOrderStatus
<1>4. row.status = status /\ row # None
  BY <1>2, NoneAssumption
<1>5. row.stamps = orders[o].stamps \cup ({status} \cap Columns)
  OBVIOUS
<1>. HIDE DEF row
<1>6. orders'[o] = row /\ \A q \in Requests \ {o} : orders'[q] = orders[q]
  BY <1>1, <1>3
<1>. QED
  BY <1>1, <1>2, <1>3, <1>4, <1>5, <1>6

\* A new order of a cash customer is announced, an unpaid one is not.
LEMMA Inserted ==
    ASSUME IInv, NEW r \in Requests, pc[r] = "create", Insert(r)
    PROVE  /\ orders' \in [Requests -> OrderRows \cup {None}]
           /\ events' \in [Requests -> Seq(OrderStatuses)]
           /\ orders'[r] # None /\ Announced(r)'
           /\ \A q \in Requests \ {r} :
                 orders'[q] = orders[q] /\ events'[q] = events[q]
<1>1. /\ orders \in [Requests -> OrderRows \cup {None}]
      /\ events \in [Requests -> Seq(OrderStatuses)]
  BY DEF IInv, Types, TypeOK
<1>2. NewOrder(r) \in OrderRows
  BY DEF NewOrder, OrderRows, OrderStatuses
<1>3. orders' = [orders EXCEPT ![r] = NewOrder(r)] /\ orders'[r] = NewOrder(r)
  BY <1>1 DEF Insert
<1>4. orders' \in [Requests -> OrderRows \cup {None}] /\ orders'[r] # None
  BY <1>1, <1>2, <1>3, NoneAssumption
<1>5. events'[r] = IF Body[r].method = "cod" THEN <<"placed">> ELSE <<>>
  BY <1>1 DEF Insert
<1>6. events'[r] \in Seq(OrderStatuses)
  <2>1. "placed" \in OrderStatuses
    BY DEF OrderStatuses
  <2>2. <<"placed">> \in Seq(OrderStatuses) /\ <<>> \in Seq(OrderStatuses)
    BY <2>1
  <2>. QED
    BY <1>5, <2>2
<1>7. events' \in [Requests -> Seq(OrderStatuses)]
  BY <1>1, <1>5, <1>6 DEF Insert
<1>8. \A q \in Requests \ {r} : orders'[q] = orders[q] /\ events'[q] = events[q]
  BY <1>1 DEF Insert
<1>9. Announced(r)'
  <2>1. CASE Body[r].method = "cod"
    <3>1. events'[r] = <<"placed">> /\ orders'[r].status = "placed"
      BY <1>3, <1>5, <2>1 DEF NewOrder
    <3>2. <<"placed">> # <<>> /\ <<"placed">>[Len(<<"placed">>)] = "placed"
      OBVIOUS
    <3>. QED
      BY <3>1, <3>2 DEF Announced
  <2>2. CASE Body[r].method = "online"
    <3>1. events'[r] = <<>> /\ orders'[r].status = "pending_payment"
      BY <1>3, <1>5, <2>2 DEF NewOrder
    <3>. QED
      BY <3>1 DEF Announced
  <2>. QED
    BY <2>1, <2>2, RequestsAssumption
<1>. QED
  BY <1>4, <1>7, <1>8, <1>9

\* What a step that writes the order of a request has in common with others.
LEMMA OwnOrder ==
    ASSUME IInv, NEW r \in Requests, NEW p \in Places, Goto(r, p),
           orders' \in [Requests -> OrderRows \cup {None}],
           events' \in [Requests -> Seq(OrderStatuses)],
           orders'[r] # None, Announced(r)',
           \A q \in Requests \ {r} : orders'[q] = orders[q] /\ events'[q] = events[q],
           UNCHANGED <<tries, answer, middleware, core, move>>,
           faults' = faults \/ Fault,
           pc[r] \in {"create", "compensate"},
           p \in {"reserve", "abandoned", "failed"},
           p = "reserve" => pc[r] = "create",
           p = "failed" => "cancelled" \in orders'[r].stamps
    PROVE  IInv'
<1>1. UNCHANGED <<redis, saved, storing, stored, excused, stock, reserved>>
  BY DEF middleware, core
<1>2. /\ pc' \in [Requests -> Places] /\ pc'[r] = p
      /\ \A s \in Requests \ {r} : pc'[s] = pc[s]
  BY GoneTo DEF IInv
<1>3. faults' \in 0..MaxFaults
  BY NumbersAssumption DEF IInv, Types, TypeOK, Fault
<1>4. \A q \in Requests : orders[q] # None => orders'[q] # None
  OBVIOUS
<1>5. Types'
  <2>1. \A m \in Movers : move[m].at = "write" => move[m].order \in Requests
    BY DEF IInv, Types, Moves
  <2>2. \A m \in Movers : move[m].at = "write" => orders'[move[m].order] # None
    BY <1>4, <2>1 DEF IInv, Types
  <2>. QED
    BY <1>1, <1>2, <1>3, <2>2 DEF IInv, Types, TypeOK, Places
<1>6. StoresTrue'
  BY <1>1 DEF IInv, StoresTrue
<1>7. Own(r)'
  BY <1>1, <1>2 DEF IInv, Own
<1>8. \A s \in Requests \ {r} : Gate(r, s)' /\ Gate(s, r)'
  BY <1>1, <1>2, GateKept DEF Placing, Running, Ended, Refusals
<1>. QED
  BY <1>1, <1>2, <1>5, <1>6, <1>7, <1>8, RequestStep

\* The transaction commits, and its answer may be lost.
LEMMA CreateInv ==
    ASSUME IInv, NEW r \in Requests, Create(r)
    PROVE  IInv'
<1>1. "reserve" \in Places
  BY DEF Places
<1>. QED
  BY <1>1, Inserted, OwnOrder DEF Create

\* The transaction fails: rolled back, or committed with the answer lost.
LEMMA CreateFailsInv ==
    ASSUME IInv, NEW r \in Requests, CreateFails(r)
    PROVE  IInv'
<1>1. /\ pc[r] = "create" /\ Fault
      /\ UNCHANGED <<tries, answer, middleware, core, move>>
  BY DEF CreateFails
<1>2. "abandoned" \in Places /\ "failed" \in Places
  BY DEF Places, Ended, Refusals
<1>3. CASE Insert(r) /\ Goto(r, "abandoned")
  BY <1>1, <1>2, <1>3, Inserted, OwnOrder
<1>4. CASE UNCHANGED table /\ Goto(r, "failed")
  <2>1. UNCHANGED <<orders, events, redis, saved, storing, stored, excused, stock,
                    reserved>>
    BY <1>1, <1>4 DEF table, middleware, core
  <2>2. pc'[r] = "failed"
    BY <1>2, <1>4, GoneTo DEF IInv
  <2>3. Types'
    <3>1. /\ tries' \in [Requests -> 0..Attempts - 1]
          /\ stock' \in 0..Pieces /\ reserved' \subseteq Requests
      BY <1>1, <2>1 DEF IInv, Types, TypeOK
    <3>. QED
      BY <1>1, <1>2, <1>4, <2>1, <3>1, MovedTypes
  <2>4. Own(r)'
    BY <1>1, <2>1, <2>2 DEF IInv, Own
  <2>. QED
    BY <1>1, <1>2, <1>4, <2>1, <2>2, <2>3, <2>4, Moved
       DEF Running, Ended, Refusals, Placing
<1>. QED
  BY <1>3, <1>4 DEF CreateFails

\* The order is taken back: cancelled, and not announced.
LEMMA CompensateInv ==
    ASSUME IInv, NEW r \in Requests, Compensate(r)
    PROVE  IInv'
<1>1. /\ pc[r] = "compensate" /\ Goto(r, "failed")
      /\ UpdateOrderStatus(r, "cancelled")
      /\ UNCHANGED <<tries, answer, events, middleware, core, move, faults>>
  BY DEF Compensate
<1>2. "failed" \in Places /\ "cancelled" \in OrderStatuses \cap Columns
  BY DEF Places, Ended, Refusals, OrderStatuses, Columns
<1>3. orders[r] # None
  BY <1>1 DEF IInv, Own
<1>4. /\ orders' \in [Requests -> OrderRows \cup {None}]
      /\ orders'[r] # None /\ orders'[r].status = "cancelled"
      /\ orders[r].stamps \cup ({"cancelled"} \cap Columns) = orders'[r].stamps
      /\ \A q \in Requests \ {r} : orders'[q] = orders[q]
  BY <1>1, <1>2, <1>3, Rows
<1>5. "cancelled" \in orders'[r].stamps
  BY <1>2, <1>4
<1>6. pc'[r] = "failed"
  BY <1>1, <1>2, GoneTo DEF IInv
<1>7. Announced(r)'
  BY <1>4, <1>6 DEF Announced
<1>8. events' \in [Requests -> Seq(OrderStatuses)]
  BY <1>1 DEF IInv, Types
<1>. QED
  BY <1>1, <1>2, <1>4, <1>5, <1>7, <1>8, OwnOrder

\* The answer of the request that placed the order, and its stores set off.
LEMMA AnswerInv ==
    ASSUME IInv, NEW r \in Requests, Answer(r)
    PROVE  IInv'
<1>1. /\ pc[r] = "answer" /\ Goto(r, "answered") /\ "answered" \in Places
      /\ answer' = [answer EXCEPT ![r] = r] /\ storing' = storing \cup Stores(r)
      /\ UNCHANGED <<tries, orders, events, redis, saved, stored, excused, stock,
                     reserved, move, faults>>
  BY DEF Answer, table, core, Places, Ended
<1>2. answer[r] = None /\ orders[r] # None /\ r \in reserved
  BY <1>1 DEF IInv, Own
<1>3. /\ pc' \in [Requests -> Places] /\ pc'[r] = "answered"
      /\ answer' \in [Requests -> Requests \cup {None}] /\ answer'[r] = r
      /\ \A s \in Requests \ {r} : pc'[s] = pc[s] /\ answer'[s] = answer[s]
  <2>1. answer \in [Requests -> Requests \cup {None}]
    BY DEF IInv, Types, TypeOK
  <2>. QED
    BY <1>1, <2>1, GoneTo DEF IInv
<1>4. Stores(r) \subseteq {"redis", "table"} \X {r}
  BY DEF Stores
<1>5. Types'
  BY <1>1, <1>3, <1>4 DEF IInv, Types, TypeOK, Places
<1>6. StoresTrue'
  <2>1. \A q \in Requests : answer[q] = q => answer'[q] = q
    BY <1>3
  <2>2. ASSUME NEW k \in Keys
        PROVE  /\ redis'[k] # None => Key[redis'[k]] = k /\ answer'[redis'[k]] = redis'[k]
               /\ saved'[k] # None => Key[saved'[k]] = k /\ answer'[saved'[k]] = saved'[k]
    <3>1. redis[k] \in Requests \cup {None} /\ saved[k] \in Requests \cup {None}
      BY DEF IInv, Types, TypeOK
    <3>. QED
      BY <1>1, <2>1, <3>1 DEF IInv, StoresTrue
  <2>3. ASSUME NEW q \in Requests, NEW where \in {"redis", "table"},
               <<where, q>> \in storing'
        PROVE  answer'[q] = q
    <3>1. q = r \/ <<where, q>> \in storing
      BY <1>1, <1>4, <2>3
    <3>2. <<where, q>> \in storing => answer[q] = q
      BY DEF IInv, StoresTrue
    <3>. QED
      BY <1>3, <2>1, <3>1, <3>2
  <2>4. \A q \in Requests :
           /\ <<"redis", q>> \in stored' => redis'[Key[q]] # None
           /\ <<"table", q>> \in stored' => saved'[Key[q]] # None
    BY <1>1 DEF IInv, StoresTrue
  <2>. QED
    BY <2>2, <2>3, <2>4 DEF StoresTrue
<1>7. Own(r)'
  BY <1>1, <1>2, <1>3, RequestsAssumption DEF Own, SameBody
<1>8. Announced(r)'
  BY <1>1 DEF IInv, AnnouncedStatus, Announced
<1>9. \A s \in Requests \ {r} : Gate(r, s)' /\ Gate(s, r)'
  BY <1>1, <1>3, GateKept DEF Placing, Running, Ended, Refusals
<1>. QED
  BY <1>1, <1>2, <1>3, <1>5, <1>6, <1>7, <1>8, <1>9, RequestStep

\* Each step of a request in flight.
LEMMA RunInv ==
    ASSUME IInv, NEW r \in Requests, Run(r)
    PROVE  IInv'
BY FallbackInv, FallbackFailsInv, ValidateInv, CreateInv, CreateFailsInv,
   ReserveStockInv, ReserveEndsInv, ReserveRetryInv, CompensateInv,
   CompensateFailsInv, AnswerInv DEF Run

\* Stores and status changes move no request and take no answer back.
LEMMA Beside ==
    ASSUME IInv, Types', StoresTrue', AnnouncedStatus',
           UNCHANGED <<pc, answer, reserved, excused>>,
           \A r \in Requests :
              /\ orders[r] # None <=> orders'[r] # None
              /\ orders[r] # None => orders[r].stamps \subseteq orders'[r].stamps
              /\ <<"table", r>> \in stored => <<"table", r>> \in stored'
    PROVE  IInv'
<1>1. \A r \in Requests : Own(r)'
  BY DEF IInv, Own
<1>2. ASSUME NEW r \in Requests, NEW s \in Requests PROVE Gate(r, s)'
  <2>1. Gate(r, s)
    BY DEF IInv
  <2>. QED
    BY <2>1 DEF Gate, Rivals, Placing, Running
<1>. QED
  BY <1>1, <1>2 DEF IInv

\* A store lands.
LEMMA StoreInv ==
    ASSUME IInv, NEW r \in Requests, StoreRedis(r) \/ StoreTable(r)
    PROVE  IInv'
<1>1. UNCHANGED <<pc, tries, answer, orders, events, excused, stock, reserved, move,
                  faults>>
  BY DEF StoreRedis, StoreTable, table, core
<1>2. PICK where \in {"redis", "table"} :
         /\ <<where, r>> \in storing
         /\ storing' = storing \ {<<where, r>>} /\ stored' = stored \cup {<<where, r>>}
         /\ redis' = IF where = "redis" THEN [redis EXCEPT ![Key[r]] = r] ELSE redis
         /\ saved' = IF where = "table"
                     THEN [saved EXCEPT ![Key[r]] = IF @ = None THEN r ELSE @] ELSE saved
  <2>1. CASE StoreRedis(r)
    BY <2>1, "redis" \in {"redis", "table"} DEF StoreRedis
  <2>2. CASE StoreTable(r)
    BY <2>2, "table" \in {"redis", "table"} DEF StoreTable
  <2>. QED
    BY <2>1, <2>2
<1>3. Key[r] \in Keys /\ answer[r] = r
  BY <1>2 DEF Keys, IInv, StoresTrue
<1>4. /\ redis \in [Keys -> Requests \cup {None}]
      /\ saved \in [Keys -> Requests \cup {None}]
  BY DEF IInv, Types, TypeOK
<1>5. /\ redis' \in [Keys -> Requests \cup {None}]
      /\ saved' \in [Keys -> Requests \cup {None}]
      /\ \A k \in Keys : redis'[k] = redis[k] \/ (k = Key[r] /\ redis'[k] = r)
      /\ \A k \in Keys : saved'[k] = saved[k] \/ (k = Key[r] /\ saved'[k] = r)
  BY <1>2, <1>3, <1>4
<1>6. where = "redis" => redis'[Key[r]] = r
  BY <1>2, <1>3, <1>4
<1>7. where = "table" => saved'[Key[r]] # None
  BY <1>2, <1>3, <1>4, RequestsAssumption
<1>8. Types'
  BY <1>1, <1>2, <1>5 DEF IInv, Types, TypeOK
<1>9. StoresTrue'
  <2>1. ASSUME NEW k \in Keys
        PROVE  /\ redis'[k] # None => Key[redis'[k]] = k /\ answer'[redis'[k]] = redis'[k]
               /\ saved'[k] # None => Key[saved'[k]] = k /\ answer'[saved'[k]] = saved'[k]
    BY <1>1, <1>3, <1>5 DEF IInv, StoresTrue
  <2>2. ASSUME NEW q \in Requests
        PROVE  /\ <<"redis", q>> \in storing' \/ <<"table", q>> \in storing' => answer'[q] = q
               /\ <<"redis", q>> \in stored' => redis'[Key[q]] # None
               /\ <<"table", q>> \in stored' => saved'[Key[q]] # None
    <3>1. Key[q] \in Keys
      BY DEF Keys
    <3>2. /\ <<"redis", q>> \in stored => redis[Key[q]] # None
          /\ <<"table", q>> \in stored => saved[Key[q]] # None
          /\ <<"redis", q>> \in storing \/ <<"table", q>> \in storing => answer[q] = q
      BY DEF IInv, StoresTrue
    <3>3. /\ redis[Key[q]] # None => redis'[Key[q]] # None
          /\ saved[Key[q]] # None => saved'[Key[q]] # None
      BY <1>5, <3>1, RequestsAssumption
    <3>4. /\ <<"redis", q>> \in stored' =>
                <<"redis", q>> \in stored \/ (q = r /\ where = "redis")
          /\ <<"table", q>> \in stored' =>
                <<"table", q>> \in stored \/ (q = r /\ where = "table")
      BY <1>2
    <3>. QED
      BY <1>1, <1>2, <1>6, <1>7, <3>2, <3>3, <3>4, RequestsAssumption
  <2>. QED
    BY <2>1, <2>2 DEF StoresTrue
<1>10. AnnouncedStatus'
  BY <1>1 DEF IInv, AnnouncedStatus
<1>. QED
  BY <1>1, <1>2, <1>8, <1>9, <1>10, Beside

\* A store is lost, or an entry in Redis is.
LEMMA LostInv ==
    ASSUME IInv,
           (\E r \in Requests, where \in {"redis", "table"} : StoreLost(r, where))
             \/ (\E k \in Keys : Expire(k))
    PROVE  IInv'
<1>1. /\ UNCHANGED <<pc, tries, answer, orders, events, saved, excused, stock,
                     reserved, move>>
      /\ Fault /\ storing' \subseteq storing /\ stored' \subseteq stored
  BY DEF StoreLost, Expire, table, core
<1>. DEFINE Left == /\ redis' \in [Keys -> Requests \cup {None}]
                    /\ \A k \in Keys : redis'[k] = redis[k] \/ redis'[k] = None
                    /\ \A q \in Requests : <<"redis", q>> \in stored' => redis'[Key[q]] # None
                    /\ \A q \in Requests :
                          <<"table", q>> \in stored <=> <<"table", q>> \in stored'
<1>2. Left
  <2>1. redis \in [Keys -> Requests \cup {None}]
    BY DEF IInv, Types, TypeOK
  <2>2. \A q \in Requests : <<"redis", q>> \in stored => redis[Key[q]] # None
    BY DEF IInv, StoresTrue
  <2>3. ASSUME UNCHANGED <<redis, stored>> PROVE Left
    BY <2>1, <2>2, <2>3
  <2>4. ASSUME NEW k \in Keys, Expire(k) PROVE Left
    <3>1. /\ redis' = [redis EXCEPT ![k] = None]
          /\ stored' = stored \ {<<"redis", r>> : r \in {s \in Requests : Key[s] = k}}
      BY <2>4 DEF Expire
    <3>2. \A q \in Requests :
            /\ <<"redis", q>> \in stored' => <<"redis", q>> \in stored /\ Key[q] # k
            /\ <<"table", q>> \in stored <=> <<"table", q>> \in stored'
      BY <3>1
    <3>3. \A q \in Requests : Key[q] \in Keys
      BY DEF Keys
    <3>. QED
      BY <2>1, <2>2, <3>1, <3>2, <3>3
  <2>. QED
    BY <2>3, <2>4 DEF StoreLost
<1>3. faults' \in 0..MaxFaults
  BY <1>1, NumbersAssumption DEF IInv, Types, TypeOK, Fault
<1>4. Types'
  BY <1>1, <1>2, <1>3 DEF IInv, Types, TypeOK
<1>5. StoresTrue'
  <2>1. StoresTrue
    BY DEF IInv
  <2>. QED
    BY <1>1, <1>2, <2>1 DEF StoresTrue
<1>6. AnnouncedStatus'
  BY <1>1 DEF IInv, AnnouncedStatus
<1>. QED
  BY <1>1, <1>2, <1>4, <1>5, <1>6, Beside

\* A status change is read, and written with its event.
LEMMA ReadInv ==
    ASSUME IInv, NEW m \in Movers, NEW o \in Requests, NEW target \in OrderStatuses,
           NEW c \in Callers, NEW a \in Actors, ReadOrder(m, o, target, c, a)
    PROVE  IInv'
<1>1. /\ orders[o] # None
      /\ move' = [move EXCEPT ![m] = [at |-> "write", order |-> o, target |-> target]]
      /\ UNCHANGED <<pc, tries, answer, orders, events, redis, saved, storing, stored,
                     excused, stock, reserved, faults>>
  BY DEF ReadOrder, table, middleware, core
<1>2. [at |-> "write", order |-> o, target |-> target] \in Moves
  BY DEF Moves
<1>3. Types'
  <2>1. move \in [Movers -> Moves]
    BY DEF IInv, Types
  <2>2. move' \in [Movers -> Moves]
    BY <1>1, <1>2, <2>1
  <2>3. \A n \in Movers : move'[n].at = "write" => orders'[move'[n].order] # None
    BY <1>1, <2>1 DEF IInv, Types
  <2>. QED
    BY <1>1, <2>2, <2>3 DEF IInv, Types, TypeOK
<1>4. StoresTrue' /\ AnnouncedStatus'
  BY <1>1 DEF IInv, StoresTrue, AnnouncedStatus
<1>. QED
  BY <1>1, <1>3, <1>4, Beside

\* A status change is written, with its event, whatever the order has become.
LEMMA WriteInv ==
    ASSUME IInv, NEW m \in Movers, WriteOrder(m)
    PROVE  IInv'
<1>. DEFINE o == move[m].order
            target == move[m].target
<1>1. /\ o \in Requests /\ target \in OrderStatuses /\ orders[o] # None
  BY DEF WriteOrder, IInv, Types, Moves
<1>2. /\ UpdateOrderStatus(o, target)
      /\ events' = [events EXCEPT ![o] = Append(@, target)]
      /\ move' = [move EXCEPT ![m] = [at |-> "done"]]
      /\ UNCHANGED <<pc, tries, answer, redis, saved, storing, stored, excused, stock,
                     reserved, faults>>
  BY DEF WriteOrder, middleware, core
<1>. HIDE DEF o, target
<1>3. /\ orders' \in [Requests -> OrderRows \cup {None}]
      /\ orders'[o] # None /\ orders'[o].status = target
      /\ orders[o].stamps \cup ({target} \cap Columns) = orders'[o].stamps
      /\ \A q \in Requests \ {o} : orders'[q] = orders[q]
  BY <1>1, <1>2, Rows
<1>4. events \in [Requests -> Seq(OrderStatuses)] /\ events[o] \in Seq(OrderStatuses)
  BY <1>1 DEF IInv, Types
<1>5. /\ Append(events[o], target) \in Seq(OrderStatuses)
      /\ Append(events[o], target) # <<>>
      /\ Append(events[o], target)[Len(Append(events[o], target))] = target
  BY <1>1, <1>4
<1>6. /\ events' \in [Requests -> Seq(OrderStatuses)]
      /\ events'[o] = Append(events[o], target)
      /\ \A q \in Requests \ {o} : events'[q] = events[q]
  BY <1>1, <1>2, <1>4, <1>5
<1>7. Types'
  <2>1. move \in [Movers -> Moves] /\ [at |-> "done"] \in Moves
    BY DEF IInv, Types, Moves
  <2>2. move' \in [Movers -> Moves]
    BY <1>2, <2>1
  <2>3. \A n \in Movers : move'[n].at = "write" => n # m /\ move'[n] = move[n]
    BY <1>2, <2>1
  <2>4. \A n \in Movers : move[n].at = "write" =>
           move[n].order \in Requests /\ orders[move[n].order] # None
    BY DEF IInv, Types, Moves
  <2>5. \A n \in Movers : move'[n].at = "write" => orders'[move'[n].order] # None
    BY <1>3, <2>3, <2>4
  <2>. QED
    BY <1>2, <1>3, <1>6, <2>2, <2>5 DEF IInv, Types, TypeOK
<1>8. StoresTrue'
  BY <1>2 DEF IInv, StoresTrue
<1>9. AnnouncedStatus'
  <2>1. ASSUME NEW q \in Requests, orders'[q] # None
        PROVE  \/ orders'[q].status = "pending_payment" /\ events'[q] = <<>>
               \/ events'[q] # <<>> /\ events'[q][Len(events'[q])] = orders'[q].status
               \/ orders'[q].status = "cancelled" /\ pc'[q] = "failed"
    <3>1. CASE q = o
      BY <1>3, <1>5, <1>6, <3>1
    <3>2. CASE q # o
      BY <1>2, <1>3, <1>6, <2>1, <3>2 DEF IInv, AnnouncedStatus
    <3>. QED
      BY <3>1, <3>2
  <2>. QED
    BY <2>1 DEF AnnouncedStatus
<1>10. \A q \in Requests :
         /\ orders[q] # None <=> orders'[q] # None
         /\ orders[q] # None => orders[q].stamps \subseteq orders'[q].stamps
  BY <1>1, <1>3
<1>. QED
  BY <1>2, <1>7, <1>8, <1>9, <1>10, Beside

\* Nothing happens.
LEMMA StutterInv ==
    ASSUME IInv, UNCHANGED vars
    PROVE  IInv'
<1>1. UNCHANGED <<pc, tries, answer, orders, events, redis, saved, storing, stored,
                  excused, stock, reserved, move, faults>>
  BY DEF vars, table, middleware, core
<1>2. Types' /\ StoresTrue' /\ AnnouncedStatus'
  BY <1>1 DEF IInv, Types, TypeOK, StoresTrue, AnnouncedStatus
<1>. QED
  BY <1>1, <1>2, Beside

\* Every step of the system.
LEMMA StepInv == IInv /\ [Next]_vars => IInv'
BY RunInv, HitInv, MissInv, RedisDownInv, CrashInv, StoreInv, LostInv, ReadInv,
   WriteInv, StutterInv DEF Next

-----------------------------------------------------------------------------
(* Theorems. *)

\* The inductive invariant: what is stored under a key is the answer of a
\* request of the key, an answer names a reserved order, and of two requests of
\* a key that nobody has to excuse one is past the middleware at most.
THEOREM Invariance == Spec => []IInv
BY InitInv, StepInv, PTL DEF Spec

\* placeOrder and the middleware never lie: an answered request names an order
\* of its key and body whose stock is reserved, a 409 is for another body.
THEOREM Truthful == Spec => []AnswersTrue
<1>1. IInv => AnswersTrue
  <2>. SUFFICES ASSUME IInv PROVE AnswersTrue
    OBVIOUS
  <2>1. TypeOK
    BY DEF IInv, Types
  <2>2. ASSUME NEW r \in Requests, answer[r] # None
        PROVE  /\ Key[answer[r]] = Key[r] /\ SameBody(answer[r], r)
               /\ orders[answer[r]] # None /\ answer[r] \in reserved
    <3>1. answer[r] \in Requests
      BY <2>1, <2>2 DEF TypeOK
    <3>2. Own(r) /\ Own(answer[r])
      BY <3>1 DEF IInv
    <3>. QED
      BY <2>2, <3>2 DEF Own
  <2>3. \A r \in Requests : pc[r] = "conflict" =>
           \E s \in Requests : Key[s] = Key[r] /\ ~ SameBody(s, r) /\ answer[s] = s
    BY DEF IInv, Own
  <2>. QED
    BY <2>1, <2>2, <2>3 DEF AnswersTrue
<1>. QED
  BY <1>1, Invariance, PTL

\* Retries of a key place one order, but for those that overtake an answer.
THEOREM Idempotent == Spec => []RetriesPlaceOnce
<1>1. IInv => RetriesPlaceOnce
  BY DEF IInv, RetriesPlaceOnce, Gate, Rivals, Placing
<1>. QED
  BY <1>1, Invariance, PTL

\* The compensation of placeOrder: a live order without stock is on its way
\* back, was left behind by a fault, or was revived by a status change.
THEOREM Reserved == Spec => []LiveOrdersReserved
<1>1. IInv => LiveOrdersReserved
  <2>. SUFFICES ASSUME IInv, NEW o \in Requests, Live(o), o \notin reserved
                PROVE  \/ pc[o] \in {"reserve", "compensate", "abandoned", "dead"}
                       \/ "cancelled" \in orders[o].stamps
    BY DEF LiveOrdersReserved
  <2>1. Own(o) /\ pc[o] \in Places
    BY DEF IInv, Types, TypeOK, Places
  <2>. QED
    BY <2>1 DEF Own, Live, Places, Ended, Refusals
<1>. QED
  BY <1>1, Invariance, PTL

\* The outbox of placeOrder and updateStatus tells the status of every order,
\* but for one that was taken back.
THEOREM Announces == Spec => []AnnouncedStatus
<1>1. IInv => AnnouncedStatus
  BY DEF IInv
<1>. QED
  BY <1>1, Invariance, PTL
=============================================================================
