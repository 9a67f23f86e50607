------------------------------ MODULE Archival ------------------------------
(***************************************************************************)
(* The nightly move of the prior years' rows from a region's hot database  *)
(* to its archive: runArchivalOnce, started by the scheduler of every      *)
(* server and by run-archival-once, under one Redis lock per region.       *)
(*                                                                         *)
(* A run is a process.  Each batch is read from hot in one step and written*)
(* in a later one; requests may write rows in between, the run may die, its*)
(* time budget may end and its lock may lapse while it goes on.  A row is  *)
(* its content's version number, 0 where the database does not have it.    *)
(***************************************************************************)
EXTENDS Integers, Sequences, FiniteSets

CONSTANTS
    Rows,           \* rows that may ever exist, by id (a table's ids ascend)
    Table,          \* [Rows -> Tables]
    Order,          \* [Rows -> Rows]: the row's order; itself without one
    Year,           \* [Rows -> Nat]: of created_at, received_at
    Refs,           \* [Rows -> SUBSET Rows]: the other rows it points to
    Runs,           \* runs that may overlap
    NoRun,          \* the lock's holder when it is free
    BatchSize,      \* BATCH_SIZE
    FirstYear,
    LastYear,       \* bound: the years the clock goes through
    MaxFaults,      \* bound: deaths, database errors, budgets, lapsed locks
    MaxVersion,     \* bound: writes of a row
    LateWrites,     \* whether rows of past years are still written
    MidRunNewYear   \* whether a year may end during a run

\* PASS1_INSERT_ORDER, PASS2_DELETE_ORDER.
InsertOrder == <<"orders", "order_items", "transactions", "payment_sessions",
                 "payment_webhook_events", "deliveries", "agent_earnings">>

\* Mutant: parents are deleted first.
DeleteOrderForward == InsertOrder

DeleteOrder == [i \in 1..Len(InsertOrder) |-> InsertOrder[8 - i]]

Tables == {InsertOrder[i] : i \in 1..Len(InsertOrder)}

ASSUME RowsAssumption ==
    /\ Rows \subseteq Nat \ {0}
    /\ IsFiniteSet(Rows)
    /\ Table \in [Rows -> Tables]
    /\ Order \in [Rows -> Rows]
    /\ \A r \in Rows : Order[Order[r]] = Order[r]
    /\ Year \in [Rows -> Nat]
    /\ Refs \in [Rows -> SUBSET Rows]

ASSUME BoundsAssumption ==
    /\ NoRun \notin Runs
    /\ BatchSize \in Nat \ {0}
    /\ FirstYear \in Nat /\ LastYear \in Nat /\ FirstYear <= LastYear
    /\ MaxFaults \in Nat
    /\ MaxVersion \in Nat
    /\ LateWrites \in BOOLEAN /\ MidRunNewYear \in BOOLEAN

VARIABLES
    year,      \* the current calendar year
    hot,       \* the region's database
    archive,   \* the region's archive database
    latest,    \* history: the version last written
    lock,      \* the archival lock's holder, or NoRun
    pc,        \* "idle", "insert" (pass 1) or "delete" (pass 2)
    table,     \* index of the table a run's pass is at
    cutoff,    \* the year whose start is the cutoff of that table's pass
    cursor,    \* pass 1: the last id inserted
    batch,     \* the rows read, as they were read
    expired,   \* whether a run's budget has ended
    blocked,   \* history: runs a foreign key has stopped
    lapsed,    \* history: runs whose lock has lapsed under them
    faults     \* faults so far

runVars == <<pc, table, cutoff, cursor, batch, expired>>
vars == <<year, hot, archive, latest, lock, runVars, blocked, lapsed, faults>>

-----------------------------------------------------------------------------

Has(d) == {r \in Rows : d[r] # 0}

\* byParentOrder: a row goes by its order's created_at, as hot has the order;
\* webhook events have none and go by received_at; a payout has none and stays.
Rootless(t) == t \in {"orders", "payment_webhook_events"}

Eligible(t, y) ==
    {r \in Has(hot) : /\ Table[r] = t
                      /\ Order[r] # r \/ Rootless(t)
                      /\ Order[r] \in Has(hot) /\ Year[Order[r]] < y}

\* The n lowest and the n highest ids of a set.
Lowest(S, n) == {r \in S : Cardinality({s \in S : s < r}) < n}
Highest(S, n) == {r \in S : Cardinality({s \in S : s > r}) < n}
LastOf(S) == CHOOSE r \in S : \A s \in S : s <= r

\* A pointer to a row that comes later (a charge's to its refund) is set when
\* that row is written.
PointsTo(r) == {s \in Refs[r] \cup {Order[r]} : latest[s] # 0}

\* Foreign keys, checked at the end of a statement.
KeysHold(S) == \A r \in S : PointsTo(r) \subseteq S

Empty == [r \in {} |-> 0]
Read(S) == [r \in S |-> hot[r]]

\* A pass over the table at index i begins: cutoffIso() is evaluated.
AtTable(w, p, i) ==
    /\ pc' = [pc EXCEPT ![w] = p]
    /\ table' = [table EXCEPT ![w] = i]
    /\ cutoff' = [cutoff EXCEPT ![w] = year]
    /\ cursor' = [cursor EXCEPT ![w] = 0]
    /\ batch' = [batch EXCEPT ![w] = Empty]
    /\ UNCHANGED <<expired, lapsed>>

\* Mutant: whoever holds the lock, it is released.
ReleaseLockAnyway(w) == lock' = NoRun

\* releaseLock: only if the token is still the holder's.
ReleaseLock(w) == lock' = IF lock = w THEN NoRun ELSE lock

\* acquireLock: SET NX.
AcquireLock(w) == lock = NoRun /\ lock' = w

\* The run is over, and what it had in memory is gone.
Forget(w) ==
    /\ pc' = [pc EXCEPT ![w] = "idle"]
    /\ table' = [table EXCEPT ![w] = 1]
    /\ cutoff' = [cutoff EXCEPT ![w] = FirstYear]
    /\ cursor' = [cursor EXCEPT ![w] = 0]
    /\ batch' = [batch EXCEPT ![w] = Empty]
    /\ expired' = [expired EXCEPT ![w] = FALSE]
    /\ lapsed' = lapsed \ {w}

End(w) == Forget(w) /\ ReleaseLock(w)

\* The table's pass is over: the next table, the next pass, or the end.
NextTable(w) ==
    IF table[w] < Len(InsertOrder)
    THEN AtTable(w, pc[w], table[w] + 1) /\ lock' = lock
    ELSE IF pc[w] = "insert"
         THEN AtTable(w, "delete", 1) /\ lock' = lock
         ELSE End(w)

-----------------------------------------------------------------------------
(* The rest of the system. *)

\* A request inserts or updates a row that points to rows hot has.
Write(r) ==
    /\ Year[Order[r]] = year \/ (LateWrites /\ Year[Order[r]] < year)
    /\ latest[r] < MaxVersion
    /\ hot[r] # 0 \/ latest[r] = 0
    /\ Order[r] = r \/ Order[r] \in Has(hot)
    /\ PointsTo(r) \ {r} \subseteq Has(hot)
    /\ latest' = [latest EXCEPT ![r] = @ + 1]
    /\ hot' = [hot EXCEPT ![r] = latest[r] + 1]
    /\ UNCHANGED <<year, archive, lock, runVars, blocked, lapsed, faults>>

NewYear ==
    /\ year < LastYear
    /\ MidRunNewYear \/ \A w \in Runs : pc[w] = "idle"
    /\ year' = year + 1
    /\ UNCHANGED <<hot, archive, latest, lock, runVars, blocked, lapsed, faults>>

-----------------------------------------------------------------------------
(* A run. *)

\* A run that does not get the lock ends at once.
Start(w) ==
    /\ pc[w] = "idle"
    /\ AcquireLock(w)
    /\ AtTable(w, "insert", 1)
    /\ UNCHANGED <<year, hot, archive, latest, blocked, faults>>

\* Pass 1 reads the next rows past its cursor.
SelectInsert(w) ==
    LET rows == Lowest({r \in Eligible(InsertOrder[table[w]], cutoff[w]) :
                            r > cursor[w]}, BatchSize)
    IN  /\ pc[w] = "insert"
        /\ batch[w] = Empty
        /\ ~ expired[w]
        /\ IF rows = {}
           THEN NextTable(w)
           ELSE /\ batch' = [batch EXCEPT ![w] = Read(rows)]
                /\ UNCHANGED <<lock, pc, table, cutoff, cursor, expired, lapsed>>
        /\ UNCHANGED <<year, hot, archive, latest, blocked, faults>>

\* INSERT ... ON CONFLICT (id) DO NOTHING.
Inserted(w) == [r \in Rows |->
                    IF archive[r] = 0 /\ r \in DOMAIN batch[w]
                    THEN batch[w][r] ELSE archive[r]]

\* A foreign key refuses the statement: rolled back, thrown, lock released.
Refused(w) ==
    /\ blocked' = blocked \cup {w}
    /\ End(w)
    /\ UNCHANGED <<hot, archive>>

\* Mutant: the cursor steps over an id.
AdvanceSkipping(w) ==
    IF Cardinality(DOMAIN batch[w]) < BatchSize
    THEN NextTable(w)
    ELSE /\ cursor' = [cursor EXCEPT ![w] =
                          IF pc[w] = "insert" THEN LastOf(DOMAIN batch[w]) + 1 ELSE @]
         /\ batch' = [batch EXCEPT ![w] = Empty]
         /\ UNCHANGED <<lock, pc, table, cutoff, expired, lapsed>>

\* Mutant: a full batch ends the table's pass, too.
AdvanceEager(w) == NextTable(w)

\* Committed: on to the next batch, unless this one was not full.
Advance(w) ==
    IF Cardinality(DOMAIN batch[w]) < BatchSize
    THEN NextTable(w)
    ELSE /\ cursor' = [cursor EXCEPT ![w] =
                          IF pc[w] = "insert" THEN LastOf(DOMAIN batch[w]) ELSE @]
         /\ batch' = [batch EXCEPT ![w] = Empty]
         /\ UNCHANGED <<lock, pc, table, cutoff, expired, lapsed>>

InsertBatch(w) ==
    /\ pc[w] = "insert"
    /\ batch[w] # Empty
    /\ IF KeysHold(Has(Inserted(w)))
       THEN /\ archive' = Inserted(w)
            /\ Advance(w)
            /\ UNCHANGED <<hot, blocked>>
       ELSE Refused(w)
    /\ UNCHANGED <<year, latest, faults>>

\* Pass 2 reads the last rows, again from the top after each batch.
SelectDelete(w) ==
    LET rows == Highest(Eligible(DeleteOrder[table[w]], cutoff[w]), BatchSize)
    IN  /\ pc[w] = "delete"
        /\ batch[w] = Empty
        /\ ~ expired[w]
        /\ IF rows = {}
           THEN NextTable(w)
           ELSE /\ batch' = [batch EXCEPT ![w] = Read(rows)]
                /\ UNCHANGED <<lock, pc, table, cutoff, cursor, expired, lapsed>>
        /\ UNCHANGED <<year, hot, archive, latest, blocked, faults>>

\* DELETE by id; an order's items go with it (ON DELETE CASCADE).
Gone(w) == {r \in Has(hot) : \/ r \in DOMAIN batch[w]
                             \/ /\ Table[r] = "order_items"
                                /\ Order[r] \in DOMAIN batch[w]}

DeleteBatch(w) ==
    /\ pc[w] = "delete"
    /\ batch[w] # Empty
    /\ IF KeysHold(Has(hot) \ Gone(w))
       THEN /\ hot' = [r \in Rows |-> IF r \in Gone(w) THEN 0 ELSE hot[r]]
            /\ Advance(w)
            /\ UNCHANGED <<archive, blocked>>
       ELSE Refused(w)
    /\ UNCHANGED <<year, latest, faults>>

\* Mutant: a run past its budget skips to pass 2.
StopGoesOn(w) ==
    /\ pc[w] # "idle"
    /\ batch[w] = Empty
    /\ expired[w]
    /\ IF pc[w] = "insert"
       THEN /\ pc' = [pc EXCEPT ![w] = "delete"]
            /\ table' = [table EXCEPT ![w] = 1]
            /\ expired' = [expired EXCEPT ![w] = FALSE]
            /\ UNCHANGED <<cutoff, cursor, batch, lapsed, lock>>
       ELSE End(w)
    /\ UNCHANGED <<year, hot, archive, latest, blocked, faults>>

\* The run is past its budget at the head of a loop: every later table is
\* skipped, those of pass 2 included.
Stop(w) ==
    /\ pc[w] # "idle"
    /\ batch[w] = Empty
    /\ expired[w]
    /\ End(w)
    /\ UNCHANGED <<year, hot, archive, latest, blocked, faults>>

-----------------------------------------------------------------------------
(* Faults. *)

Fault == faults < MaxFaults /\ faults' = faults + 1

\* maxRuntimeMin have passed.
BudgetEnds(w) ==
    /\ Fault
    /\ pc[w] # "idle" /\ ~ expired[w]
    /\ expired' = [expired EXCEPT ![w] = TRUE]
    /\ UNCHANGED <<year, hot, archive, latest, lock, pc, table, cutoff, cursor,
                   batch, blocked, lapsed>>

\* A statement fails: the run throws and releases its lock.
Fails(w) ==
    /\ Fault
    /\ pc[w] # "idle"
    /\ End(w)
    /\ UNCHANGED <<year, hot, archive, latest, blocked>>

\* kill -9: the lock stays until its TTL has passed.
Dies(w) ==
    /\ Fault
    /\ pc[w] # "idle"
    /\ Forget(w)
    /\ UNCHANGED <<year, hot, archive, latest, lock, blocked>>

\* The lock's TTL passes: of a dead run's lock, or of a run that has not come
\* to renew it (renewLock's answer is not looked at: it goes on).
LockLapses ==
    /\ lock # NoRun
    /\ IF pc[lock] = "idle" THEN faults' = faults ELSE Fault
    /\ lapsed' = IF pc[lock] = "idle" THEN lapsed ELSE lapsed \cup {lock}
    /\ lock' = NoRun
    /\ UNCHANGED <<year, hot, archive, latest, runVars, blocked>>

-----------------------------------------------------------------------------
(* The specification. *)

Init ==
    /\ year = FirstYear
    /\ hot = [r \in Rows |-> IF Year[Order[r]] < FirstYear THEN 1 ELSE 0]
    /\ archive = [r \in Rows |-> 0]
    /\ latest = hot
    /\ lock = NoRun
    /\ pc = [w \in Runs |-> "idle"]
    /\ table = [w \in Runs |-> 1]
    /\ cutoff = [w \in Runs |-> FirstYear]
    /\ cursor = [w \in Runs |-> 0]
    /\ batch = [w \in Runs |-> Empty]
    /\ expired = [w \in Runs |-> FALSE]
    /\ blocked = {}
    /\ lapsed = {}
    /\ faults = 0

\* What a run does next.
Run(w) ==
    \/ SelectInsert(w) \/ InsertBatch(w)
    \/ SelectDelete(w) \/ DeleteBatch(w)
    \/ Stop(w)

Next ==
    \/ NewYear \/ LockLapses
    \/ \E r \in Rows : Write(r)
    \/ \E w \in Runs : \/ Start(w) \/ Run(w)
                       \/ BudgetEnds(w) \/ Fails(w) \/ Dies(w)

Spec == Init /\ [][Next]_vars

\* The scheduler's timer keeps starting runs and a run goes on until it ends or
\* dies: as long as any can, some step of one is taken.  Redis lets a dead run's
\* lock go.
Fairness ==
    /\ WF_vars(\E w \in Runs : Start(w) \/ Run(w))
    /\ WF_vars(LockLapses /\ faults' = faults)

FairSpec == Spec /\ Fairness

-----------------------------------------------------------------------------
(* Properties. *)

\* Rows as they were read.
IsBatch(b) == /\ b = [r \in DOMAIN b |-> b[r]]
              /\ DOMAIN b \subseteq Rows
              /\ \A r \in DOMAIN b : b[r] \in 1..MaxVersion + 1

\* Every variable has its type.
TypeOK ==
    /\ year \in FirstYear..LastYear
    /\ hot \in [Rows -> 0..MaxVersion + 1]
    /\ archive \in [Rows -> 0..MaxVersion + 1]
    /\ latest \in [Rows -> 0..MaxVersion + 1]
    /\ lock \in Runs \cup {NoRun}
    /\ pc \in [Runs -> {"idle", "insert", "delete"}]
    /\ table \in [Runs -> 1..Len(InsertOrder)]
    /\ cutoff \in [Runs -> FirstYear..LastYear]
    /\ cursor \in [Runs -> Nat]
    /\ batch = [w \in Runs |-> batch[w]]
    /\ \A w \in Runs : IsBatch(batch[w])
    /\ expired \in [Runs -> BOOLEAN]
    /\ blocked \subseteq Runs
    /\ lapsed \subseteq Runs
    /\ faults \in 0..MaxFaults

\* Whatever a run was doing when it died, stopped or lost its lock, each row is
\* in the one database or the other as it was last written.
NoRowLost ==
    \A r \in Rows : latest[r] \in {hot[r], archive[r]}

\* Rows of past years.
Past == {r \in Rows : Year[Order[r]] < year /\ (Order[r] # r \/ Rootless(Table[r]))}

\* No run is ever stopped by a foreign key: what a row points to is inserted
\* before it and deleted after it, wherever the batches are cut.
NeverBlocked == blocked = {}

\* A run has the lock until its end, unless it lapsed: no other run's release
\* takes it away.
LockKept == \A w \in Runs : pc[w] # "idle" => lock = w \/ w \in lapsed

\* A row comes before another: of an earlier table, or of the same one with a
\* lower id.
Before(s, r) ==
    \/ Table[s] = Table[r] /\ s < r
    \/ \E j \in 1..Len(InsertOrder) :
          Table[r] = InsertOrder[j] /\ \E i \in 1..j - 1 : Table[s] = InsertOrder[i]

\* What the worker says of every pointer, and is true of all but a charge's to
\* its refund: a row points to rows of its order that come before it.
Backwards ==
    \A r \in Rows :
        /\ Order[r] # r => Table[Order[r]] = "orders" /\ Table[r] # "orders"
        /\ \A s \in Refs[r] : Order[s] = Order[r] /\ Before(s, r)

\* Nothing of a past year is written any more, and no year ends during a run.
Quiet == ~ LateWrites /\ ~ MidRunNewYear

\* Every pass of a run has the same cutoff.
SameCutoff == \A w \in Runs : pc[w] # "idle" => cutoff[w] = year

\* Neither database nor a run has an old version of a row.
CopiesTrue ==
    /\ \A r \in Rows : hot[r] \in {0, latest[r]} /\ archive[r] \in {0, latest[r]}
    /\ \A w \in Runs : \A r \in DOMAIN batch[w] : batch[w][r] = latest[r]

\* Only rows of past years are in the archive or in a run's hands.
OnlyPast ==
    /\ Has(archive) \subseteq Past
    /\ \A w \in Runs : DOMAIN batch[w] \subseteq Past

\* What a run's cursor has passed is in the archive; what it is about to pass is
\* in its batch.
InTable(w, r) == Table[r] = InsertOrder[table[w]]
PassOneComplete ==
    \A w \in Runs : pc[w] = "insert" =>
        \A r \in Past \cap Has(hot) :
            /\ (\E i \in 1..table[w] - 1 : Table[r] = InsertOrder[i])
                  => archive[r] # 0
            /\ InTable(w, r) /\ r <= cursor[w] => archive[r] # 0
            /\ InTable(w, r) /\ r > cursor[w] /\ batch[w] # Empty =>
                  \/ r \in DOMAIN batch[w]
                  \/ /\ Cardinality(DOMAIN batch[w]) >= BatchSize
                     /\ \A s \in DOMAIN batch[w] : s < r

\* Pass 2 begins when the archive has every row of a past year.
PassTwoCovered ==
    \A w \in Runs : pc[w] = "delete" => Past \cap Has(hot) \subseteq Has(archive)

\* The tables pass 2 is done with have no row of a past year left, and a batch
\* that is not full has all that is left of its table.
PassTwoComplete ==
    \A w \in Runs : pc[w] = "delete" =>
        \A r \in Past \cap Has(hot) :
            /\ \A i \in 1..table[w] - 1 : Table[r] # DeleteOrder[i]
            /\ Table[r] = DeleteOrder[table[w]] /\ batch[w] # Empty =>
                  \/ r \in DOMAIN batch[w]
                  \/ Cardinality(DOMAIN batch[w]) >= BatchSize

\* No row is in hot without its order.
OrdersStay == \A r \in Has(hot) : Order[r] \in Has(hot)

\* The inductive invariant.
IInv ==
    /\ TypeOK
    /\ LockKept
    /\ Quiet => /\ NoRowLost /\ SameCutoff /\ CopiesTrue /\ OnlyPast
                /\ PassOneComplete /\ PassTwoCovered /\ PassTwoComplete
                /\ OrdersStay

\* A run comes to its end by itself, and no foreign key has stopped it.
Completes(w) ==
    /\ pc[w] = "delete" /\ table[w] = Len(InsertOrder) /\ ~ expired[w]
    /\ pc'[w] = "idle" /\ faults' = faults /\ w \notin blocked'

\* A run that comes to its end by itself leaves no row of a past year in hot:
\* the next one moves nothing.
NothingLeft ==
    [][\A w \in Runs : Completes(w) => \A r \in Past : hot'[r] = 0]_vars

\* The rows as a reader of both databases sees them.
Cold == INSTANCE ColdStore WITH past <- Past

\* Archival moves every row of a past year, once, whole and one way.
MovesRows == Cold!Spec
=============================================================================
