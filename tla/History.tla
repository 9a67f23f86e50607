------------------------------ MODULE History ------------------------------
(***************************************************************************)
(* Readers while archival moves rows under them: GET /orders/:publicId with*)
(* its fallback to the archive, and the lists (a customer's orders of a    *)
(* year, a branch's orders in a range of dates, an agent's tasks and       *)
(* earnings, a restaurant's payouts), page after page.                     *)
(*                                                                         *)
(* One client reads; it fetches a page in one step, from the database the  *)
(* list is routed to at that moment.                                       *)
(***************************************************************************)
EXTENDS Archival

CONSTANTS
    Stamp, MicrosPerMilli, MaxLimit, DefaultLimit,  \* see Listing
    YearStart,    \* [FirstYear..LastYear -> Nat]: the stamp a year begins with
    Asked         \* lists asked for: [list, year, lower, upper, dir, limit]

L == INSTANCE Listing

ASSUME StampsAssumption ==
    /\ Stamp \in [Rows -> Nat]
    /\ MicrosPerMilli \in Nat \ {0}
    /\ MaxLimit \in Nat \ {0}
    /\ DefaultLimit \in 1..MaxLimit

Lists == {"customer_orders", "restaurant_orders", "agent_tasks", "agent_earnings",
          "payouts"}

ASSUME AskedAssumption ==
    /\ \A r \in Rows : Table[r] = "orders" =>
          /\ YearStart[Year[r]] <= Stamp[r]
          /\ \A y \in DOMAIN YearStart : y > Year[r] => Stamp[r] < YearStart[y]
    /\ \A a \in Asked : /\ a.list \in Lists
                        /\ a.dir \in {"asc", "desc"}
                        /\ a.limit \in Nat

VARIABLES
    reader,    \* "idle", "listing", "ended", "straddled", "looking", "missing"
    ask,       \* what is asked for
    position,  \* the cursor the last page ended with
    listed,    \* the rows shown so far
    repeated,  \* rows shown more than once
    steady     \* history: the rows that matched at every page so far

readVars == <<reader, ask, position, listed, repeated, steady>>
allVars == <<vars, readVars>>

-----------------------------------------------------------------------------

InRange(r) == /\ ask.lower = 0 \/ Stamp[r] >= ask.lower
              /\ ask.upper = 0 \/ Stamp[r] <= ask.upper

\* The WHERE of each list.
CustomerOrders(r) == Table[r] = "orders" /\ Year[r] = ask.year
BranchOrders(r) == Table[r] = "orders" /\ InRange(r)
AgentTasks(r) == Table[r] = "deliveries"
AgentEarnings(r) == Table[r] = "agent_earnings" /\ InRange(r)
Payouts(r) == Table[r] = "transactions" /\ Order[r] = r /\ InRange(r)

Wanted(r) ==
    CASE ask.list = "customer_orders" -> CustomerOrders(r)
      [] ask.list = "restaurant_orders" -> BranchOrders(r)
      [] ask.list = "agent_tasks" -> AgentTasks(r)
      [] ask.list = "agent_earnings" -> AgentEarnings(r)
      [] ask.list = "payouts" -> Payouts(r)

\* Tasks and earnings are shown with their order, from the same database.
Matching(d) == {r \in Has(d) : Wanted(r) /\ Order[r] \in Has(d)}

\* Which database a list is read from: a customer's by the year asked for, a
\* branch's by the dates, every other list from hot.
CustomerWhere == IF ask.year < year THEN "archive" ELSE "hot"
BranchWhere == L!ClassifyDateRange(ask.lower, ask.upper, YearStart[year])

Where == CASE ask.list = "customer_orders" -> CustomerWhere
           [] ask.list = "restaurant_orders" -> BranchWhere
           [] OTHER -> "hot"

Limit == L!ParsedLimit(ask.limit)

-----------------------------------------------------------------------------
(* Lists. *)

Ask(a) ==
    /\ reader = "idle"
    /\ reader' = "listing"
    /\ ask' = a
    /\ position' = L!NoCursor
    /\ listed' = {} /\ repeated' = {} /\ steady' = {}
    /\ UNCHANGED vars

\* A page from one database.
FetchPage ==
    /\ reader = "listing"
    /\ Where # "straddle"
    /\ LET matching == Matching(IF Where = "hot" THEN hot ELSE archive)
           page == L!Page(matching, position, Limit, ask.dir)
       IN  /\ listed' = listed \cup page.data
           /\ repeated' = repeated \cup (listed \cap page.data)
           /\ steady' = IF position = L!NoCursor THEN matching
                                                ELSE steady \cap matching
           /\ position' = page.next
           /\ reader' = IF page.hasMore THEN "listing" ELSE "ended"
    /\ UNCHANGED <<ask, vars>>

\* The straddling page: a cursor is ignored and none is given.
FetchStraddling ==
    /\ reader = "listing"
    /\ Where = "straddle"
    /\ LET page == L!Straddling(Matching(hot), Matching(archive), Limit, ask.dir)
       IN  /\ listed' = {c.row : c \in page.data}
           /\ repeated' = Matching(hot) \cap Matching(archive)
           /\ steady' = Matching(hot) \cup Matching(archive)
    /\ position' = L!NoCursor
    /\ reader' = "straddled"
    /\ UNCHANGED <<ask, vars>>

\* The client has read the answer, or gives up.
Close ==
    /\ reader # "idle"
    /\ reader' = "idle"
    /\ ask' = [list |-> "none"]
    /\ position' = L!NoCursor
    /\ listed' = {} /\ repeated' = {} /\ steady' = {}
    /\ UNCHANGED vars

-----------------------------------------------------------------------------
(* getOrder. *)

\* Hot first; only system_admin goes on to the archive.
LookHot(o, admin) ==
    /\ reader = "idle"
    /\ Table[o] = "orders" /\ latest[o] # 0
    /\ o \notin Has(hot)
    /\ reader' = IF admin THEN "looking" ELSE "missing"
    /\ ask' = [list |-> "none", order |-> o, admin |-> admin]
    /\ UNCHANGED <<position, listed, repeated, steady, vars>>

LookArchive ==
    /\ reader = "looking"
    /\ IF ask.order \in Has(archive)
       THEN reader' = "idle" /\ ask' = [list |-> "none"]
       ELSE reader' = "missing" /\ ask' = ask
    /\ UNCHANGED <<position, listed, repeated, steady, vars>>

-----------------------------------------------------------------------------
(* The specification. *)

ReadInit ==
    /\ reader = "idle"
    /\ ask = [list |-> "none"]
    /\ position = L!NoCursor
    /\ listed = {} /\ repeated = {} /\ steady = {}

ReadNext ==
    \/ \E a \in Asked : Ask(a)
    \/ FetchPage \/ FetchStraddling \/ Close
    \/ \E o \in Rows, admin \in BOOLEAN : LookHot(o, admin)
    \/ LookArchive

Unread == UNCHANGED readVars

ArchivalNext ==
    \/ NewYear /\ Unread
    \/ LockLapses /\ Unread
    \/ \E r \in Rows : Write(r) /\ Unread
    \/ \E w \in Runs : \/ Start(w) /\ Unread
                       \/ SelectInsert(w) /\ Unread
                       \/ InsertBatch(w) /\ Unread
                       \/ SelectDelete(w) /\ Unread
                       \/ DeleteBatch(w) /\ Unread
                       \/ Stop(w) /\ Unread
                       \/ BudgetEnds(w) /\ Unread
                       \/ Fails(w) /\ Unread
                       \/ Dies(w) /\ Unread

HistoryInit == Init /\ ReadInit

HistorySpec ==
    /\ HistoryInit
    /\ [][ArchivalNext \/ ReadNext]_allVars
    /\ Fairness

-----------------------------------------------------------------------------
(* Properties. *)

\* Every variable has its type.
ReadTypeOK ==
    /\ reader \in {"idle", "listing", "ended", "straddled", "looking", "missing"}
    /\ position \in [milli : Nat, id : Nat]
    /\ listed \subseteq Rows
    /\ repeated \subseteq Rows
    /\ steady \subseteq Rows

\* Within a millisecond, the rows of a table have their ids in the order of their
\* stamps: ids are drawn from a sequence, created_at is the time of the insert.
IdsAscend ==
    \A r, s \in Rows : Table[r] = Table[s] /\ L!Milli(r) = L!Milli(s) /\ r < s
                        => Stamp[r] <= Stamp[s]

\* A client that follows the cursors to the end has seen every row that was
\* there all along, and none twice, whatever archival did between its pages.
WalkExact ==
    reader = "ended" => repeated = {} /\ steady \subseteq listed

\* A straddling page has the first rows of both databases together, as long as
\* no row in range is in both.
StraddleFirst ==
    reader = "straddled" /\ repeated = {} =>
        /\ Cardinality(listed) = IF Cardinality(steady) < Limit
                                 THEN Cardinality(steady) ELSE Limit
        /\ \A r \in listed, s \in steady \ listed :
              IF ask.dir = "asc" THEN L!Milli(r) <= L!Milli(s)
                                 ELSE L!Milli(r) >= L!Milli(s)

\* Lists show what they should.
ListsExact == ReadTypeOK /\ WalkExact /\ StraddleFirst

\* An administrator always finds an order that exists, while a run moves it
\* too; anybody else finds every order of the current year.
OrderFound ==
    reader = "missing" => ~ ask.admin /\ ask.order \in Past
=============================================================================
