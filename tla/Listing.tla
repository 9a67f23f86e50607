------------------------------ MODULE Listing ------------------------------
(***************************************************************************)
(* Lists in pages: parsePaginationQuery, applyCursorPagination and         *)
(* buildPaginationResult, which every list of the API goes through, and    *)
(* what listRestaurantOrders makes of a range of dates.                    *)
(*                                                                         *)
(* A row is its id; a page is a set of rows, which the sort order makes a  *)
(* sequence.  The database sorts by microseconds; a cursor has only the    *)
(* milliseconds of the last row shown (a JavaScript Date).                 *)
(***************************************************************************)
EXTENDS Integers, FiniteSets

CONSTANTS
    Rows,
    Stamp,          \* [Rows -> Nat]: the column sorted by, in microseconds
    MicrosPerMilli, \* 1000
    MaxLimit,       \* 1000
    DefaultLimit    \* 20

Milli(r) == Stamp[r] \div MicrosPerMilli

\* parsePaginationQuery: 0 stands for a limit that is absent or no number.
ParsedLimit(raw) ==
    IF raw <= 0 THEN DefaultLimit
    ELSE IF raw > MaxLimit THEN MaxLimit ELSE raw

\* ORDER BY the column, then the id, both in the direction asked for.
Earlier(r, s) == Stamp[r] < Stamp[s] \/ (Stamp[r] = Stamp[s] /\ r < s)
Precedes(r, s, dir) == IF dir = "asc" THEN Earlier(r, s) ELSE Earlier(s, r)

NoCursor == [milli |-> 0, id |-> 0]
CursorAt(r) == [milli |-> Milli(r), id |-> r]

\* Mutant: the cursor's milliseconds are compared with the whole stamp.
BeyondUntruncated(c, r, dir) ==
    \/ c = NoCursor
    \/ IF dir = "asc"
       THEN \/ Stamp[r] > c.milli * MicrosPerMilli
            \/ Stamp[r] = c.milli * MicrosPerMilli /\ r > c.id
       ELSE \/ Stamp[r] < c.milli * MicrosPerMilli
            \/ Stamp[r] = c.milli * MicrosPerMilli /\ r < c.id

\* The condition a cursor adds to the query.
Beyond(c, r, dir) ==
    \/ c = NoCursor
    \/ IF dir = "asc"
       THEN Milli(r) > c.milli \/ (Milli(r) = c.milli /\ r > c.id)
       ELSE Milli(r) < c.milli \/ (Milli(r) = c.milli /\ r < c.id)

\* The first rows of a set in an order, and the last of them.
First(S, n, dir) ==
    {r \in S : Cardinality({s \in S : Precedes(s, r, dir)}) < n}
LastOf(S, dir) == CHOOSE r \in S : \A s \in S \ {r} : Precedes(s, r, dir)

\* One page of the rows that match; limit + 1 are read to see if more follow.
Page(matching, c, limit, dir) ==
    LET left == {r \in matching : Beyond(c, r, dir)}
        read == First(left, limit + 1, dir)
        data == First(read, limit, dir)
        more == Cardinality(read) > limit
    IN  [data |-> data, hasMore |-> more,
         next |-> IF more THEN CursorAt(LastOf(data, dir)) ELSE NoCursor]

\* classifyDateRange: 0 is an absent bound.
ClassifyDateRange(lower, upper, yearStart) ==
    IF lower = 0 \/ upper = 0 THEN "hot"
    ELSE IF upper < yearStart THEN "archive"
    ELSE IF lower >= yearStart THEN "hot" ELSE "straddle"

\* The straddling page: the first page of each database, without its cursor,
\* merged by milliseconds with hot first among equals, and cut.
Copies(S, d) == {[db |-> d, row |-> r] : r \in S}

MergedBefore(a, b, dir) ==
    IF Milli(a.row) # Milli(b.row)
    THEN IF dir = "asc" THEN Milli(a.row) < Milli(b.row)
                        ELSE Milli(a.row) > Milli(b.row)
    ELSE IF a.db # b.db THEN a.db = "hot"
                        ELSE Precedes(a.row, b.row, dir)

Straddling(hotRows, archiveRows, limit, dir) ==
    LET combined == Copies(First(hotRows, limit, dir), "hot")
                      \cup Copies(First(archiveRows, limit, dir), "archive")
        data == {a \in combined :
                    Cardinality({b \in combined : MergedBefore(b, a, dir)}) < limit}
    IN  [data |-> data, hasMore |-> Cardinality(combined) > limit]
=============================================================================
