---------------------------- MODULE HistoryProofs ----------------------------
(***************************************************************************)
(* Theorems about History for any rows, stamps, lists, page sizes and any  *)
(* archival at work: walks over lists are exact, straddling pages have the *)
(* first rows, and orders are found.                                       *)
(***************************************************************************)
EXTENDS History, ArchivalProofs

-----------------------------------------------------------------------------
(* The first elements of a finite set in a total order. *)

\* R is a strict total order on S.
Total(S, R) ==
    /\ \A a \in S : <<a, a>> \notin R
    /\ \A a, b, c \in S : <<a, b>> \in R /\ <<b, c>> \in R => <<a, c>> \in R
    /\ \A a, b \in S : a # b => <<a, b>> \in R \/ <<b, a>> \in R

Priors(S, R, r) == {s \in S : <<s, r>> \in R}
FirstOf(S, R, n) == {r \in S : Cardinality(Priors(S, R, r)) < n}

\* A part of a finite set has no more elements, and fewer if it misses one.
LEMMA PriorsCounted ==
    ASSUME NEW S, IsFiniteSet(S), NEW R
    PROVE  /\ Cardinality(S) \in Nat
           /\ \A T \in SUBSET S : /\ IsFiniteSet(T) /\ Cardinality(T) \in Nat
                                  /\ Cardinality(T) <= Cardinality(S)
                                  /\ T # S => Cardinality(T) < Cardinality(S)
           /\ \A r \in S : /\ IsFiniteSet(Priors(S, R, r))
                           /\ Cardinality(Priors(S, R, r)) \in Nat
<1>1. \A T \in SUBSET S : IsFiniteSet(T) /\ Cardinality(T) \in Nat
  BY FS_Subset, FS_CardinalityType
<1>2. \A T \in SUBSET S : /\ Cardinality(T) <= Cardinality(S)
                          /\ T # S => Cardinality(T) < Cardinality(S)
  BY <1>1, FS_Subset, FS_CardinalityType
<1>3. \A r : Priors(S, R, r) \in SUBSET S
  BY DEF Priors
<1>. QED
  BY <1>1, <1>2, <1>3, FS_CardinalityType

\* What comes before has fewer priors.
LEMMA FewerPriors ==
    ASSUME NEW S, IsFiniteSet(S), NEW R, Total(S, R),
           NEW a \in S, NEW b \in S, <<a, b>> \in R
    PROVE  Cardinality(Priors(S, R, a)) < Cardinality(Priors(S, R, b))
<1>1. Priors(S, R, a) \in SUBSET Priors(S, R, b)
  BY DEF Priors, Total
<1>2. a \in Priors(S, R, b) /\ a \notin Priors(S, R, a)
  BY DEF Priors, Total
<1>. QED
  BY <1>1, <1>2, PriorsCounted, FS_Subset

\* A set that is not empty has a first element ...
LEMMA FirstElement ==
    ASSUME NEW S, IsFiniteSet(S), S # {}, NEW R, Total(S, R)
    PROVE  \E m \in S : \A s \in S \ {m} : <<m, s>> \in R
<1>. DEFINE Counts == {Cardinality(Priors(S, R, r)) : r \in S}
<1>1. Counts \in SUBSET Nat /\ Counts # {}
  BY PriorsCounted
<1>2. \E k \in Counts : \A c \in Counts : k <= c
  BY <1>1, LeastNumber
<1>3. PICK m \in S :
          \A s \in S : Cardinality(Priors(S, R, m)) <= Cardinality(Priors(S, R, s))
  BY <1>2
<1>4. ASSUME NEW s \in S \ {m} PROVE <<s, m>> \notin R
  <2>1. /\ Cardinality(Priors(S, R, m)) <= Cardinality(Priors(S, R, s))
        /\ Cardinality(Priors(S, R, m)) \in Nat /\ Cardinality(Priors(S, R, s)) \in Nat
    BY <1>3, PriorsCounted
  <2>. QED
    BY <2>1, FewerPriors
<1>. QED
  BY <1>4 DEF Total

\* ... and a last one.
LEMMA LastElement ==
    ASSUME NEW S, IsFiniteSet(S), S # {}, NEW R, Total(S, R)
    PROVE  \E m \in S : \A s \in S \ {m} : <<s, m>> \in R
<1>. DEFINE Q == {p \in S \X S : <<p[2], p[1]>> \in R}
<1>1. \A a, b \in S : <<a, b>> \in Q <=> <<b, a>> \in R
  OBVIOUS
<1>. HIDE DEF Q
<1>2. Total(S, Q)
  BY <1>1 DEF Total
<1>3. PICK m \in S : \A s \in S \ {m} : <<m, s>> \in Q
  BY <1>2, FirstElement
<1>. QED
  BY <1>1, <1>3

\* The n first elements come before all others, and are n if there are others.
LEMMA FirstOfSet ==
    ASSUME NEW S, IsFiniteSet(S), NEW R, Total(S, R), NEW n \in Nat
    PROVE  /\ FirstOf(S, R, n) \in SUBSET S
           /\ IsFiniteSet(FirstOf(S, R, n))
           /\ Cardinality(FirstOf(S, R, n)) \in Nat
           /\ Cardinality(FirstOf(S, R, n)) <= n
           /\ \A r \in S \ FirstOf(S, R, n) :
                 /\ Cardinality(FirstOf(S, R, n)) = n
                 /\ \A s \in FirstOf(S, R, n) : <<s, r>> \in R
<1>. DEFINE F == FirstOf(S, R, n)
            C(r) == Cardinality(Priors(S, R, r))
<1>1. /\ F \in SUBSET S /\ IsFiniteSet(F) /\ Cardinality(F) \in Nat
      /\ \A r \in S : r \in F <=> C(r) < n
      /\ \A r \in S : C(r) \in Nat
  BY PriorsCounted DEF FirstOf
<1>2. \A a, b \in S : <<a, b>> \in R => C(a) < C(b)
  BY FewerPriors
<1>. HIDE DEF F, C
<1>3. Cardinality(F) <= n
  <2>1. CASE F = {}
    BY <2>1, FS_EmptySet
  <2>2. CASE F # {}
    <3>1. Total(F, R)
      BY <1>1 DEF Total
    <3>2. PICK m \in F : \A s \in F \ {m} : <<s, m>> \in R
      BY <1>1, <2>2, <3>1, LastElement
    <3>3. F \ {m} \in SUBSET Priors(S, R, m)
      BY <1>1, <3>2 DEF Priors
    <3>4. Cardinality(F \ {m}) <= C(m)
      BY <1>1, <3>2, <3>3, PriorsCounted, FS_Subset DEF C
    <3>5. Cardinality(F \ {m}) = Cardinality(F) - 1
      BY <1>1, <3>2, FS_RemoveElement
    <3>. QED
      BY <1>1, <3>2, <3>4, <3>5
  <2>. QED
    BY <2>1, <2>2
<1>4. ASSUME NEW r \in S \ F PROVE \A s \in F : <<s, r>> \in R
  <2>. SUFFICES ASSUME NEW s \in F, <<r, s>> \in R PROVE FALSE
    BY <1>1 DEF Total
  <2>. QED
    BY <1>1, <1>2
<1>5. ASSUME NEW r \in S \ F PROVE Cardinality(F) >= n
  <2>1. IsFiniteSet(S \ F) /\ S \ F # {} /\ Total(S \ F, R)
    BY PriorsCounted DEF Total
  <2>2. PICK m \in S \ F : \A s \in (S \ F) \ {m} : <<m, s>> \in R
    BY <2>1, FirstElement
  <2>3. Priors(S, R, m) \in SUBSET F
    BY <2>2 DEF Priors, Total
  <2>4. C(m) <= Cardinality(F)
    BY <1>1, <2>3, FS_Subset DEF C
  <2>. QED
    BY <1>1, <2>2, <2>4
<1>6. \A r \in S \ F : Cardinality(F) = n
  BY <1>1, <1>3, <1>5
<1>. QED
  BY <1>1, <1>3, <1>4, <1>6 DEF F

-----------------------------------------------------------------------------
(* Rows in the order of a list. *)

Directions == {"asc", "desc"}
Sorted(S, dir) == {p \in S \X S : L!Precedes(p[1], p[2], dir)}

\* Rows and stamps are numbers, and a later stamp is of no earlier millisecond.
LEMMA Stamps ==
    /\ \A r \in Rows : r \in Nat /\ r # 0 /\ Stamp[r] \in Nat /\ L!Milli(r) \in Nat
    /\ \A r, s \in Rows : Stamp[r] <= Stamp[s] => L!Milli(r) <= L!Milli(s)
<1>1. \A r \in Rows : r \in Nat /\ r # 0 /\ Stamp[r] \in Nat
  BY RowsAssumption, StampsAssumption
<1>2. MicrosPerMilli \in Nat \ {0}
  BY StampsAssumption
<1>3. \A a \in Nat : a \div MicrosPerMilli \in Nat
  BY <1>2
<1>4. \A a, b \in Nat : a <= b => a \div MicrosPerMilli <= b \div MicrosPerMilli
  BY <1>2
<1>. QED
  BY <1>1, <1>3, <1>4 DEF L!Milli

\* Listing counts as this module does.
LEMMA SameCount == \A S : L!Cardinality(S) = Cardinality(S)
BY DEF L!Cardinality, Cardinality

\* A list is totally ordered.
LEMMA SortedTotal ==
    ASSUME NEW S \in SUBSET Rows, NEW dir \in Directions
    PROVE  /\ Total(S, Sorted(S, dir))
           /\ \A a, b \in S : <<a, b>> \in Sorted(S, dir) <=> L!Precedes(a, b, dir)
           /\ \A n : L!First(S, n, dir) = FirstOf(S, Sorted(S, dir), n)
<1>1. \A a, b \in S : <<a, b>> \in Sorted(S, dir) <=> L!Precedes(a, b, dir)
  BY DEF Sorted
<1>2. \A a \in S : ~ L!Precedes(a, a, dir)
  BY Stamps DEF L!Precedes, L!Earlier, Directions
<1>3. \A a, b, c \in S : L!Precedes(a, b, dir) /\ L!Precedes(b, c, dir)
                           => L!Precedes(a, c, dir)
  BY Stamps DEF L!Precedes, L!Earlier, Directions
<1>4. \A a, b \in S : a # b => L!Precedes(a, b, dir) \/ L!Precedes(b, a, dir)
  BY Stamps DEF L!Precedes, L!Earlier, Directions
<1>5. Total(S, Sorted(S, dir))
  BY <1>1, <1>2, <1>3, <1>4 DEF Total
<1>6. ASSUME NEW n PROVE L!First(S, n, dir) = FirstOf(S, Sorted(S, dir), n)
  <2>. DEFINE Q(r) == {s \in S : L!Precedes(s, r, dir)}
  <2>1. \A r \in S : Priors(S, Sorted(S, dir), r) = Q(r)
    BY <1>1 DEF Priors
  <2>2. L!First(S, n, dir) = {r \in S : Cardinality(Q(r)) < n}
    BY SameCount DEF L!First
  <2>. HIDE DEF Q
  <2>3. \A r \in S : Cardinality(Priors(S, Sorted(S, dir), r)) = Cardinality(Q(r))
    BY <2>1
  <2>4. FirstOf(S, Sorted(S, dir), n) =
           {r \in S : Cardinality(Priors(S, Sorted(S, dir), r)) < n}
    BY DEF FirstOf
  <2>. QED
    BY <2>2, <2>3, <2>4
<1>. QED
  BY <1>1, <1>5, <1>6

\* The rows a page has room for.
LEMMA FirstRows ==
    ASSUME NEW S \in SUBSET Rows, NEW dir \in Directions, NEW n \in Nat
    PROVE  /\ L!First(S, n, dir) \in SUBSET S
           /\ Cardinality(L!First(S, n, dir)) \in Nat
           /\ Cardinality(L!First(S, n, dir)) <= n
           /\ \A r \in S \ L!First(S, n, dir) :
                 /\ Cardinality(L!First(S, n, dir)) = n
                 /\ \A s \in L!First(S, n, dir) : L!Precedes(s, r, dir)
<1>. DEFINE R == Sorted(S, dir)
<1>1. IsFiniteSet(S)
  BY RowsAssumption, FS_Subset
<1>2. /\ Total(S, R) /\ L!First(S, n, dir) = FirstOf(S, R, n)
      /\ \A a, b \in S : <<a, b>> \in R <=> L!Precedes(a, b, dir)
  BY SortedTotal
<1>. HIDE DEF R
<1>3. /\ FirstOf(S, R, n) \in SUBSET S
      /\ Cardinality(FirstOf(S, R, n)) \in Nat
      /\ Cardinality(FirstOf(S, R, n)) <= n
      /\ \A r \in S \ FirstOf(S, R, n) :
            /\ Cardinality(FirstOf(S, R, n)) = n
            /\ \A s \in FirstOf(S, R, n) : <<s, r>> \in R
  BY <1>1, <1>2, FirstOfSet
<1>. QED
  BY <1>2, <1>3

\* The last row of a page.
LEMMA LastRow ==
    ASSUME NEW S \in SUBSET Rows, S # {}, NEW dir \in Directions
    PROVE  /\ L!LastOf(S, dir) \in S
           /\ \A s \in S \ {L!LastOf(S, dir)} : L!Precedes(s, L!LastOf(S, dir), dir)
<1>1. IsFiniteSet(S)
  BY RowsAssumption, FS_Subset
<1>2. \E m \in S : \A s \in S \ {m} : L!Precedes(s, m, dir)
  BY <1>1, SortedTotal, LastElement
<1>. QED
  BY <1>2 DEF L!LastOf

-----------------------------------------------------------------------------
(* Cursors. *)

\* A cursor is none, or at a row.
IsCursor(c) == c = L!NoCursor \/ \E q \in Rows : c = L!CursorAt(q)

\* Beyond a row that is beyond the cursor, rows are beyond the cursor; no row is
\* beyond itself.
LEMMA CursorOrder ==
    ASSUME NEW dir \in Directions, NEW m \in Rows
    PROVE  /\ L!CursorAt(m) # L!NoCursor
           /\ \A c, r : /\ IsCursor(c) /\ r \in Rows /\ L!Beyond(c, m, dir)
                         /\ L!Beyond(L!CursorAt(m), r, dir)
                         => L!Beyond(c, r, dir)
           /\ ~ L!Beyond(L!CursorAt(m), m, dir)
           /\ \A r \in Rows : \/ L!Beyond(L!CursorAt(m), r, dir)
                               \/ L!Beyond(L!CursorAt(r), m, dir) \/ r = m
           /\ \A r \in Rows : ~ (/\ L!Beyond(L!CursorAt(m), r, dir)
                                  /\ L!Beyond(L!CursorAt(r), m, dir))
<1>1. /\ \A q \in Rows : /\ L!CursorAt(q).milli = L!Milli(q)
                          /\ L!CursorAt(q).id = q /\ q # 0
      /\ L!NoCursor.id = 0
  BY Stamps DEF L!CursorAt, L!NoCursor
<1>2. \A q, r \in Rows :
         L!Beyond(L!CursorAt(q), r, dir) <=>
            IF dir = "asc"
            THEN L!Milli(r) > L!Milli(q) \/ (L!Milli(r) = L!Milli(q) /\ r > q)
            ELSE L!Milli(r) < L!Milli(q) \/ (L!Milli(r) = L!Milli(q) /\ r < q)
  BY <1>1 DEF L!Beyond
<1>3. ASSUME NEW c, IsCursor(c), NEW r \in Rows, L!Beyond(c, m, dir),
             L!Beyond(L!CursorAt(m), r, dir)
      PROVE  L!Beyond(c, r, dir)
  <2>1. CASE c = L!NoCursor
    BY <2>1 DEF L!Beyond
  <2>2. ASSUME NEW q \in Rows, c = L!CursorAt(q)
        PROVE  L!Beyond(c, r, dir)
    BY <1>2, <1>3, <2>2, Stamps
  <2>. QED
    BY <1>3, <2>1, <2>2 DEF IsCursor
<1>4. ~ L!Beyond(L!CursorAt(m), m, dir)
  BY <1>2, Stamps
<1>5. \A r \in Rows : \/ L!Beyond(L!CursorAt(m), r, dir)
                      \/ L!Beyond(L!CursorAt(r), m, dir) \/ r = m
  BY <1>2, Stamps
<1>6. \A r \in Rows : ~ (/\ L!Beyond(L!CursorAt(m), r, dir)
                         /\ L!Beyond(L!CursorAt(r), m, dir))
  BY <1>2, Stamps
<1>. QED
  BY <1>1, <1>3, <1>4, <1>5, <1>6

\* Where ids and stamps agree, what comes after a row is beyond its cursor.
LEMMA CursorFollows ==
    ASSUME NEW dir \in Directions, NEW r \in Rows, NEW s \in Rows,
           IdsAscend, Table[r] = Table[s], L!Precedes(r, s, dir)
    PROVE  L!Beyond(L!CursorAt(r), s, dir)
<1>1. /\ L!CursorAt(r).milli = L!Milli(r) /\ L!CursorAt(r).id = r
  BY DEF L!CursorAt
<1>2. /\ L!Milli(r) = L!Milli(s) /\ r < s => Stamp[r] <= Stamp[s]
      /\ L!Milli(r) = L!Milli(s) /\ s < r => Stamp[s] <= Stamp[r]
  BY DEF IdsAscend
<1>3. CASE dir = "asc"
  <2>1. Stamp[r] < Stamp[s] \/ (Stamp[r] = Stamp[s] /\ r < s)
    BY <1>3 DEF L!Precedes, L!Earlier
  <2>2. L!Milli(r) <= L!Milli(s)
    BY <2>1, Stamps
  <2>3. L!Milli(s) > L!Milli(r) \/ (L!Milli(s) = L!Milli(r) /\ s > r)
    BY <1>2, <2>1, <2>2, Stamps
  <2>. QED
    BY <1>1, <1>3, <2>3 DEF L!Beyond
<1>4. CASE dir = "desc"
  <2>1. Stamp[s] < Stamp[r] \/ (Stamp[s] = Stamp[r] /\ s < r)
    BY <1>4 DEF L!Precedes, L!Earlier
  <2>2. L!Milli(s) <= L!Milli(r)
    BY <2>1, Stamps
  <2>3. L!Milli(s) < L!Milli(r) \/ (L!Milli(s) = L!Milli(r) /\ s < r)
    BY <1>2, <2>1, <2>2, Stamps
  <2>. QED
    BY <1>1, <1>4, <2>3 DEF L!Beyond
<1>. QED
  BY <1>3, <1>4 DEF Directions

\* A page shows rows beyond its cursor only; what it leaves out is beyond the next
\* cursor, what it shows is not.
IsPage(page, M, c, dir) ==
    /\ page.data \in SUBSET M
    /\ \A r \in page.data : L!Beyond(c, r, dir)
    /\ ~ page.hasMore =>
          /\ page.next = L!NoCursor
          /\ \A r \in M : L!Beyond(c, r, dir) => r \in page.data
    /\ page.hasMore =>
          \E m \in page.data :
             /\ page.next = L!CursorAt(m)
             /\ \A r \in M : L!Beyond(c, r, dir) =>
                   r \in page.data \/ L!Beyond(page.next, r, dir)
             /\ \A r \in page.data : ~ L!Beyond(page.next, r, dir)

LEMMA PageOf ==
    ASSUME IdsAscend, NEW M \in SUBSET Rows, \A r, s \in M : Table[r] = Table[s],
           NEW c, IsCursor(c), NEW limit \in Nat \ {0}, NEW dir \in Directions
    PROVE  IsPage(L!Page(M, c, limit, dir), M, c, dir)
<1>. DEFINE page == L!Page(M, c, limit, dir)
<1>. DEFINE left == {r \in M : L!Beyond(c, r, dir)}
            read == L!First(left, limit + 1, dir)
            data == L!First(read, limit, dir)
            more == Cardinality(read) > limit
<1>1. /\ page.data = data /\ page.hasMore = more
      /\ page.next = IF more THEN L!CursorAt(L!LastOf(data, dir)) ELSE L!NoCursor
  BY SameCount DEF L!Page
<1>. HIDE DEF page
<1>2. /\ left \in SUBSET M /\ left \in SUBSET Rows /\ limit + 1 \in Nat
      /\ \A r \in M : r \in left <=> L!Beyond(c, r, dir)
  OBVIOUS
<1>. HIDE DEF left
<1>3. /\ read \in SUBSET left /\ Cardinality(read) \in Nat
      /\ \A r \in left \ read : /\ Cardinality(read) = limit + 1
                               /\ \A s \in read : L!Precedes(s, r, dir)
  BY <1>2, FirstRows
<1>4. read \in SUBSET Rows
  BY <1>2, <1>3
<1>. HIDE DEF read
<1>5. /\ data \in SUBSET read /\ Cardinality(data) \in Nat
      /\ \A r \in read \ data : /\ Cardinality(data) = limit
                               /\ \A s \in data : L!Precedes(s, r, dir)
  BY <1>4, FirstRows
<1>. HIDE DEF data
<1>6. ASSUME NEW r \in read \ data PROVE more
  <2>1. IsFiniteSet(read) /\ data \in SUBSET read /\ data # read
    BY <1>4, <1>5, <1>6, RowsAssumption, FS_Subset
  <2>2. Cardinality(data) < Cardinality(read)
    BY <2>1, PriorsCounted
  <2>. QED
    BY <1>3, <1>5, <1>6, <2>2
<1>7. ASSUME NEW r \in left \ data
      PROVE  more /\ \A s \in data : L!Precedes(s, r, dir)
  <2>1. CASE r \in read
    BY <1>5, <1>6, <1>7, <2>1
  <2>2. CASE r \notin read
    <3>1. Cardinality(read) = limit + 1 /\ \A s \in read : L!Precedes(s, r, dir)
      BY <1>3, <1>7, <2>2
    <3>. QED
      BY <1>5, <3>1
  <2>. QED
    BY <2>1, <2>2
<1>8. ASSUME more PROVE IsPage(page, M, c, dir)
  <2>1. data # {}
    <3>. SUFFICES ASSUME data = {} PROVE FALSE
      OBVIOUS
    <3>1. Cardinality(data) = 0
      BY FS_EmptySet
    <3>2. read = {}
      BY <1>5, <3>1
    <3>. QED
      BY <1>8, <3>2, FS_EmptySet
  <2>. DEFINE m == L!LastOf(data, dir)
  <2>2. m \in data /\ \A s \in data \ {m} : L!Precedes(s, m, dir)
    BY <1>4, <1>5, <2>1, LastRow
  <2>. HIDE DEF m
  <2>3. m \in Rows /\ m \in M /\ data \in SUBSET Rows /\ data \in SUBSET M
    BY <1>2, <1>3, <1>5, <2>2
  <2>4. \A r \in left : r \in data \/ L!Beyond(L!CursorAt(m), r, dir)
    BY <1>2, <1>7, <2>2, <2>3, CursorFollows
  <2>5. ASSUME NEW r \in data PROVE ~ L!Beyond(L!CursorAt(m), r, dir)
    <3>1. CASE r = m
      BY <2>3, <3>1, CursorOrder
    <3>2. CASE r # m
      <4>1. L!Beyond(L!CursorAt(r), m, dir)
        BY <2>2, <2>3, <3>2, CursorFollows
      <4>. QED
        BY <2>3, <4>1, CursorOrder
    <3>. QED
      BY <3>1, <3>2
  <2>6. page.next = L!CursorAt(m)
    BY <1>1, <1>8 DEF m
  <2>. QED
    BY <1>1, <1>2, <1>3, <1>5, <1>8, <2>2, <2>4, <2>5, <2>6 DEF IsPage
<1>9. ASSUME ~ more PROVE IsPage(page, M, c, dir)
  BY <1>1, <1>2, <1>3, <1>5, <1>7, <1>9 DEF IsPage
<1>10. IsPage(page, M, c, dir)
  BY <1>8, <1>9
<1>. QED
  BY <1>10 DEF page

-----------------------------------------------------------------------------
(* The straddling page. *)

\* The copies of a set's rows are as many as the rows.
LEMMA CopiesCount ==
    ASSUME NEW S, IsFiniteSet(S), NEW d
    PROVE  /\ IsFiniteSet(L!Copies(S, d))
           /\ Cardinality(L!Copies(S, d)) = Cardinality(S)
<1>. DEFINE f == [r \in S |-> [db |-> d, row |-> r]]
<1>1. L!Copies(S, d) = {[db |-> d, row |-> r] : r \in S}
  BY DEF L!Copies
<1>2. f \in [S -> L!Copies(S, d)]
  BY <1>1
<1>3. \A a, b \in S : f[a] = f[b] => a = b
  <2>. TAKE a, b \in S
  <2>1. f[a].row = a /\ f[b].row = b
    OBVIOUS
  <2>. QED
    BY <2>1
<1>4. \A t \in L!Copies(S, d) : \E s \in S : f[s] = t
  BY <1>1
<1>. HIDE DEF f
<1>5. f \in Bijection(S, L!Copies(S, d))
  BY <1>2, <1>3, <1>4 DEF Bijection, Injection, Surjection, IsInjective
<1>6. ExistsBijection(S, L!Copies(S, d))
  BY <1>5 DEF ExistsBijection
<1>. QED
  BY <1>6, FS_Bijection

\* Copies of rows of two databases, as the merged page sorts them.
Merged(C, dir) == {p \in C \X C : L!MergedBefore(p[1], p[2], dir)}
IsCopies(C) == \A a \in C : \E r \in Rows, d \in {"hot", "archive"} :
                              a = [db |-> d, row |-> r]

LEMMA MergedTotal ==
    ASSUME NEW C, IsCopies(C), NEW dir \in Directions
    PROVE  /\ Total(C, Merged(C, dir))
           /\ \A a, b \in C : <<a, b>> \in Merged(C, dir) <=> L!MergedBefore(a, b, dir)
<1>1. \A a, b \in C : <<a, b>> \in Merged(C, dir) <=> L!MergedBefore(a, b, dir)
  BY DEF Merged
<1>2. \A a \in C : /\ a = [db |-> a.db, row |-> a.row]
                   /\ a.db \in {"hot", "archive"} /\ a.row \in Rows
  BY DEF IsCopies
<1>3. \A a, b \in C : a.db = b.db /\ a.row = b.row => a = b
  BY <1>2
<1>4. \A r, s, t \in Rows : /\ ~ L!Precedes(r, r, dir)
                            /\ L!Precedes(r, s, dir) /\ L!Precedes(s, t, dir)
                                 => L!Precedes(r, t, dir)
                            /\ r # s => L!Precedes(r, s, dir) \/ L!Precedes(s, r, dir)
  BY Stamps DEF L!Precedes, L!Earlier, Directions
<1>5. \A a \in C : L!Milli(a.row) \in Nat
  BY <1>2, Stamps
<1>6. \A a \in C : ~ L!MergedBefore(a, a, dir)
  BY <1>2, <1>4 DEF L!MergedBefore
<1>7. ASSUME NEW a \in C, NEW b \in C, NEW c \in C,
             L!MergedBefore(a, b, dir), L!MergedBefore(b, c, dir)
      PROVE  L!MergedBefore(a, c, dir)
  BY <1>2, <1>4, <1>5, <1>7 DEF L!MergedBefore, Directions
<1>8. ASSUME NEW a \in C, NEW b \in C, a # b
      PROVE  L!MergedBefore(a, b, dir) \/ L!MergedBefore(b, a, dir)
  BY <1>2, <1>3, <1>4, <1>5, <1>8 DEF L!MergedBefore, Directions
<1>. QED
  BY <1>1, <1>6, <1>7, <1>8 DEF Total

\* As far as milliseconds go, r is not after s.
NotAfter(r, s, dir) == IF dir = "asc" THEN L!Milli(r) <= L!Milli(s)
                                      ELSE L!Milli(r) >= L!Milli(s)

\* A straddling page has rows of the two databases.
LEMMA StraddlingRows ==
    ASSUME NEW H, NEW A, NEW limit, NEW dir
    PROVE  {c.row : c \in L!Straddling(H, A, limit, dir).data} \in SUBSET (H \cup A)
<1>. DEFINE FH == L!First(H, limit, dir)
            FA == L!First(A, limit, dir)
<1>1. FH \in SUBSET H /\ FA \in SUBSET A
  BY DEF L!First
<1>2. \A c \in L!Straddling(H, A, limit, dir).data :
         c \in L!Copies(FH, "hot") \cup L!Copies(FA, "archive")
  BY DEF L!Straddling
<1>. HIDE DEF FH, FA
<1>. QED
  BY <1>1, <1>2 DEF L!Copies

\* The page of two databases that have no row in common: as many rows as there
\* are or as it may have, and none after a row it leaves out.
IsStraddle(page, H, A, limit, dir) ==
    LET rows == {c.row : c \in page.data}
    IN  /\ Cardinality(rows) = IF Cardinality(H \cup A) < limit
                               THEN Cardinality(H \cup A) ELSE limit
        /\ \A r \in rows, s \in (H \cup A) \ rows : NotAfter(r, s, dir)

LEMMA StraddlingOf ==
    ASSUME NEW H \in SUBSET Rows, NEW A \in SUBSET Rows, H \cap A = {},
           NEW limit \in Nat, NEW dir \in Directions
    PROVE  IsStraddle(L!Straddling(H, A, limit, dir), H, A, limit, dir)
<1>. DEFINE page == L!Straddling(H, A, limit, dir)
            rows == {c.row : c \in page.data}
<1>. DEFINE FH == L!First(H, limit, dir)
            FA == L!First(A, limit, dir)
            C == L!Copies(FH, "hot") \cup L!Copies(FA, "archive")
            R == Merged(C, dir)
            data == FirstOf(C, R, limit)
<1>1. /\ FH \in SUBSET H /\ Cardinality(FH) \in Nat /\ IsFiniteSet(FH)
      /\ FA \in SUBSET A /\ Cardinality(FA) \in Nat /\ IsFiniteSet(FA)
      /\ \A r \in H \ FH : /\ Cardinality(FH) = limit
                           /\ \A s \in FH : L!Precedes(s, r, dir)
      /\ \A r \in A \ FA : /\ Cardinality(FA) = limit
                           /\ \A s \in FA : L!Precedes(s, r, dir)
  <2>1. FH \in SUBSET Rows /\ FA \in SUBSET Rows
    BY FirstRows
  <2>2. IsFiniteSet(FH) /\ IsFiniteSet(FA)
    BY <2>1, RowsAssumption, FS_Subset
  <2>. QED
    BY <2>2, FirstRows
<1>2. /\ L!Copies(FH, "hot") = {[db |-> "hot", row |-> r] : r \in FH}
      /\ L!Copies(FA, "archive") = {[db |-> "archive", row |-> r] : r \in FA}
  BY DEF L!Copies
<1>3. page.data = data
  <2>. DEFINE Q(a) == {b \in C : L!MergedBefore(b, a, dir)}
  <2>1. page.data = {a \in C : Cardinality(Q(a)) < limit}
    BY SameCount DEF L!Straddling
  <2>2. \A a \in C : Priors(C, R, a) = Q(a)
    BY DEF Priors, Merged
  <2>. HIDE DEF C, Q, R
  <2>3. \A a \in C : Cardinality(Priors(C, R, a)) = Cardinality(Q(a))
    BY <2>2
  <2>4. data = {a \in C : Cardinality(Priors(C, R, a)) < limit}
    BY DEF FirstOf
  <2>. QED
    BY <2>1, <2>3, <2>4
<1>. HIDE DEF FH, FA, page
<1>0. rows = {c.row : c \in page.data}
  OBVIOUS
<1>. HIDE DEF rows
<1>4. IsFiniteSet(C)
  BY <1>1, CopiesCount, FS_Union
<1>5. IsCopies(C)
  BY <1>1, <1>2 DEF IsCopies
<1>6. /\ \A a \in C : \/ a.row \in FH /\ a = [db |-> "hot", row |-> a.row]
                      \/ a.row \in FA /\ a = [db |-> "archive", row |-> a.row]
      /\ \A a, b \in C : a.row = b.row => a = b
      /\ \A r \in FH : [db |-> "hot", row |-> r] \in C
      /\ \A r \in FA : [db |-> "archive", row |-> r] \in C
  <2>1. \A a \in C : \/ a.row \in FH /\ a = [db |-> "hot", row |-> a.row]
                     \/ a.row \in FA /\ a = [db |-> "archive", row |-> a.row]
    BY <1>2
  <2>2. \A r : ~ (r \in FH /\ r \in FA)
    BY <1>1
  <2>. QED
    BY <1>2, <2>1, <2>2
<1>7. /\ L!Copies(FH, "hot") \in SUBSET C /\ L!Copies(FA, "archive") \in SUBSET C
      /\ Cardinality(L!Copies(FH, "hot")) = Cardinality(FH)
      /\ Cardinality(L!Copies(FA, "archive")) = Cardinality(FA)
  BY <1>1, CopiesCount
<1>8. /\ Total(C, R)
      /\ \A a, b \in C : <<a, b>> \in R <=> L!MergedBefore(a, b, dir)
  BY <1>5, MergedTotal
<1>. HIDE DEF C, R
<1>9. /\ data \in SUBSET C /\ IsFiniteSet(data) /\ Cardinality(data) \in Nat
      /\ Cardinality(data) <= limit
      /\ \A a \in C \ data : /\ Cardinality(data) = limit
                             /\ \A b \in data : <<b, a>> \in R
      /\ \A a \in data : Cardinality(Priors(C, R, a)) < limit
  <2>1. \A a \in data : Cardinality(Priors(C, R, a)) < limit
    BY DEF FirstOf
  <2>. QED
    BY <1>4, <1>8, <2>1, FirstOfSet
<1>. HIDE DEF data
<1>10. rows = {a.row : a \in data} /\ rows \in SUBSET (H \cup A)
  BY <1>0, <1>1, <1>3, <1>6, <1>9
<1>11. Cardinality(rows) = Cardinality(data)
  <2>. DEFINE f == [a \in data |-> a.row]
  <2>1. /\ f \in [data -> rows]
        /\ \A a, b \in data : f[a] = f[b] => a = b
        /\ \A t \in rows : \E a \in data : f[a] = t
    BY <1>6, <1>9, <1>10
  <2>. HIDE DEF f
  <2>2. f \in Bijection(data, rows)
    BY <2>1 DEF Bijection, Injection, Surjection, IsInjective
  <2>3. ExistsBijection(data, rows)
    BY <2>2 DEF ExistsBijection
  <2>. QED
    BY <1>9, <2>3, FS_Bijection
<1>12. Cardinality(rows) = IF Cardinality(H \cup A) < limit
                           THEN Cardinality(H \cup A) ELSE limit
  <2>1. /\ IsFiniteSet(H \cup A) /\ Cardinality(H \cup A) \in Nat
        /\ Cardinality(rows) <= Cardinality(H \cup A) /\ IsFiniteSet(rows)
    <3>1. IsFiniteSet(H \cup A)
      BY RowsAssumption, FS_Subset
    <3>. QED
      BY <1>10, <3>1, PriorsCounted
  <2>2. CASE data # C
    <3>1. C \ data # {}
      BY <1>9, <2>2
    <3>2. Cardinality(data) = limit
      BY <1>9, <3>1
    <3>. QED
      BY <1>9, <1>11, <2>1, <3>2
  <2>3. CASE data = C /\ FH # H
    <3>1. Cardinality(FH) = limit
      BY <1>1, <2>3
    <3>2. limit <= Cardinality(data)
      BY <1>7, <1>9, <2>3, <3>1, FS_Subset
    <3>. QED
      BY <1>9, <1>11, <2>1, <3>2
  <2>4. CASE data = C /\ FA # A
    <3>1. Cardinality(FA) = limit
      BY <1>1, <2>4
    <3>2. limit <= Cardinality(data)
      BY <1>7, <1>9, <2>4, <3>1, FS_Subset
    <3>. QED
      BY <1>9, <1>11, <2>1, <3>2
  <2>5. CASE data = C /\ FH = H /\ FA = A
    <3>1. \A r \in H \cup A : \E a \in data : a.row = r
      BY <1>6, <2>5
    <3>2. Cardinality(rows) = Cardinality(H \cup A)
      <4>1. rows = H \cup A
        BY <1>10, <3>1
      <4>. QED
        BY <4>1
    <3>. QED
      BY <1>9, <1>11, <2>1, <3>2
  <2>. QED
    BY <2>2, <2>3, <2>4, <2>5
<1>13. ASSUME NEW a \in data, NEW S, NEW F, NEW d, NEW s \in S \ rows,
              \/ S = H /\ F = FH /\ d = "hot"
              \/ S = A /\ F = FA /\ d = "archive"
       PROVE  NotAfter(a.row, s, dir)
  <2>1. /\ F \in SUBSET S /\ S \in SUBSET Rows
        /\ \A r \in S \ F : /\ Cardinality(F) = limit
                            /\ \A q \in F : L!Precedes(q, r, dir)
        /\ L!Copies(F, d) \in SUBSET C /\ Cardinality(L!Copies(F, d)) = Cardinality(F)
        /\ L!Copies(F, d) = {[db |-> d, row |-> r] : r \in F}
        /\ \A r \in F : [db |-> d, row |-> r] \in C
    BY <1>1, <1>2, <1>6, <1>7, <1>13
  <2>2. a \in C /\ a.row \in Rows /\ L!Milli(a.row) \in Nat
    BY <1>1, <1>6, <1>9, Stamps
  <2>3. s \in Rows /\ L!Milli(s) \in Nat
    BY <2>1, Stamps
  <2>4. CASE s \in F
    <3>. DEFINE b == [db |-> d, row |-> s]
    <3>1. b \in C /\ b.row = s
      BY <2>1, <2>4
    <3>. HIDE DEF b
    <3>2. b \notin data
      BY <1>10, <3>1
    <3>3. L!MergedBefore(a, b, dir)
      BY <1>8, <1>9, <2>2, <3>1, <3>2
    <3>. QED
      BY <2>2, <2>3, <3>1, <3>3 DEF L!MergedBefore, NotAfter, Directions
  <2>5. CASE s \notin F
    <3>. SUFFICES ASSUME ~ NotAfter(a.row, s, dir) PROVE FALSE
      OBVIOUS
    <3>1. Cardinality(F) = limit /\ \A q \in F : L!Precedes(q, s, dir)
      BY <2>1, <2>5
    <3>2. ASSUME NEW q \in F PROVE L!MergedBefore([db |-> d, row |-> q], a, dir)
      <4>1. q \in Rows /\ L!Milli(q) \in Nat
        BY <2>1, Stamps
      <4>2. NotAfter(q, s, dir)
        BY <2>3, <3>1, <4>1, Stamps DEF L!Precedes, L!Earlier, NotAfter, Directions
      <4>3. L!Milli(q) # L!Milli(a.row)
            /\ IF dir = "asc" THEN L!Milli(q) < L!Milli(a.row)
                              ELSE L!Milli(q) > L!Milli(a.row)
        BY <2>2, <2>3, <4>1, <4>2 DEF NotAfter
      <4>. QED
        BY <4>3 DEF L!MergedBefore
    <3>3. \A b \in L!Copies(F, d) : <<b, a>> \in R
      BY <1>8, <2>1, <2>2, <3>2
    <3>4. L!Copies(F, d) \in SUBSET Priors(C, R, a)
      BY <2>1, <3>3 DEF Priors
    <3>5. IsFiniteSet(Priors(C, R, a)) /\ Cardinality(Priors(C, R, a)) \in Nat
      BY <1>4, <2>2, PriorsCounted
    <3>6. limit <= Cardinality(Priors(C, R, a))
      BY <2>1, <3>1, <3>4, <3>5, FS_Subset
    <3>. QED
      BY <1>9, <3>5, <3>6
  <2>. QED
    BY <2>4, <2>5
<1>14. \A r \in rows, s \in (H \cup A) \ rows : NotAfter(r, s, dir)
  <2>. SUFFICES ASSUME NEW a \in data, NEW s \in (H \cup A) \ rows
                PROVE  NotAfter(a.row, s, dir)
    BY <1>10
  <2>1. CASE s \in H
    BY <1>13, <2>1
  <2>2. CASE s \in A
    BY <1>13, <2>2
  <2>. QED
    BY <2>1, <2>2
<1>15. IsStraddle(page, H, A, limit, dir)
  BY <1>0, <1>12, <1>14 DEF IsStraddle
<1>. QED
  BY <1>15 DEF page

-----------------------------------------------------------------------------
(* The reader beside archival. *)

\* A list shows rows of one table.
LEMMA OneTable ==
    ASSUME ask \in Asked, NEW d
    PROVE  /\ Matching(d) \in SUBSET Rows
           /\ \A r, s \in Matching(d) : Table[r] = Table[s]
<1>1. ask.list \in Lists
  BY AskedAssumption
<1>. QED
  BY <1>1 DEF Lists, Matching, Has, Wanted, CustomerOrders, BranchOrders, AgentTasks,
              AgentEarnings, Payouts

\* A page has room for a row.
LEMMA LimitPositive ==
    ASSUME ask \in Asked
    PROVE  Limit \in Nat \ {0} /\ ask.dir \in Directions
BY AskedAssumption, StampsAssumption DEF Limit, L!ParsedLimit, Directions

\* No page of the walk so far has repeated a row; what it has shown is behind the
\* cursor, and what was there all along is shown or beyond it.
WalkInv ==
    reader = "listing" =>
        /\ ask \in Asked /\ repeated = {}
        /\ \/ position = L!NoCursor /\ listed = {}
           \/ \E m \in Rows :
                 /\ position = L!CursorAt(m)
                 /\ \A r \in listed : ~ L!Beyond(position, r, ask.dir)
                 /\ \A r \in steady : r \in listed \/ L!Beyond(position, r, ask.dir)

ListsInv == ListsExact /\ WalkInv

\* The next page takes up where the last one ended.
LEMMA FetchPageLists ==
    ASSUME IdsAscend, ListsInv, FetchPage
    PROVE  ListsInv'
<1>. DEFINE M == Matching(IF Where = "hot" THEN hot ELSE archive)
            page == L!Page(M, position, Limit, ask.dir)
<1>1. /\ reader = "listing" /\ ask' = ask
      /\ listed' = listed \cup page.data
      /\ repeated' = repeated \cup (listed \cap page.data)
      /\ steady' = IF position = L!NoCursor THEN M ELSE steady \cap M
      /\ position' = page.next
      /\ reader' = IF page.hasMore THEN "listing" ELSE "ended"
  BY DEF FetchPage
<1>2. /\ ask \in Asked /\ repeated = {} /\ IsCursor(position)
      /\ Limit \in Nat \ {0} /\ ask.dir \in Directions
      /\ M \in SUBSET Rows /\ \A r, s \in M : Table[r] = Table[s]
  BY <1>1, LimitPositive, OneTable DEF ListsInv, WalkInv, IsCursor
<1>. HIDE DEF M
<1>0. page = L!Page(M, position, Limit, ask.dir)
  OBVIOUS
<1>. HIDE DEF page
<1>3. IsPage(page, M, position, ask.dir)
  BY <1>0, <1>2, PageOf
<1>4. listed \subseteq Rows /\ steady \subseteq Rows
  BY DEF ListsInv, ListsExact, ReadTypeOK
<1>5. repeated' = {}
  <2>1. CASE listed = {}
    BY <1>1, <1>2, <2>1
  <2>2. CASE listed # {}
    <3>1. \A r \in listed : ~ L!Beyond(position, r, ask.dir)
      BY <1>1, <2>2 DEF ListsInv, WalkInv
    <3>. QED
      BY <1>1, <1>2, <1>3, <3>1 DEF IsPage
  <2>. QED
    BY <2>1, <2>2
<1>6. \A r \in steady' : r \in M /\ (r \in listed \/ L!Beyond(position, r, ask.dir))
  <2>1. CASE position = L!NoCursor
    BY <1>1, <2>1 DEF L!Beyond
  <2>2. CASE position # L!NoCursor
    BY <1>1, <2>2 DEF ListsInv, WalkInv
  <2>. QED
    BY <2>1, <2>2
<1>7. CASE page.hasMore
  <2>1. PICK m \in page.data :
          /\ page.next = L!CursorAt(m)
          /\ \A r \in M : L!Beyond(position, r, ask.dir) =>
                r \in page.data \/ L!Beyond(page.next, r, ask.dir)
          /\ \A r \in page.data : ~ L!Beyond(page.next, r, ask.dir)
    BY <1>3, <1>7 DEF IsPage
  <2>2. m \in Rows /\ L!Beyond(position, m, ask.dir)
    BY <1>2, <1>3 DEF IsPage
  <2>3. ASSUME NEW r \in listed PROVE ~ L!Beyond(page.next, r, ask.dir)
    <3>1. ~ L!Beyond(position, r, ask.dir)
      BY <1>1, <2>3 DEF ListsInv, WalkInv
    <3>. QED
      BY <1>2, <1>4, <2>1, <2>2, <3>1, CursorOrder
  <2>4. WalkInv'
    BY <1>1, <1>2, <1>5, <1>6, <1>7, <2>1, <2>2, <2>3 DEF WalkInv
  <2>5. position' \in [milli : Nat, id : Nat]
    BY <1>1, <2>1, <2>2, Stamps DEF L!CursorAt
  <2>6. ListsExact'
    BY <1>1, <1>2, <1>3, <1>4, <1>5, <1>7, <2>5
       DEF ListsExact, ReadTypeOK, WalkExact, StraddleFirst, IsPage
  <2>. QED
    BY <2>4, <2>6 DEF ListsInv
<1>8. CASE ~ page.hasMore
  <2>1. /\ reader' = "ended" /\ position' = L!NoCursor
        /\ steady' \subseteq listed'
    BY <1>1, <1>3, <1>6, <1>8 DEF IsPage
  <2>2. position' \in [milli : Nat, id : Nat]
    BY <2>1 DEF L!NoCursor
  <2>3. ListsExact'
    BY <1>1, <1>2, <1>3, <1>4, <1>5, <2>1, <2>2
       DEF ListsExact, ReadTypeOK, WalkExact, StraddleFirst, IsPage
  <2>. QED
    BY <2>1, <2>3 DEF ListsInv, WalkInv
<1>. QED
  BY <1>7, <1>8

\* A straddling page is the whole answer.
LEMMA FetchStraddlingLists ==
    ASSUME ListsInv, FetchStraddling
    PROVE  ListsInv'
<1>. DEFINE H == Matching(hot)
            A == Matching(archive)
            page == L!Straddling(H, A, Limit, ask.dir)
            rows == {c.row : c \in page.data}
<1>1. /\ reader = "listing" /\ ask' = ask
      /\ listed' = rows /\ repeated' = H \cap A /\ steady' = H \cup A
      /\ position' = L!NoCursor /\ reader' = "straddled"
  BY DEF FetchStraddling
<1>2. /\ ask \in Asked /\ Limit \in Nat /\ ask.dir \in Directions
      /\ H \in SUBSET Rows /\ A \in SUBSET Rows
  BY <1>1, LimitPositive, OneTable DEF ListsInv, WalkInv
<1>. HIDE DEF H, A
<1>3. rows \in SUBSET (H \cup A)
  BY StraddlingRows
<1>0. /\ page = L!Straddling(H, A, Limit, ask.dir)
      /\ rows = {c.row : c \in page.data}
  OBVIOUS
<1>. HIDE DEF rows, page
<1>4. ASSUME H \cap A = {}
      PROVE  /\ Cardinality(rows) = IF Cardinality(H \cup A) < Limit
                                    THEN Cardinality(H \cup A) ELSE Limit
             /\ \A r \in rows, s \in (H \cup A) \ rows : NotAfter(r, s, ask.dir)
  <2>1. IsStraddle(page, H, A, Limit, ask.dir)
    BY <1>0, <1>2, <1>4, StraddlingOf
  <2>. QED
    BY <1>0, <2>1 DEF IsStraddle
<1>5. Limit' = Limit
  BY <1>1 DEF Limit
<1>6. StraddleFirst'
  BY <1>1, <1>4, <1>5 DEF StraddleFirst, NotAfter
<1>7. ReadTypeOK'
  BY <1>1, <1>2, <1>3 DEF ReadTypeOK, L!NoCursor
<1>. QED
  BY <1>1, <1>6, <1>7 DEF ListsInv, ListsExact, WalkInv, WalkExact

\* The client asks, closes or looks an order up.
LEMMA OtherReads ==
    ASSUME ListsInv,
           \/ \E a \in Asked : Ask(a)
           \/ Close
           \/ \E o \in Rows, admin \in BOOLEAN : LookHot(o, admin)
           \/ LookArchive
    PROVE  ListsInv'
<1>1. CASE \E a \in Asked : Ask(a)
  BY <1>1 DEF Ask, ListsInv, ListsExact, ReadTypeOK, WalkExact, StraddleFirst, WalkInv,
              L!NoCursor
<1>2. CASE Close
  BY <1>2 DEF Close, ListsInv, ListsExact, ReadTypeOK, WalkExact, StraddleFirst,
              WalkInv, L!NoCursor
<1>3. CASE (\E o \in Rows, admin \in BOOLEAN : LookHot(o, admin)) \/ LookArchive
  <2>1. /\ reader' \in {"looking", "missing", "idle"}
        /\ UNCHANGED <<position, listed, repeated, steady>>
    BY <1>3 DEF LookHot, LookArchive
  <2>. QED
    BY <2>1 DEF ListsInv, ListsExact, ReadTypeOK, WalkExact, StraddleFirst, WalkInv
<1>. QED
  BY <1>1, <1>2, <1>3

\* Archival reads and writes nothing of the reader's.
LEMMA ArchivalSteps ==
    ArchivalNext => Next /\ UNCHANGED readVars
BY DEF ArchivalNext, Next, Run, Unread

\* The reader writes nothing of archival's.
LEMMA ReadSteps ==
    ReadNext => UNCHANGED vars
BY DEF ReadNext, Ask, FetchPage, FetchStraddling, Close, LookHot, LookArchive

-----------------------------------------------------------------------------
(* The theorems. *)

\* Readers leave archival as it is: what holds of it alone holds beside them.
THEOREM HistoryIsArchival == HistorySpec => Spec
<1>1. HistoryInit => Init
  BY DEF HistoryInit
<1>2. [ArchivalNext \/ ReadNext]_allVars => [Next]_vars
  BY ArchivalSteps, ReadSteps DEF allVars
<1>. QED
  BY <1>1, <1>2, PTL DEF HistorySpec, Spec

\* Whatever archival moves between two pages, and whichever database the next
\* one is read from: a client that follows the cursors to the end has seen each
\* row that was there all along, and none twice; a straddling page has the first
\* rows of both databases.  Ids must ascend with stamps within a millisecond.
THEOREM WalksAreExact == ASSUME IdsAscend PROVE HistorySpec => []ListsExact
<1>1. HistoryInit => ListsInv
  BY DEF HistoryInit, ReadInit, ListsInv, ListsExact, ReadTypeOK, WalkExact,
         StraddleFirst, WalkInv, L!NoCursor
<1>2. ListsInv /\ [ArchivalNext \/ ReadNext]_allVars => ListsInv'
  <2>. SUFFICES ASSUME ListsInv, [ArchivalNext \/ ReadNext]_allVars
                PROVE  ListsInv'
    OBVIOUS
  <2>1. CASE ReadNext
    BY <2>1, FetchPageLists, FetchStraddlingLists, OtherReads DEF ReadNext
  <2>2. CASE ArchivalNext \/ UNCHANGED allVars
    <3>1. UNCHANGED <<reader, ask, position, listed, repeated, steady>>
      BY <2>2, ArchivalSteps DEF allVars, readVars
    <3>. QED
      BY <3>1 DEF ListsInv, ListsExact, ReadTypeOK, WalkExact, StraddleFirst, WalkInv,
                  Limit
  <2>. QED
    BY <2>1, <2>2
<1>3. ListsInv => ListsExact
  BY DEF ListsInv
<1>. QED
  BY <1>1, <1>2, <1>3, PTL DEF HistorySpec

\* The archive only grows.
LEMMA ArchiveGrows ==
    ASSUME Parts, [Next]_vars
    PROVE  Has(archive) \subseteq Has(archive)'
<1>1. archive' = archive \/ \E w \in Runs : archive' = Inserted(w)
  BY DEF Next, Run, NewYear, LockLapses, Write, Start, SelectInsert, InsertBatch,
         SelectDelete, DeleteBatch, Stop, BudgetEnds, Fails, Dies, Refused, vars
<1>. QED
  BY <1>1, InsertedRows DEF Has

\* An order a reader has not found in hot is in the archive.
LookInv ==
    /\ reader \in {"looking", "missing"} => ask.order \in Has(archive)
    /\ reader = "looking" => ask.admin
    /\ reader = "missing" => ~ ask.admin

\* While nothing of a past year is written and no year ends under a run, an
\* administrator finds every order, also one that moves between the two looks;
\* anybody else misses orders of past years only.
THEOREM OrdersAreFound == ASSUME Quiet PROVE HistorySpec => []OrderFound
<1>1. HistoryInit => LookInv
  BY DEF HistoryInit, ReadInit, LookInv
<1>2. Parts /\ LookInv /\ [ArchivalNext \/ ReadNext]_allVars => LookInv'
  <2>. SUFFICES ASSUME Parts, LookInv, [ArchivalNext \/ ReadNext]_allVars
                PROVE  LookInv'
    OBVIOUS
  <2>1. CASE ArchivalNext \/ UNCHANGED allVars
    <3>1. UNCHANGED <<reader, ask>> /\ [Next]_vars
      BY <2>1, ArchivalSteps DEF allVars, readVars
    <3>. QED
      BY <3>1, ArchiveGrows DEF LookInv
  <2>2. CASE (\E a \in Asked : Ask(a)) \/ FetchPage \/ FetchStraddling \/ Close
    BY <2>2 DEF Ask, FetchPage, FetchStraddling, Close, LookInv
  <2>3. ASSUME NEW o \in Rows, NEW admin \in BOOLEAN, LookHot(o, admin)
        PROVE  LookInv'
    <3>1. /\ latest[o] # 0 /\ o \notin Has(hot)
          /\ reader' = IF admin THEN "looking" ELSE "missing"
          /\ ask' = [list |-> "none", order |-> o, admin |-> admin]
          /\ archive' = archive
      BY <2>3 DEF LookHot, vars
    <3>2. o \in Has(archive)
      BY <3>1 DEF Parts, SharedInv, Has
    <3>. QED
      BY <3>1, <3>2 DEF LookInv, Has
  <2>4. CASE LookArchive
    BY <2>4 DEF LookArchive, LookInv
  <2>. QED
    BY <2>1, <2>2, <2>3, <2>4 DEF ReadNext
<1>3. Parts /\ LookInv => OrderFound
  BY DEF Parts, SharedInv, LookInv, OrderFound
<1>4. HistorySpec => []Parts
  BY HistoryIsArchival, Invariance, IInvParts, PTL
<1>. QED
  BY <1>1, <1>2, <1>3, <1>4, PTL DEF HistorySpec
=============================================================================
