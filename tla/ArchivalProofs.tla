--------------------------- MODULE ArchivalProofs ---------------------------
(***************************************************************************)
(* Theorems about Archival for any rows and references between them, any   *)
(* number of overlapping runs, any batch size and any number of faults.    *)
(***************************************************************************)
EXTENDS Archival, FiniteSetTheorems, WellFoundedInduction, TLAPS

-----------------------------------------------------------------------------
(* Batches. *)

\* Some number of a set is the least.
LEMMA LeastNumber ==
    ASSUME NEW S \in SUBSET Nat, S # {}
    PROVE  \E m \in S : \A s \in S : m <= s
<1>1. \E m \in S : \A s \in S : <<s, m>> \notin OpToRel(<, Nat)
  BY NatLessThanWellFounded, WFMin
<1>2. \A s, m \in S : <<s, m>> \notin OpToRel(<, Nat) => m <= s
  BY DEF OpToRel
<1>. QED
  BY <1>1, <1>2

\* Some row of a set has the least id, and some the greatest.
LEMMA LeastRow ==
    ASSUME NEW S \in SUBSET Rows, S # {}
    PROVE  \E m \in S : \A s \in S : m <= s
BY RowsAssumption, LeastNumber

\* The same of the greatest id.
LEMMA GreatestRow ==
    ASSUME NEW S \in SUBSET Rows, S # {}
    PROVE  \E m \in S : \A s \in S : s <= m
<1>. DEFINE Above(r) == {s \in S : s > r}
            Counts == {Cardinality(Above(r)) : r \in S}
<1>1. IsFiniteSet(S) /\ S \subseteq Nat
  BY RowsAssumption, FS_Subset
<1>2. \A r \in S : IsFiniteSet(Above(r)) /\ Cardinality(Above(r)) \in Nat
  <2>. TAKE r \in S
  <2>1. Above(r) \in SUBSET S
    OBVIOUS
  <2>. QED
    BY <1>1, <2>1, FS_Subset, FS_CardinalityType
<1>3. PICK m \in S : \A s \in S : Cardinality(Above(m)) <= Cardinality(Above(s))
  <2>1. Counts \in SUBSET Nat /\ Counts # {}
    BY <1>2
  <2>2. \E k \in Counts : \A c \in Counts : k <= c
    BY <2>1, LeastNumber
  <2>. QED
    BY <2>2
<1>4. ASSUME NEW s \in S, s > m PROVE FALSE
  <2>1. \A t \in S : t > s => t > m
    BY <1>1, <1>4
  <2>2. Above(s) \in SUBSET Above(m)
    BY <2>1
  <2>3. Above(s) # Above(m)
    <3>1. ~ (s > s)
      BY <1>1
    <3>2. s \in Above(m) /\ s \notin Above(s)
      BY <3>1, <1>4
    <3>. QED
      BY <3>2
  <2>4. Cardinality(Above(s)) < Cardinality(Above(m))
    BY <2>2, <2>3, <1>2, FS_Subset
  <2>. QED
    BY <2>4, <1>2, <1>3
<1>. QED
  BY <1>1, <1>4

\* Lowest leaves a row out only if it has its number of rows, all before it.
LEMMA LowestFull ==
    ASSUME NEW S \in SUBSET Rows, NEW n \in Nat, NEW r \in S, r \notin Lowest(S, n)
    PROVE  /\ Cardinality(Lowest(S, n)) >= n
           /\ \A s \in Lowest(S, n) : s < r
<1>. DEFINE Below(t) == {s \in S : s < t}
<1>1. IsFiniteSet(S) /\ S \subseteq Nat
  BY RowsAssumption, FS_Subset
<1>2. \A t \in S : IsFiniteSet(Below(t)) /\ Cardinality(Below(t)) \in Nat
  <2>. TAKE t \in S
  <2>1. Below(t) \in SUBSET S
    OBVIOUS
  <2>. QED
    BY <1>1, <2>1, FS_Subset, FS_CardinalityType
<1>3. Lowest(S, n) = {t \in S : Cardinality(Below(t)) < n}
  BY DEF Lowest
<1>4. PICK m \in S \ Lowest(S, n) : \A s \in S \ Lowest(S, n) : m <= s
  BY LeastRow
<1>5. Below(m) \in SUBSET Lowest(S, n)
  <2>1. \A t \in S : t < m => ~ (m <= t)
    BY <1>1, <1>4
  <2>. QED
    BY <2>1, <1>4
<1>6. IsFiniteSet(Lowest(S, n)) /\ Cardinality(Lowest(S, n)) \in Nat
  <2>1. Lowest(S, n) \in SUBSET S
    BY <1>3
  <2>. QED
    BY <1>1, <2>1, FS_Subset, FS_CardinalityType
<1>7. Cardinality(Below(m)) >= n
  BY <1>2, <1>3, <1>4
<1>8. ASSUME NEW s \in Lowest(S, n), ~ (s < r) PROVE FALSE
  <2>1. s \in S /\ Cardinality(Below(s)) < n
    BY <1>3
  <2>2. \A t \in S : t < r => t < s
    BY <2>1, <1>1, <1>8
  <2>3. Below(r) \in SUBSET Below(s)
    BY <2>2
  <2>4. Cardinality(Below(r)) <= Cardinality(Below(s))
    BY <2>1, <2>3, <1>2, FS_Subset
  <2>5. Cardinality(Below(r)) < n
    BY <2>1, <2>4, <1>2
  <2>. QED
    BY <2>5, <1>3
<1>9. Cardinality(Below(m)) <= Cardinality(Lowest(S, n))
  BY <1>5, <1>6, FS_Subset
<1>. QED
  BY <1>2, <1>6, <1>7, <1>8, <1>9

\* Highest leaves a row out only if it has its number of rows, all after it.
LEMMA HighestFull ==
    ASSUME NEW S \in SUBSET Rows, NEW n \in Nat, NEW r \in S, r \notin Highest(S, n)
    PROVE  /\ Cardinality(Highest(S, n)) >= n
           /\ \A s \in Highest(S, n) : r < s
<1>. DEFINE Above(t) == {s \in S : s > t}
<1>1. IsFiniteSet(S) /\ S \subseteq Nat
  BY RowsAssumption, FS_Subset
<1>2. \A t \in S : IsFiniteSet(Above(t)) /\ Cardinality(Above(t)) \in Nat
  <2>. TAKE t \in S
  <2>1. Above(t) \in SUBSET S
    OBVIOUS
  <2>. QED
    BY <1>1, <2>1, FS_Subset, FS_CardinalityType
<1>3. Highest(S, n) = {t \in S : Cardinality(Above(t)) < n}
  BY DEF Highest
<1>4. PICK m \in S \ Highest(S, n) : \A s \in S \ Highest(S, n) : s <= m
  BY GreatestRow
<1>5. Above(m) \in SUBSET Highest(S, n)
  <2>1. \A t \in S : t > m => ~ (t <= m)
    BY <1>1, <1>4
  <2>. QED
    BY <2>1, <1>4
<1>6. IsFiniteSet(Highest(S, n)) /\ Cardinality(Highest(S, n)) \in Nat
  <2>1. Highest(S, n) \in SUBSET S
    BY <1>3
  <2>. QED
    BY <1>1, <2>1, FS_Subset, FS_CardinalityType
<1>7. Cardinality(Above(m)) >= n
  BY <1>2, <1>3, <1>4
<1>8. ASSUME NEW s \in Highest(S, n), ~ (r < s) PROVE FALSE
  <2>1. s \in S /\ Cardinality(Above(s)) < n
    BY <1>3
  <2>2. \A t \in S : t > r => t > s
    BY <2>1, <1>1, <1>8
  <2>3. Above(r) \in SUBSET Above(s)
    BY <2>2
  <2>4. Cardinality(Above(r)) <= Cardinality(Above(s))
    BY <2>1, <2>3, <1>2, FS_Subset
  <2>5. Cardinality(Above(r)) < n
    BY <2>1, <2>4, <1>2
  <2>. QED
    BY <2>5, <1>3
<1>9. Cardinality(Above(m)) <= Cardinality(Highest(S, n))
  BY <1>5, <1>6, FS_Subset
<1>. QED
  BY <1>2, <1>6, <1>7, <1>8, <1>9

\* The tables, by their places in the two passes.
LEMMA Places ==
    /\ Len(InsertOrder) = 7
    /\ \A t \in Tables : \E i \in 1..7 : t = InsertOrder[i]
    /\ \A t \in Tables : \E i \in 1..7 : t = DeleteOrder[i]
    /\ \A r \in Rows : Table[r] \in Tables
<1>1. Len(InsertOrder) = 7
  BY DEF InsertOrder
<1>2. \A i \in 1..7 : InsertOrder[i] = DeleteOrder[8 - i] /\ 8 - i \in 1..7
  <2>. TAKE i \in 1..7
  <2>1. DeleteOrder = [j \in 1..7 |-> InsertOrder[8 - j]]
    BY <1>1 DEF DeleteOrder
  <2>2. 8 - i \in 1..7 /\ 8 - (8 - i) = i
    OBVIOUS
  <2>. QED
    BY <2>1, <2>2
<1>. QED
  BY <1>1, <1>2, RowsAssumption DEF Tables

-----------------------------------------------------------------------------
(* What the invariant says of the databases and of one run. *)

\* The types of what the runs keep ...
RunTypes ==
    /\ pc \in [Runs -> {"idle", "insert", "delete"}]
    /\ table \in [Runs -> 1..7]
    /\ cutoff \in [Runs -> FirstYear..LastYear]
    /\ cursor \in [Runs -> Nat]
    /\ batch = [w \in Runs |-> batch[w]]
    /\ \A w \in Runs : IsBatch(batch[w])
    /\ expired \in [Runs -> BOOLEAN]
    /\ lapsed \subseteq Runs

\* ... and of what the databases and the lock do.
DataTypes ==
    /\ year \in FirstYear..LastYear
    /\ hot \in [Rows -> 0..MaxVersion + 1]
    /\ archive \in [Rows -> 0..MaxVersion + 1]
    /\ latest \in [Rows -> 0..MaxVersion + 1]
    /\ lock \in Runs \cup {NoRun}
    /\ blocked \subseteq Runs
    /\ faults \in 0..MaxFaults

\* The rows of the two databases, while no write is late.
SharedInv ==
    /\ \A r \in Rows : /\ latest[r] \in {hot[r], archive[r]}
                       /\ hot[r] \in {0, latest[r]}
                       /\ archive[r] \in {0, latest[r]}
    /\ Has(archive) \subseteq Past
    /\ OrdersStay

\* A run that works holds the lock, unless it has lapsed.
HeldLock(w) == pc[w] # "idle" => lock = w \/ w \in lapsed

\* What a run has moved so far, and what its batch holds.
OwnInv(w) ==
    /\ pc[w] # "idle" => cutoff[w] = year
    /\ DOMAIN batch[w] \subseteq Past
    /\ \A r \in DOMAIN batch[w] : batch[w][r] = latest[r]
    /\ pc[w] = "insert" =>
          \A r \in Past \cap Has(hot) :
             /\ (\E i \in 1..table[w] - 1 : Table[r] = InsertOrder[i])
                   => r \in Has(archive)
             /\ InTable(w, r) /\ r <= cursor[w] => r \in Has(archive)
             /\ InTable(w, r) /\ r > cursor[w] /\ batch[w] # Empty =>
                   \/ r \in DOMAIN batch[w]
                   \/ /\ Cardinality(DOMAIN batch[w]) >= BatchSize
                      /\ \A s \in DOMAIN batch[w] : s < r
    /\ pc[w] = "delete" =>
          \A r \in Past \cap Has(hot) :
             /\ r \in Has(archive)
             /\ \A i \in 1..table[w] - 1 : Table[r] # DeleteOrder[i]
             /\ Table[r] = DeleteOrder[table[w]] /\ batch[w] # Empty =>
                   \/ r \in DOMAIN batch[w]
                   \/ Cardinality(DOMAIN batch[w]) >= BatchSize

\* The parts, run by run.
Parts == /\ RunTypes /\ DataTypes
         /\ \A w \in Runs : HeldLock(w)
         /\ Quiet => SharedInv /\ \A w \in Runs : OwnInv(w)

\* The inductive invariant, taken apart.
LEMMA IInvParts == IInv <=> Parts
<1>1. TypeOK <=> RunTypes /\ DataTypes
  BY Places DEF TypeOK, RunTypes, DataTypes
<1>2. LockKept <=> \A w \in Runs : HeldLock(w)
  BY DEF LockKept, HeldLock
<1>3. ASSUME RunTypes, DataTypes
      PROVE  /\ NoRowLost /\ SameCutoff /\ CopiesTrue /\ OnlyPast
             /\ PassOneComplete /\ PassTwoCovered /\ PassTwoComplete /\ OrdersStay
             <=> SharedInv /\ \A w \in Runs : OwnInv(w)
  <2>1. SameCutoff <=> \A w \in Runs : pc[w] # "idle" => cutoff[w] = year
    BY DEF SameCutoff
  <2>2. OnlyPast <=> /\ Has(archive) \subseteq Past
                     /\ \A w \in Runs : DOMAIN batch[w] \subseteq Past
    BY DEF OnlyPast
  <2>3. /\ NoRowLost /\ CopiesTrue
        <=> /\ \A r \in Rows : /\ latest[r] \in {hot[r], archive[r]}
                               /\ hot[r] \in {0, latest[r]}
                               /\ archive[r] \in {0, latest[r]}
            /\ \A w \in Runs : \A r \in DOMAIN batch[w] : batch[w][r] = latest[r]
    BY DEF NoRowLost, CopiesTrue
  <2>4. \A r \in Past : r \in Has(archive) <=> archive[r] # 0
    BY DEF Past, Has
  <2>5. PassOneComplete <=>
          \A w \in Runs : pc[w] = "insert" =>
          \A r \in Past \cap Has(hot) :
             /\ (\E i \in 1..table[w] - 1 : Table[r] = InsertOrder[i])
                   => r \in Has(archive)
             /\ InTable(w, r) /\ r <= cursor[w] => r \in Has(archive)
             /\ InTable(w, r) /\ r > cursor[w] /\ batch[w] # Empty =>
                   \/ r \in DOMAIN batch[w]
                   \/ /\ Cardinality(DOMAIN batch[w]) >= BatchSize
                      /\ \A s \in DOMAIN batch[w] : s < r
    BY <2>4 DEF PassOneComplete
  <2>6. PassTwoCovered /\ PassTwoComplete <=>
          \A w \in Runs : pc[w] = "delete" =>
          \A r \in Past \cap Has(hot) :
             /\ r \in Has(archive)
             /\ \A i \in 1..table[w] - 1 : Table[r] # DeleteOrder[i]
             /\ Table[r] = DeleteOrder[table[w]] /\ batch[w] # Empty =>
                   \/ r \in DOMAIN batch[w]
                   \/ Cardinality(DOMAIN batch[w]) >= BatchSize
    BY DEF PassTwoCovered, PassTwoComplete
  <2>. QED
    BY <2>1, <2>2, <2>3, <2>5, <2>6 DEF SharedInv, OwnInv
<1>. QED
  BY <1>1, <1>2, <1>3 DEF IInv, Parts

\* A step that leaves the work of a run alone.
SameRun(c) ==
    /\ pc'[c] = pc[c] /\ table'[c] = table[c] /\ cutoff'[c] = cutoff[c]
    /\ cursor'[c] = cursor[c] /\ batch'[c] = batch[c]

\* A step of another run only removes rows from hot and adds rows to the
\* archive: what a run knows stays true.
LEMMA OthersKeep ==
    ASSUME NEW c \in Runs, OwnInv(c), SameRun(c), year' = year, latest' = latest,
           Has(hot)' \subseteq Has(hot), Has(archive) \subseteq Has(archive)'
    PROVE  OwnInv(c)'
<1>1. Past' = Past
  BY DEF Past
<1>. QED
  BY <1>1 DEF OwnInv, SameRun, InTable, Empty

-----------------------------------------------------------------------------
(* The places of a run. *)

\* A batch is empty when it has no rows.
LEMMA EmptyBatch ==
    /\ IsBatch(Empty) /\ DOMAIN Empty = {}
    /\ \A b : IsBatch(b) /\ b # Empty => DOMAIN b # {}
BY DEF IsBatch, Empty

\* A run is at the head of a table's pass.
LEMMA AtTableRun ==
    ASSUME RunTypes, DataTypes, NEW w \in Runs, NEW p \in {"insert", "delete"},
           NEW i \in 1..7, AtTable(w, p, i)
    PROVE  /\ RunTypes'
           /\ pc'[w] = p /\ table'[w] = i /\ cutoff'[w] = year /\ cursor'[w] = 0
           /\ batch'[w] = Empty /\ expired' = expired /\ lapsed' = lapsed
           /\ \A c \in Runs \ {w} : SameRun(c)
<1>1. /\ pc' = [pc EXCEPT ![w] = p] /\ table' = [table EXCEPT ![w] = i]
      /\ cutoff' = [cutoff EXCEPT ![w] = year] /\ cursor' = [cursor EXCEPT ![w] = 0]
      /\ batch' = [batch EXCEPT ![w] = Empty]
      /\ expired' = expired /\ lapsed' = lapsed
  BY DEF AtTable
<1>2. batch' = [c \in Runs |-> IF c = w THEN Empty ELSE batch[c]]
  BY <1>1 DEF RunTypes
<1>3. /\ pc'[w] = p /\ table'[w] = i /\ cutoff'[w] = year /\ cursor'[w] = 0
      /\ batch'[w] = Empty
      /\ \A c \in Runs \ {w} : SameRun(c)
  BY <1>1, <1>2 DEF RunTypes, SameRun
<1>4. /\ batch' = [c \in Runs |-> batch'[c]]
      /\ \A c \in Runs : IsBatch(batch'[c])
  BY <1>2, EmptyBatch DEF RunTypes
<1>5. RunTypes'
  BY <1>1, <1>4 DEF RunTypes, DataTypes
<1>. QED
  BY <1>1, <1>3, <1>5

\* A run has ended.
LEMMA ForgetRun ==
    ASSUME RunTypes, DataTypes, NEW w \in Runs, Forget(w)
    PROVE  /\ RunTypes'
           /\ pc'[w] = "idle" /\ batch'[w] = Empty
           /\ \A c \in Runs \ {w} : SameRun(c) /\ (c \in lapsed => c \in lapsed')
<1>1. /\ pc' = [pc EXCEPT ![w] = "idle"] /\ table' = [table EXCEPT ![w] = 1]
      /\ cutoff' = [cutoff EXCEPT ![w] = FirstYear]
      /\ cursor' = [cursor EXCEPT ![w] = 0]
      /\ batch' = [batch EXCEPT ![w] = Empty]
      /\ expired' = [expired EXCEPT ![w] = FALSE] /\ lapsed' = lapsed \ {w}
  BY DEF Forget
<1>2. batch' = [c \in Runs |-> IF c = w THEN Empty ELSE batch[c]]
  BY <1>1 DEF RunTypes
<1>3. /\ pc'[w] = "idle" /\ batch'[w] = Empty
      /\ \A c \in Runs \ {w} : SameRun(c) /\ (c \in lapsed => c \in lapsed')
  BY <1>1, <1>2 DEF RunTypes, SameRun
<1>4. /\ batch' = [c \in Runs |-> batch'[c]]
      /\ \A c \in Runs : IsBatch(batch'[c])
  BY <1>2, EmptyBatch DEF RunTypes
<1>5. FirstYear \in FirstYear..LastYear
  BY BoundsAssumption
<1>6. RunTypes'
  BY <1>1, <1>4, <1>5 DEF RunTypes
<1>. QED
  BY <1>3, <1>6

\* What a step of run w leaves behind, as far as runs go.
RunStep(w) ==
    /\ RunTypes'
    /\ lock' \in Runs \cup {NoRun}
    /\ \A c \in Runs \ {w} : SameRun(c)
    /\ \A c \in Runs : HeldLock(c)'

\* A run that ends gives nobody else's lock away.
LEMMA EndRun ==
    ASSUME RunTypes, DataTypes, \A c \in Runs : HeldLock(c), NEW w \in Runs, End(w)
    PROVE  RunStep(w) /\ pc'[w] = "idle" /\ batch'[w] = Empty
<1>1. Forget(w) /\ lock' = IF lock = w THEN NoRun ELSE lock
  BY DEF End, ReleaseLock
<1>2. /\ RunTypes'
      /\ pc'[w] = "idle" /\ batch'[w] = Empty
      /\ \A c \in Runs \ {w} : SameRun(c) /\ (c \in lapsed => c \in lapsed')
  BY <1>1, ForgetRun
<1>3. \A c \in Runs : HeldLock(c)'
  BY <1>1, <1>2 DEF HeldLock, SameRun
<1>. QED
  BY <1>1, <1>2, <1>3 DEF RunStep, DataTypes

\* Where a run goes from the end of a table.
LEMMA NextTableRun ==
    ASSUME RunTypes, DataTypes, \A c \in Runs : HeldLock(c), NEW w \in Runs,
           pc[w] # "idle", NextTable(w)
    PROVE  /\ RunStep(w)
           /\ pc'[w] = "idle" => pc[w] = "delete" /\ table[w] = 7
           /\ \/ pc'[w] = "idle" /\ batch'[w] = Empty
              \/ /\ pc'[w] = pc[w] /\ table'[w] = table[w] + 1
                 /\ cutoff'[w] = year /\ cursor'[w] = 0 /\ batch'[w] = Empty
              \/ /\ pc[w] = "insert" /\ table[w] = 7
                 /\ pc'[w] = "delete" /\ table'[w] = 1
                 /\ cutoff'[w] = year /\ cursor'[w] = 0 /\ batch'[w] = Empty
<1>0. pc[w] \in {"insert", "delete"} /\ table[w] \in 1..7
  BY DEF RunTypes
<1>1. CASE table[w] < 7
  <2>1. AtTable(w, pc[w], table[w] + 1) /\ lock' = lock /\ table[w] + 1 \in 1..7
    BY <1>0, <1>1, Places DEF NextTable
  <2>2. /\ RunTypes'
        /\ pc'[w] = pc[w] /\ table'[w] = table[w] + 1 /\ cutoff'[w] = year
        /\ cursor'[w] = 0 /\ batch'[w] = Empty /\ lapsed' = lapsed
        /\ \A c \in Runs \ {w} : SameRun(c)
    BY <1>0, <2>1, AtTableRun
  <2>3. \A c \in Runs : HeldLock(c)'
    BY <2>1, <2>2 DEF HeldLock, SameRun
  <2>. QED
    BY <2>1, <2>2, <2>3, <1>0 DEF RunStep, DataTypes
<1>2. CASE table[w] = 7 /\ pc[w] = "insert"
  <2>1. AtTable(w, "delete", 1) /\ lock' = lock
    BY <1>2, Places DEF NextTable
  <2>2. /\ RunTypes'
        /\ pc'[w] = "delete" /\ table'[w] = 1 /\ cutoff'[w] = year
        /\ cursor'[w] = 0 /\ batch'[w] = Empty /\ lapsed' = lapsed
        /\ \A c \in Runs \ {w} : SameRun(c)
    BY <2>1, AtTableRun
  <2>3. \A c \in Runs : HeldLock(c)'
    BY <1>2, <2>1, <2>2 DEF HeldLock, SameRun
  <2>. QED
    BY <1>2, <2>1, <2>2, <2>3 DEF RunStep, DataTypes
<1>3. CASE table[w] = 7 /\ pc[w] = "delete"
  <2>1. End(w)
    BY <1>3, Places DEF NextTable
  <2>. QED
    BY <1>3, <2>1, EndRun
<1>. QED
  BY <1>0, <1>1, <1>2, <1>3

\* All of the table a run is at has been seen to.
TableDone(w) ==
    \A r \in (Past \cap Has(hot))' :
       /\ pc[w] = "insert" =>
             \A i \in 1..table[w] : Table[r] = InsertOrder[i] => r \in Has(archive)'
       /\ pc[w] = "delete" => /\ r \in Has(archive)'
                              /\ \A i \in 1..table[w] : Table[r] # DeleteOrder[i]

\* With its table seen to, the run has the knowledge the next one asks for.
LEMMA NextTableOwn ==
    ASSUME RunTypes, DataTypes, \A c \in Runs : HeldLock(c), NEW w \in Runs,
           pc[w] # "idle", NextTable(w), TableDone(w), year' = year
    PROVE  OwnInv(w)'
<1>1. /\ pc[w] \in {"insert", "delete"} /\ table[w] \in 1..7
      /\ batch'[w] = Empty /\ DOMAIN Empty = {}
      /\ pc'[w] # "idle" => cutoff'[w] = year' /\ cursor'[w] = 0
  BY NextTableRun, EmptyBatch DEF RunTypes
<1>2. ASSUME pc'[w] = "insert", NEW r \in (Past \cap Has(hot))'
      PROVE  /\ (\E i \in 1..table'[w] - 1 : Table[r] = InsertOrder[i])
                   => r \in Has(archive)'
             /\ ~ (r <= cursor'[w])
  <2>1. pc[w] = "insert" /\ table'[w] = table[w] + 1
    BY <1>2, NextTableRun
  <2>2. r \in Nat \ {0}
    BY RowsAssumption DEF Has
  <2>. QED
    BY <1>1, <1>2, <2>1, <2>2 DEF TableDone
<1>3. ASSUME pc'[w] = "delete", NEW r \in (Past \cap Has(hot))'
      PROVE  /\ r \in Has(archive)'
             /\ \A i \in 1..table'[w] - 1 : Table[r] # DeleteOrder[i]
  <2>1. CASE pc[w] = "delete" /\ table'[w] = table[w] + 1
    BY <1>1, <2>1 DEF TableDone
  <2>2. CASE pc[w] = "insert" /\ table[w] = 7 /\ table'[w] = 1
    <3>1. r \in Rows /\ Table[r] \in Tables
      BY Places DEF Has
    <3>. QED
      BY <2>2, <3>1, Places DEF TableDone
  <2>. QED
    BY <1>1, <1>3, <2>1, <2>2, NextTableRun
<1>. QED
  BY <1>1, <1>2, <1>3 DEF OwnInv

-----------------------------------------------------------------------------
(* Every step preserves the inductive invariant. *)

\* A row of a past year is to be moved, and what is to be moved is of one.
LEMMA EligiblePast ==
    ASSUME SharedInv, NEW t, NEW r
    PROVE  r \in Eligible(t, year) <=> r \in Past /\ r \in Has(hot) /\ Table[r] = t
BY DEF Eligible, Past, Has, SharedInv, OrdersStay

\* The invariant holds of a hot database that was never archived.
LEMMA InitParts == Init => Parts
<1>. SUFFICES ASSUME Init PROVE Parts
  OBVIOUS
<1>1. /\ FirstYear \in FirstYear..LastYear
      /\ \A r \in Rows : hot[r] = IF Year[Order[r]] < FirstYear THEN 1 ELSE 0
      /\ \A w \in Runs : pc[w] = "idle" /\ batch[w] = Empty
      /\ Has(archive) = {}
  BY BoundsAssumption DEF Init, Has
<1>2. RunTypes
  BY <1>1, EmptyBatch DEF Init, RunTypes
<1>3. DataTypes
  BY <1>1, BoundsAssumption DEF Init, DataTypes
<1>4. SharedInv
  <2>1. OrdersStay
    BY <1>1, RowsAssumption DEF Init, OrdersStay, Has
  <2>. QED
    BY <1>1, <2>1 DEF Init, SharedInv
<1>5. \A w \in Runs : HeldLock(w) /\ OwnInv(w)
  BY <1>1, EmptyBatch DEF HeldLock, OwnInv
<1>. QED
  BY <1>2, <1>3, <1>4, <1>5 DEF Parts

\* A request writes no row a run has seen.
LEMMA WriteParts ==
    ASSUME Parts, NEW r \in Rows, Write(r)
    PROVE  Parts'
<1>1. /\ UNCHANGED <<year, archive, lock, blocked, lapsed, faults>>
      /\ UNCHANGED <<pc, table, cutoff, cursor, batch, expired>>
      /\ Year[Order[r]] = year \/ (LateWrites /\ Year[Order[r]] < year)
      /\ latest[r] < MaxVersion
      /\ hot[r] # 0 \/ latest[r] = 0
      /\ Order[r] = r \/ Order[r] \in Has(hot)
      /\ latest' = [latest EXCEPT ![r] = @ + 1]
      /\ hot' = [hot EXCEPT ![r] = latest[r] + 1]
  BY DEF Write, runVars
<1>2. RunTypes' /\ DataTypes' /\ \A w \in Runs : HeldLock(w)'
  BY <1>1, BoundsAssumption DEF Parts, RunTypes, DataTypes, HeldLock
<1>3. ASSUME Quiet PROVE SharedInv' /\ \A w \in Runs : OwnInv(w)'
  <2>1. SharedInv /\ \A w \in Runs : OwnInv(w)
    BY <1>3 DEF Parts
  <2>2. Past' = Past /\ Has(archive)' = Has(archive)
    BY <1>1 DEF Past, Has
  <2>3. r \notin Past
    BY <1>1, <1>3, RowsAssumption DEF Past, Quiet, Parts, DataTypes
  <2>4. /\ hot'[r] = latest'[r] /\ hot'[r] # 0
        /\ \A s \in Rows \ {r} : hot'[s] = hot[s] /\ latest'[s] = latest[s]
        /\ Has(hot)' = Has(hot) \cup {r}
    BY <1>1 DEF Parts, DataTypes, Has
  <2>5. archive[r] = 0
    BY <2>1, <2>3 DEF SharedInv, Has
  <2>6. OrdersStay'
    BY <1>1, <2>1, <2>4 DEF SharedInv, OrdersStay
  <2>7. SharedInv'
    BY <1>1, <2>1, <2>2, <2>4, <2>5, <2>6 DEF SharedInv
  <2>8. ASSUME NEW w \in Runs PROVE OwnInv(w)'
    <3>1. (Past \cap Has(hot))' = Past \cap Has(hot)
      BY <2>2, <2>3, <2>4
    <3>2. \A s \in DOMAIN batch[w] : latest'[s] = latest[s]
      <4>1. DOMAIN batch[w] \subseteq Past /\ Past \subseteq Rows
        BY <2>1 DEF OwnInv, Past
      <4>. QED
        BY <4>1, <2>3, <2>4
    <3>3. OwnInv(w)
      BY <2>1
    <3>. QED
      BY <1>1, <2>2, <3>1, <3>2, <3>3 DEF OwnInv, InTable, Empty
  <2>. QED
    BY <2>7, <2>8
<1>. QED
  BY <1>2, <1>3 DEF Parts, Quiet

\* A year ends while nobody archives.
LEMMA NewYearParts ==
    ASSUME Parts, NewYear
    PROVE  Parts'
<1>1. /\ year < LastYear /\ year' = year + 1
      /\ MidRunNewYear \/ \A w \in Runs : pc[w] = "idle"
      /\ UNCHANGED <<hot, archive, latest, lock, blocked, lapsed, faults>>
      /\ UNCHANGED <<pc, table, cutoff, cursor, batch, expired>>
  BY DEF NewYear, runVars
<1>2. RunTypes' /\ DataTypes' /\ \A w \in Runs : HeldLock(w)'
  BY <1>1, BoundsAssumption DEF Parts, RunTypes, DataTypes, HeldLock
<1>3. ASSUME Quiet PROVE SharedInv' /\ \A w \in Runs : OwnInv(w)'
  <2>1. SharedInv /\ \A w \in Runs : OwnInv(w)
    BY <1>3 DEF Parts
  <2>2. Past \subseteq Past' /\ Has(archive)' = Has(archive) /\ Has(hot)' = Has(hot)
    BY <1>1, BoundsAssumption, RowsAssumption DEF Past, Has, Parts, DataTypes
  <2>3. SharedInv'
    BY <1>1, <2>1, <2>2 DEF SharedInv, OrdersStay
  <2>4. \A w \in Runs : OwnInv(w)'
    BY <1>1, <1>3, <2>1, <2>2 DEF OwnInv, Quiet
  <2>. QED
    BY <2>3, <2>4
<1>. QED
  BY <1>2, <1>3 DEF Parts, Quiet

\* A step of a run that leaves the databases alone.
LEMMA RunOnly ==
    ASSUME Parts, NEW w \in Runs, RunStep(w),
           UNCHANGED <<year, hot, archive, latest>>,
           faults' \in 0..MaxFaults, blocked' \subseteq Runs,
           Quiet => OwnInv(w)'
    PROVE  Parts'
<1>1. Past' = Past /\ Has(hot)' = Has(hot) /\ Has(archive)' = Has(archive)
  BY DEF Past, Has
<1>2. DataTypes'
  BY DEF Parts, DataTypes, RunStep
<1>3. ASSUME Quiet PROVE SharedInv' /\ \A c \in Runs : OwnInv(c)'
  <2>1. SharedInv /\ \A c \in Runs : OwnInv(c)
    BY <1>3 DEF Parts
  <2>2. \A c \in Runs \ {w} : OwnInv(c)'
    BY <1>1, <2>1, OthersKeep DEF RunStep
  <2>. QED
    BY <1>1, <1>3, <2>1, <2>2 DEF SharedInv, OrdersStay
<1>. QED
  BY <1>2, <1>3 DEF Parts, RunStep, Quiet

\* An ended run has nothing to know.
LEMMA IdleOwn ==
    ASSUME NEW w \in Runs, pc'[w] = "idle", batch'[w] = Empty
    PROVE  OwnInv(w)'
BY EmptyBatch DEF OwnInv

\* Only a run that gets the lock starts, at the head of the first table.
LEMMA StartParts ==
    ASSUME Parts, NEW w \in Runs, Start(w)
    PROVE  Parts'
<1>1. /\ lock = NoRun /\ lock' = w
      /\ AtTable(w, "insert", 1)
      /\ UNCHANGED <<year, hot, archive, latest, blocked, faults>>
  BY DEF Start, AcquireLock
<1>2. /\ RunTypes'
      /\ pc'[w] = "insert" /\ table'[w] = 1 /\ cutoff'[w] = year /\ cursor'[w] = 0
      /\ batch'[w] = Empty /\ lapsed' = lapsed
      /\ \A c \in Runs \ {w} : SameRun(c)
  BY <1>1, AtTableRun DEF Parts
<1>3. RunStep(w)
  <2>1. \A c \in Runs : HeldLock(c)'
    BY <1>1, <1>2, BoundsAssumption DEF Parts, HeldLock, SameRun
  <2>. QED
    BY <1>1, <1>2, <2>1 DEF RunStep
<1>4. OwnInv(w)'
  <2>1. \A r \in Has(hot)' : r \in Nat \ {0}
    BY RowsAssumption DEF Has
  <2>. QED
    BY <1>1, <1>2, <2>1, EmptyBatch DEF OwnInv
<1>. QED
  BY <1>1, <1>3, <1>4, RunOnly DEF Parts, DataTypes

\* Pass 1 reads rows of past years only, and leaves out none before the last it
\* has read.
LEMMA SelectInsertParts ==
    ASSUME Parts, NEW w \in Runs, SelectInsert(w)
    PROVE  Parts'
<1>. DEFINE left == {r \in Eligible(InsertOrder[table[w]], cutoff[w]) : r > cursor[w]}
            read == Lowest(left, BatchSize)
<1>1. /\ pc[w] = "insert" /\ batch[w] = Empty
      /\ IF read = {}
         THEN NextTable(w)
         ELSE /\ batch' = [batch EXCEPT ![w] = Read(read)]
              /\ UNCHANGED <<lock, pc, table, cutoff, cursor, expired, lapsed>>
      /\ UNCHANGED <<year, hot, archive, latest, blocked, faults>>
  BY DEF SelectInsert
<1>2. /\ left \in SUBSET Rows /\ read \subseteq left
      /\ read \subseteq Has(hot)
  BY DEF Eligible, Has, Lowest
<1>3. ASSUME NEW r \in left, r \notin read
      PROVE  Cardinality(read) >= BatchSize /\ \A s \in read : s < r
  BY <1>2, <1>3, LowestFull, BoundsAssumption
<1>4. CASE read = {}
  <2>1. NextTable(w)
    BY <1>1, <1>4
  <2>2. ASSUME Quiet PROVE OwnInv(w)'
    <3>1. SharedInv /\ OwnInv(w) /\ cutoff[w] = year
      BY <1>1, <2>2 DEF Parts, OwnInv
    <3>2. left = {}
      <4>. SUFFICES ASSUME NEW r \in left PROVE FALSE
        OBVIOUS
      <4>1. Cardinality(read) >= BatchSize
        BY <1>3, <1>4
      <4>2. Cardinality(read) = 0
        BY <1>4, FS_EmptySet
      <4>. QED
        BY <4>1, <4>2, BoundsAssumption
    <3>3. \A r \in Past \cap Has(hot) :
             Table[r] = InsertOrder[table[w]] => r <= cursor[w]
      <4>. SUFFICES ASSUME NEW r \in Past \cap Has(hot),
                           Table[r] = InsertOrder[table[w]]
                    PROVE  ~ (r > cursor[w]) /\ r \in Nat /\ cursor[w] \in Nat
        OBVIOUS
      <4>1. r \in Eligible(InsertOrder[table[w]], cutoff[w])
        BY <3>1, EligiblePast
      <4>. QED
        BY <3>2, <4>1, RowsAssumption DEF Has, Parts, RunTypes
    <3>4. TableDone(w)
      <4>1. table[w] \in 1..7
        BY DEF Parts, RunTypes
      <4>. QED
        BY <1>1, <3>1, <3>3, <4>1 DEF TableDone, OwnInv, InTable, Past, Has
    <3>. QED
      BY <1>1, <2>1, <3>4, NextTableOwn DEF Parts
  <2>3. RunStep(w)
    BY <1>1, <2>1, NextTableRun DEF Parts
  <2>. QED
    BY <1>1, <2>2, <2>3, RunOnly DEF Parts, DataTypes
<1>5. CASE read # {}
  <2>1. /\ batch' = [batch EXCEPT ![w] = Read(read)]
        /\ UNCHANGED <<lock, pc, table, cutoff, cursor, expired, lapsed>>
    BY <1>1, <1>5
  <2>2. batch' = [c \in Runs |-> IF c = w THEN Read(read) ELSE batch[c]]
    BY <2>1 DEF Parts, RunTypes
  <2>3. /\ IsBatch(Read(read)) /\ DOMAIN Read(read) = read
        /\ \A r \in read : Read(read)[r] = hot[r]
    BY <1>2 DEF Read, IsBatch, Has, Parts, DataTypes
  <2>4. RunTypes' /\ \A c \in Runs \ {w} : SameRun(c)
    BY <2>1, <2>2, <2>3 DEF Parts, RunTypes, SameRun
  <2>5. RunStep(w)
    BY <2>1, <2>4 DEF Parts, RunStep, HeldLock, DataTypes
  <2>6. ASSUME Quiet PROVE OwnInv(w)'
    <3>1. SharedInv /\ OwnInv(w) /\ cutoff[w] = year
      BY <1>1, <2>6 DEF Parts, OwnInv
    <3>2. Past' = Past /\ Has(hot)' = Has(hot) /\ Has(archive)' = Has(archive)
      BY <1>1 DEF Past, Has
    <3>3. batch'[w] = Read(read)
      BY <2>2
    <3>4. \A r \in read : r \in Past /\ hot[r] = latest[r]
      BY <1>2, <3>1, EligiblePast DEF SharedInv, Has
    <3>5. ASSUME NEW r \in Past \cap Has(hot), InTable(w, r), r > cursor[w]
          PROVE  \/ r \in read
                 \/ Cardinality(read) >= BatchSize /\ \A s \in read : s < r
      <4>1. r \in Eligible(InsertOrder[table[w]], cutoff[w])
        BY <3>1, <3>5, EligiblePast DEF InTable
      <4>. QED
        BY <1>3, <3>5, <4>1
    <3>. QED
      BY <1>1, <2>1, <2>3, <3>1, <3>2, <3>3, <3>4, <3>5 DEF OwnInv, InTable
  <2>. QED
    BY <1>1, <2>5, <2>6, RunOnly DEF Parts, DataTypes
<1>. QED
  BY <1>4, <1>5

\* A batch is finite, and its rows are those it was read with.
LEMMA BatchFinite ==
    ASSUME NEW b, IsBatch(b), b # Empty
    PROVE  /\ DOMAIN b \in SUBSET Rows /\ DOMAIN b # {}
           /\ Cardinality(DOMAIN b) \in Nat
           /\ LastOf(DOMAIN b) \in DOMAIN b
           /\ \A r \in DOMAIN b : r <= LastOf(DOMAIN b)
<1>1. DOMAIN b \in SUBSET Rows /\ DOMAIN b # {}
  BY EmptyBatch DEF IsBatch
<1>2. Cardinality(DOMAIN b) \in Nat
  BY <1>1, RowsAssumption, FS_Subset, FS_CardinalityType
<1>3. \E m \in DOMAIN b : \A r \in DOMAIN b : r <= m
  BY <1>1, GreatestRow
<1>. QED
  BY <1>1, <1>2, <1>3 DEF LastOf

\* After a full batch a run goes on in its table, past the batch in pass 1.
LEMMA AdvanceFull ==
    ASSUME Parts, NEW w \in Runs, pc[w] \in {"insert", "delete"}, batch[w] # Empty,
           ~ (Cardinality(DOMAIN batch[w]) < BatchSize), Advance(w)
    PROVE  /\ RunStep(w)
           /\ UNCHANGED <<pc, table, cutoff>> /\ batch'[w] = Empty
           /\ pc[w] = "insert" => cursor'[w] = LastOf(DOMAIN batch[w])
<1>. DEFINE next == IF pc[w] = "insert" THEN LastOf(DOMAIN batch[w]) ELSE cursor[w]
<1>1. /\ cursor' = [cursor EXCEPT ![w] = next]
      /\ batch' = [batch EXCEPT ![w] = Empty]
      /\ UNCHANGED <<lock, pc, table, cutoff, expired, lapsed>>
  BY DEF Advance, Parts, RunTypes
<1>2. next \in Nat
  BY BatchFinite, RowsAssumption DEF Parts, RunTypes
<1>3. batch' = [c \in Runs |-> IF c = w THEN Empty ELSE batch[c]]
  BY <1>1 DEF Parts, RunTypes
<1>4. RunTypes' /\ batch'[w] = Empty /\ \A c \in Runs \ {w} : SameRun(c)
  BY <1>1, <1>2, <1>3, EmptyBatch DEF Parts, RunTypes, SameRun
<1>5. RunStep(w)
  BY <1>1, <1>4 DEF Parts, RunStep, HeldLock, DataTypes
<1>. QED
  BY <1>1, <1>4, <1>5 DEF Parts, RunTypes

\* What a batch adds to the archive.
LEMMA InsertedRows ==
    ASSUME Parts, NEW w \in Runs, archive' = Inserted(w)
    PROVE  /\ archive' \in [Rows -> 0..MaxVersion + 1]
           /\ Has(archive)' = Has(archive) \cup DOMAIN batch[w]
           /\ \A r \in Rows : \/ archive'[r] = archive[r]
                             \/ /\ archive[r] = 0 /\ r \in DOMAIN batch[w]
                                /\ archive'[r] = batch[w][r]
<1>1. IsBatch(batch[w]) /\ archive \in [Rows -> 0..MaxVersion + 1]
  BY DEF Parts, RunTypes, DataTypes
<1>2. archive' = [r \in Rows |-> IF archive[r] = 0 /\ r \in DOMAIN batch[w]
                                 THEN batch[w][r] ELSE archive[r]]
  BY DEF Inserted
<1>3. \A r \in DOMAIN batch[w] : /\ r \in Rows
                                /\ batch[w][r] \in 0..MaxVersion + 1
                                /\ batch[w][r] # 0
  BY <1>1, BoundsAssumption DEF IsBatch
<1>. QED
  BY <1>1, <1>2, <1>3 DEF Has

\* A run a foreign key stops leaves the databases as they are.
LEMMA RefusedParts ==
    ASSUME Parts, NEW w \in Runs, Refused(w), UNCHANGED <<year, latest, faults>>
    PROVE  Parts'
<1>1. /\ blocked' = blocked \cup {w} /\ End(w)
      /\ UNCHANGED <<year, hot, archive, latest, faults>>
  BY DEF Refused
<1>2. RunStep(w) /\ pc'[w] = "idle" /\ batch'[w] = Empty
  BY <1>1, EndRun DEF Parts
<1>3. OwnInv(w)'
  BY <1>2, IdleOwn
<1>. QED
  BY <1>1, <1>2, <1>3, RunOnly DEF Parts, DataTypes

\* Pass 1: the archive gets a batch's rows as they were last written.
LEMMA InsertBatchParts ==
    ASSUME Parts, NEW w \in Runs, InsertBatch(w)
    PROVE  Parts'
<1>1. /\ pc[w] = "insert" /\ batch[w] # Empty
      /\ UNCHANGED <<year, latest, faults>>
  BY DEF InsertBatch
<1>2. CASE Refused(w)
  BY <1>1, <1>2, RefusedParts
<1>3. CASE ~ Refused(w)
  <2>1. archive' = Inserted(w) /\ Advance(w) /\ UNCHANGED <<hot, blocked>>
    BY <1>3 DEF InsertBatch
  <2>2. /\ archive' \in [Rows -> 0..MaxVersion + 1]
        /\ Has(archive)' = Has(archive) \cup DOMAIN batch[w]
        /\ \A r \in Rows : \/ archive'[r] = archive[r]
                          \/ /\ archive[r] = 0 /\ r \in DOMAIN batch[w]
                             /\ archive'[r] = batch[w][r]
    BY <2>1, InsertedRows
  <2>3. /\ Past' = Past /\ Has(hot)' = Has(hot)
        /\ IsBatch(batch[w]) /\ Cardinality(DOMAIN batch[w]) \in Nat
        /\ table[w] \in 1..7
    BY <1>1, <2>1, BatchFinite DEF Past, Has, Parts, RunTypes
  <2>4. ASSUME Quiet, NEW r \in Past \cap Has(hot)
        PROVE  /\ (\E i \in 1..table[w] - 1 : Table[r] = InsertOrder[i])
                     => r \in Has(archive)'
               /\ InTable(w, r) /\ r <= cursor[w] => r \in Has(archive)'
               /\ InTable(w, r) /\ r > cursor[w] =>
                     \/ r \in Has(archive)'
                     \/ /\ Cardinality(DOMAIN batch[w]) >= BatchSize
                        /\ \A s \in DOMAIN batch[w] : s < r
    BY <1>1, <2>2, <2>4 DEF Parts, OwnInv
  <2>5. RunStep(w) /\ (Quiet => OwnInv(w)')
    <3>1. CASE Cardinality(DOMAIN batch[w]) < BatchSize
      <4>1. NextTable(w)
        BY <2>1, <3>1 DEF Advance
      <4>2. ASSUME Quiet PROVE TableDone(w)
        <5>1. \A r \in Past \cap Has(hot) : r \in Nat /\ cursor[w] \in Nat
          BY RowsAssumption DEF Has, Parts, RunTypes
        <5>2. ~ (Cardinality(DOMAIN batch[w]) >= BatchSize)
          BY <2>3, <3>1, BoundsAssumption
        <5>3. ASSUME NEW r \in Past \cap Has(hot), NEW i \in 1..table[w],
                     Table[r] = InsertOrder[i]
              PROVE  r \in Has(archive)'
          <6>1. CASE i = table[w]
            BY <2>4, <4>2, <5>1, <5>2, <5>3, <6>1 DEF InTable
          <6>2. CASE i \in 1..table[w] - 1
            BY <2>4, <4>2, <5>3, <6>2
          <6>. QED
            BY <2>3, <6>1, <6>2
        <5>. QED
          BY <1>1, <2>3, <5>3 DEF TableDone
      <4>. QED
        BY <1>1, <4>1, <4>2, NextTableRun, NextTableOwn DEF Parts
    <3>2. CASE ~ (Cardinality(DOMAIN batch[w]) < BatchSize)
      <4>1. /\ RunStep(w)
            /\ UNCHANGED <<pc, table, cutoff>> /\ batch'[w] = Empty
            /\ cursor'[w] = LastOf(DOMAIN batch[w])
        BY <1>1, <2>1, <3>2, AdvanceFull
      <4>2. ASSUME Quiet PROVE OwnInv(w)'
        <5>1. LastOf(DOMAIN batch[w]) \in DOMAIN batch[w]
          BY <1>1, <2>3, BatchFinite
        <5>2. ASSUME NEW r \in Past \cap Has(hot), InTable(w, r), r <= cursor'[w]
              PROVE  r \in Has(archive)'
          <6>1. r \in Nat /\ cursor[w] \in Nat /\ cursor'[w] \in Nat
            BY <2>3, <4>1, <5>1, RowsAssumption DEF Has, Parts, RunTypes, IsBatch
          <6>2. ~ (\A s \in DOMAIN batch[w] : s < r)
            BY <4>1, <5>1, <5>2, <6>1
          <6>. QED
            BY <2>4, <4>2, <5>2, <6>1, <6>2
        <5>3. pc'[w] = "insert" /\ cutoff'[w] = year'
          BY <1>1, <4>1, <4>2 DEF Parts, OwnInv
        <5>. QED
          BY <1>1, <2>3, <2>4, <4>1, <4>2, <5>2, <5>3, EmptyBatch DEF OwnInv, InTable
      <4>. QED
        BY <4>1, <4>2
    <3>. QED
      BY <3>1, <3>2
  <2>6. ASSUME Quiet PROVE SharedInv'
    <3>1. SharedInv /\ OwnInv(w)
      BY <2>6 DEF Parts
    <3>2. Has(archive)' \subseteq Past'
      BY <2>2, <2>3, <3>1 DEF SharedInv, OwnInv
    <3>3. ASSUME NEW r \in Rows
          PROVE  /\ latest[r] \in {hot[r], archive'[r]}
                 /\ archive'[r] \in {0, latest[r]}
      BY <2>2, <3>1 DEF SharedInv, OwnInv
    <3>. QED
      BY <1>1, <2>1, <2>3, <3>1, <3>2, <3>3 DEF SharedInv, OrdersStay
  <2>7. ASSUME Quiet PROVE \A c \in Runs \ {w} : OwnInv(c)'
    BY <1>1, <2>2, <2>3, <2>5, <2>7, OthersKeep DEF Parts, RunStep
  <2>8. DataTypes'
    BY <1>1, <2>1, <2>2, <2>5 DEF Parts, DataTypes, RunStep
  <2>. QED
    BY <2>5, <2>6, <2>7, <2>8 DEF Parts, RunStep, Quiet
<1>. QED
  BY <1>2, <1>3

\* Pass 2 reads rows of past years only, and all that are left if they do not
\* fill a batch.
LEMMA SelectDeleteParts ==
    ASSUME Parts, NEW w \in Runs, SelectDelete(w)
    PROVE  Parts'
<1>. DEFINE left == Eligible(DeleteOrder[table[w]], cutoff[w])
            read == Highest(left, BatchSize)
<1>1. /\ pc[w] = "delete" /\ batch[w] = Empty
      /\ IF read = {}
         THEN NextTable(w)
         ELSE /\ batch' = [batch EXCEPT ![w] = Read(read)]
              /\ UNCHANGED <<lock, pc, table, cutoff, cursor, expired, lapsed>>
      /\ UNCHANGED <<year, hot, archive, latest, blocked, faults>>
  BY DEF SelectDelete
<1>2. /\ left \in SUBSET Rows /\ read \subseteq left
      /\ read \subseteq Has(hot)
  BY DEF Eligible, Has, Highest
<1>3. ASSUME NEW r \in left, r \notin read
      PROVE  Cardinality(read) >= BatchSize
  BY <1>2, <1>3, HighestFull, BoundsAssumption
<1>4. CASE read = {}
  <2>1. NextTable(w)
    BY <1>1, <1>4
  <2>2. ASSUME Quiet PROVE TableDone(w)
    <3>1. SharedInv /\ OwnInv(w) /\ cutoff[w] = year
      BY <1>1, <2>2 DEF Parts, OwnInv
    <3>2. left = {}
      <4>. SUFFICES ASSUME NEW r \in left PROVE FALSE
        OBVIOUS
      <4>1. Cardinality(read) >= BatchSize
        BY <1>3, <1>4
      <4>2. Cardinality(read) = 0
        BY <1>4, FS_EmptySet
      <4>. QED
        BY <4>1, <4>2, BoundsAssumption
    <3>3. \A r \in Past \cap Has(hot) : Table[r] # DeleteOrder[table[w]]
      BY <3>1, <3>2, EligiblePast
    <3>4. Past' = Past /\ Has(hot)' = Has(hot) /\ Has(archive)' = Has(archive)
      BY <1>1 DEF Past, Has
    <3>5. table[w] \in 1..7
      BY DEF Parts, RunTypes
    <3>. QED
      BY <1>1, <3>1, <3>3, <3>4, <3>5 DEF TableDone, OwnInv
  <2>3. RunStep(w) /\ (Quiet => OwnInv(w)')
    BY <1>1, <2>1, <2>2, NextTableRun, NextTableOwn DEF Parts
  <2>. QED
    BY <1>1, <2>3, RunOnly DEF Parts, DataTypes
<1>5. CASE read # {}
  <2>1. /\ batch' = [batch EXCEPT ![w] = Read(read)]
        /\ UNCHANGED <<lock, pc, table, cutoff, cursor, expired, lapsed>>
    BY <1>1, <1>5
  <2>2. batch' = [c \in Runs |-> IF c = w THEN Read(read) ELSE batch[c]]
    BY <2>1 DEF Parts, RunTypes
  <2>3. /\ IsBatch(Read(read)) /\ DOMAIN Read(read) = read
        /\ \A r \in read : Read(read)[r] = hot[r]
    BY <1>2 DEF Read, IsBatch, Has, Parts, DataTypes
  <2>4. RunTypes' /\ \A c \in Runs \ {w} : SameRun(c)
    BY <2>1, <2>2, <2>3 DEF Parts, RunTypes, SameRun
  <2>5. RunStep(w)
    BY <2>1, <2>4 DEF Parts, RunStep, HeldLock, DataTypes
  <2>6. ASSUME Quiet PROVE OwnInv(w)'
    <3>1. SharedInv /\ OwnInv(w) /\ cutoff[w] = year
      BY <1>1, <2>6 DEF Parts, OwnInv
    <3>2. Past' = Past /\ Has(hot)' = Has(hot) /\ Has(archive)' = Has(archive)
      BY <1>1 DEF Past, Has
    <3>3. batch'[w] = Read(read)
      BY <2>2
    <3>4. \A r \in read : r \in Past /\ hot[r] = latest[r]
      BY <1>2, <3>1, EligiblePast DEF SharedInv, Has
    <3>5. ASSUME NEW r \in Past \cap Has(hot), Table[r] = DeleteOrder[table[w]]
          PROVE  r \in read \/ Cardinality(read) >= BatchSize
      BY <1>3, <3>1, <3>5, EligiblePast
    <3>. QED
      BY <1>1, <2>1, <2>3, <3>1, <3>2, <3>3, <3>4, <3>5 DEF OwnInv
  <2>. QED
    BY <1>1, <2>5, <2>6, RunOnly DEF Parts, DataTypes
<1>. QED
  BY <1>4, <1>5

\* What a batch takes out of hot, the items of its orders included, is of past
\* years and in the archive.
LEMMA GonePast ==
    ASSUME Parts, Quiet, NEW w \in Runs, pc[w] = "delete"
    PROVE  Gone(w) \subseteq Past \cap Has(hot) \cap Has(archive)
<1>1. OwnInv(w) /\ SharedInv
  BY DEF Parts
<1>2. \A r \in Past \cap Has(hot) : r \in Has(archive)
  BY <1>1 DEF OwnInv
<1>3. \A r \in Rows : Order[r] \in DOMAIN batch[w] => r \in Past
  <2>. SUFFICES ASSUME NEW r \in Rows, Order[r] \in DOMAIN batch[w], Order[r] # r
                PROVE  r \in Past
    BY <1>1 DEF OwnInv
  <2>1. Order[r] \in Past
    BY <1>1 DEF OwnInv
  <2>. QED
    BY <2>1, RowsAssumption DEF Past
<1>. QED
  BY <1>1, <1>2, <1>3 DEF Gone, Has, OwnInv

\* Pass 2: hot loses rows the archive has as they were last written.
LEMMA DeleteBatchParts ==
    ASSUME Parts, NEW w \in Runs, DeleteBatch(w)
    PROVE  Parts'
<1>1. /\ pc[w] = "delete" /\ batch[w] # Empty
      /\ UNCHANGED <<year, latest, faults>>
  BY DEF DeleteBatch
<1>2. CASE Refused(w)
  BY <1>1, <1>2, RefusedParts
<1>3. CASE ~ Refused(w)
  <2>1. /\ KeysHold(Has(hot) \ Gone(w))
        /\ hot' = [r \in Rows |-> IF r \in Gone(w) THEN 0 ELSE hot[r]]
        /\ Advance(w) /\ UNCHANGED <<archive, blocked>>
    BY <1>3 DEF DeleteBatch
  <2>2. /\ hot' \in [Rows -> 0..MaxVersion + 1]
        /\ Has(hot)' = Has(hot) \ Gone(w)
        /\ \A r \in Rows : hot'[r] = IF r \in Gone(w) THEN 0 ELSE hot[r]
    BY <2>1, BoundsAssumption DEF Parts, DataTypes, Has
  <2>3. /\ Past' = Past /\ Has(archive)' = Has(archive)
        /\ IsBatch(batch[w]) /\ Cardinality(DOMAIN batch[w]) \in Nat
        /\ table[w] \in 1..7
    BY <1>1, <2>1, BatchFinite DEF Past, Has, Parts, RunTypes
  <2>4. DOMAIN batch[w] \cap Has(hot) \subseteq Gone(w)
    BY DEF Gone
  <2>5. ASSUME Quiet, NEW r \in Past \cap Has(hot)'
        PROVE  /\ r \in Has(archive)'
               /\ \A i \in 1..table[w] - 1 : Table[r] # DeleteOrder[i]
               /\ Table[r] = DeleteOrder[table[w]] =>
                     Cardinality(DOMAIN batch[w]) >= BatchSize
    BY <1>1, <2>2, <2>3, <2>4, <2>5 DEF Parts, OwnInv
  <2>6. RunStep(w) /\ (Quiet => OwnInv(w)')
    <3>1. CASE Cardinality(DOMAIN batch[w]) < BatchSize
      <4>1. NextTable(w)
        BY <2>1, <3>1 DEF Advance
      <4>2. ~ (Cardinality(DOMAIN batch[w]) >= BatchSize)
        BY <2>3, <3>1, BoundsAssumption
      <4>3. ASSUME Quiet PROVE TableDone(w)
        BY <1>1, <2>3, <2>5, <4>2, <4>3 DEF TableDone
      <4>. QED
        BY <1>1, <4>1, <4>3, NextTableRun, NextTableOwn DEF Parts
    <3>2. CASE ~ (Cardinality(DOMAIN batch[w]) < BatchSize)
      <4>1. /\ RunStep(w)
            /\ UNCHANGED <<pc, table, cutoff>> /\ batch'[w] = Empty
        BY <1>1, <2>1, <3>2, AdvanceFull
      <4>2. ASSUME Quiet PROVE OwnInv(w)'
        <5>1. pc'[w] = "delete" /\ cutoff'[w] = year'
          BY <1>1, <4>1, <4>2 DEF Parts, OwnInv
        <5>. QED
          BY <2>3, <2>5, <4>1, <4>2, <5>1, EmptyBatch DEF OwnInv
      <4>. QED
        BY <4>1, <4>2
    <3>. QED
      BY <3>1, <3>2
  <2>7. ASSUME Quiet PROVE SharedInv'
    <3>1. SharedInv /\ Gone(w) \subseteq Has(archive)
      BY <1>1, <2>7, GonePast DEF Parts
    <3>2. ASSUME NEW r \in Rows
          PROVE  /\ latest[r] \in {hot'[r], archive[r]}
                 /\ hot'[r] \in {0, latest[r]}
      BY <2>2, <3>1 DEF SharedInv, Has
    <3>3. OrdersStay'
      <4>. SUFFICES ASSUME NEW r \in Has(hot) \ Gone(w)
                    PROVE  Order[r] \in Has(hot) \ Gone(w)
        BY <2>2 DEF OrdersStay
      <4>1. Order[r] \in Has(hot) /\ latest[Order[r]] # 0
        BY <3>1 DEF SharedInv, OrdersStay, Has
      <4>2. Order[r] \in PointsTo(r)
        BY <4>1 DEF PointsTo
      <4>. QED
        BY <2>1, <4>2 DEF KeysHold
    <3>. QED
      BY <1>1, <2>1, <2>3, <3>1, <3>2, <3>3 DEF SharedInv
  <2>8. ASSUME Quiet PROVE \A c \in Runs \ {w} : OwnInv(c)'
    BY <1>1, <2>2, <2>3, <2>6, <2>8, OthersKeep DEF Parts, RunStep
  <2>9. DataTypes'
    BY <1>1, <2>1, <2>2, <2>6 DEF Parts, DataTypes, RunStep
  <2>. QED
    BY <2>6, <2>7, <2>8, <2>9 DEF Parts, RunStep, Quiet
<1>. QED
  BY <1>2, <1>3

\* A run that stops, fails or dies changes neither database; its lock stays its
\* own or lapses.
LEMMA EndParts ==
    ASSUME Parts, NEW w \in Runs, Stop(w) \/ Fails(w) \/ Dies(w)
    PROVE  Parts'
<1>1. /\ UNCHANGED <<year, hot, archive, latest, blocked>>
      /\ faults' \in 0..MaxFaults
  BY BoundsAssumption DEF Stop, Fails, Dies, Fault, Parts, DataTypes
<1>2. RunStep(w) /\ pc'[w] = "idle" /\ batch'[w] = Empty
  <2>1. CASE End(w)
    BY <2>1, EndRun DEF Parts
  <2>2. CASE Dies(w)
    <3>1. Forget(w) /\ lock' = lock
      BY <2>2 DEF Dies
    <3>2. /\ RunTypes'
          /\ pc'[w] = "idle" /\ batch'[w] = Empty
          /\ \A c \in Runs \ {w} : SameRun(c) /\ (c \in lapsed => c \in lapsed')
      BY <3>1, ForgetRun DEF Parts
    <3>. QED
      BY <3>1, <3>2 DEF Parts, RunStep, HeldLock, SameRun, DataTypes
  <2>. QED
    BY <2>1, <2>2 DEF Stop, Fails
<1>. QED
  BY <1>1, <1>2, IdleOwn, RunOnly DEF Parts, DataTypes

\* A budget that ends, a lock that lapses, and steps of others.
LEMMA OtherParts ==
    ASSUME Parts,
           (\E w \in Runs : BudgetEnds(w)) \/ LockLapses \/ UNCHANGED vars
    PROVE  Parts'
<1>1. /\ UNCHANGED <<year, hot, archive, latest, blocked>>
      /\ UNCHANGED <<pc, table, cutoff, cursor, batch>>
  BY DEF BudgetEnds, LockLapses, vars, runVars
<1>2. RunTypes'
  BY <1>1 DEF BudgetEnds, LockLapses, vars, runVars, Parts, RunTypes, DataTypes
<1>3. lock' \in Runs \cup {NoRun} /\ faults' \in 0..MaxFaults
  BY BoundsAssumption DEF BudgetEnds, LockLapses, Fault, vars, Parts, DataTypes
<1>4. \A c \in Runs : HeldLock(c)'
  BY <1>1 DEF BudgetEnds, LockLapses, vars, Parts, HeldLock
<1>5. Past' = Past /\ Has(hot)' = Has(hot) /\ Has(archive)' = Has(archive)
  BY <1>1 DEF Past, Has
<1>6. ASSUME Quiet PROVE SharedInv' /\ \A c \in Runs : OwnInv(c)'
  <2>1. SharedInv /\ \A c \in Runs : OwnInv(c)
    BY <1>6 DEF Parts
  <2>2. \A c \in Runs : OwnInv(c)'
    BY <1>1, <1>5, <2>1, OthersKeep DEF SameRun
  <2>. QED
    BY <1>1, <1>5, <2>1, <2>2 DEF SharedInv, OrdersStay
<1>. QED
  BY <1>1, <1>2, <1>3, <1>4, <1>6 DEF Parts, DataTypes, Quiet

-----------------------------------------------------------------------------
(* The theorems. *)

\* However runs overlap, stop and die: while nothing of a past year is written
\* and no year ends under a run, each row is in one database as it was last
\* written, the archive has only past years' rows, pass 2 takes out only what
\* the archive has; and a run's lock is its own unless it lapsed.
THEOREM Invariance == Spec => []IInv
<1>1. Parts /\ [Next]_vars => Parts'
  <2>. SUFFICES ASSUME Parts, [Next]_vars PROVE Parts'
    OBVIOUS
  <2>1. ASSUME NEW r \in Rows, Write(r) PROVE Parts'
    BY <2>1, WriteParts
  <2>2. ASSUME NEW w \in Runs, Start(w) PROVE Parts'
    BY <2>2, StartParts
  <2>3. ASSUME NEW w \in Runs, SelectInsert(w) PROVE Parts'
    BY <2>3, SelectInsertParts
  <2>4. ASSUME NEW w \in Runs, InsertBatch(w) PROVE Parts'
    BY <2>4, InsertBatchParts
  <2>5. ASSUME NEW w \in Runs, SelectDelete(w) PROVE Parts'
    BY <2>5, SelectDeleteParts
  <2>6. ASSUME NEW w \in Runs, DeleteBatch(w) PROVE Parts'
    BY <2>6, DeleteBatchParts
  <2>7. ASSUME NEW w \in Runs, Stop(w) \/ Fails(w) \/ Dies(w) PROVE Parts'
    BY <2>7, EndParts
  <2>8. ASSUME NEW w \in Runs, BudgetEnds(w) PROVE Parts'
    BY <2>8, OtherParts
  <2>. QED
    BY <2>1, <2>2, <2>3, <2>4, <2>5, <2>6, <2>7, <2>8, NewYearParts, OtherParts
       DEF Next, Run
<1>. QED
  BY <1>1, InitParts, IInvParts, PTL DEF Spec

\* The rows of the tables before the last are gone when a run is at the last.
LEMMA LastTable ==
    ASSUME Parts, Quiet, NEW w \in Runs, pc[w] = "delete", table[w] = 7,
           year' = year, Has(hot)' \subseteq Has(hot),
           \A r \in Past \cap Has(hot)' : Table[r] # DeleteOrder[7]
    PROVE  Past \cap Has(hot)' = {}
<1>1. \A r \in Past \cap Has(hot)' : \A i \in 1..7 - 1 : Table[r] # DeleteOrder[i]
  BY DEF Parts, OwnInv
<1>2. \A i \in 1..7 : i = 7 \/ i \in 1..7 - 1
  OBVIOUS
<1>3. \A r \in Past : Table[r] \in Tables
  BY Places DEF Past
<1>. QED
  BY <1>1, <1>2, <1>3, Places

\* A run that comes to its end by itself, unstopped by a foreign key, leaves no
\* row of a past year in hot.
THEOREM NothingStays == ASSUME Quiet PROVE Spec => NothingLeft
<1>0. Len(InsertOrder) = 7
  BY Places
<1>1. Parts /\ [Next]_vars => [\A w \in Runs :
                               Completes(w) => \A r \in Past : hot'[r] = 0]_vars
  <2>. SUFFICES ASSUME Parts, Next, NEW w \in Runs, Completes(w)
                PROVE  \A r \in Past : hot'[r] = 0
    OBVIOUS
  <2>0. /\ pc[w] = "delete" /\ table[w] = 7 /\ ~ expired[w]
        /\ pc'[w] = "idle" /\ faults' = faults /\ w \notin blocked'
    BY <1>0 DEF Completes
  <2>1. faults \in Nat /\ RunTypes /\ DataTypes /\ OwnInv(w) /\ SharedInv
    BY BoundsAssumption DEF Parts, DataTypes
  <2>2. SUFFICES Past \cap Has(hot)' = {}
    BY DEF Past, Has
  <2>. USE <2>0
  <2>3. ASSUME SelectDelete(w) PROVE Past \cap Has(hot)' = {}
    <3>1. Highest(Eligible(DeleteOrder[7], cutoff[w]), BatchSize) = {}
      BY <2>3 DEF SelectDelete
    <3>2. Eligible(DeleteOrder[7], cutoff[w]) = {}
      <4>1. Eligible(DeleteOrder[7], cutoff[w]) \in SUBSET Rows
        BY DEF Eligible, Has
      <4>2. ASSUME NEW r \in Eligible(DeleteOrder[7], cutoff[w]) PROVE FALSE
        <5>1. Cardinality(Highest(Eligible(DeleteOrder[7], cutoff[w]), BatchSize))
                >= BatchSize
          BY <3>1, <4>1, HighestFull, BoundsAssumption
        <5>2. Cardinality(Highest(Eligible(DeleteOrder[7], cutoff[w]), BatchSize)) = 0
          BY <3>1, FS_EmptySet
        <5>. QED
          BY <5>1, <5>2, BoundsAssumption
      <4>. QED
        BY <4>2
    <3>3. \A r \in Past \cap Has(hot) : Table[r] # DeleteOrder[7]
      BY <2>1, <3>2, EligiblePast DEF OwnInv
    <3>4. year' = year /\ Has(hot)' = Has(hot)
      BY <2>3 DEF SelectDelete, Has
    <3>. QED
      BY <3>3, <3>4, LastTable
  <2>4. ASSUME DeleteBatch(w) PROVE Past \cap Has(hot)' = {}
    <3>1. /\ batch[w] # Empty /\ year' = year
          /\ hot' = [r \in Rows |-> IF r \in Gone(w) THEN 0 ELSE hot[r]]
          /\ Advance(w)
      BY <2>4 DEF DeleteBatch, Refused
    <3>2. Cardinality(DOMAIN batch[w]) < BatchSize
      BY <2>1, <3>1 DEF Advance
    <3>3. Has(hot)' = Has(hot) \ Gone(w)
      BY <2>1, <3>1 DEF Has, DataTypes
    <3>4. Cardinality(DOMAIN batch[w]) \in Nat
      BY <2>1, <3>1, BatchFinite DEF RunTypes
    <3>5. \A r \in Past \cap Has(hot) :
             Table[r] = DeleteOrder[7] => r \in DOMAIN batch[w]
      BY <2>1, <3>1, <3>2, <3>4, BoundsAssumption DEF OwnInv
    <3>6. \A r \in Past \cap Has(hot)' : Table[r] # DeleteOrder[7]
      BY <3>3, <3>5 DEF Gone
    <3>. QED
      BY <3>1, <3>3, <3>6, LastTable
  <2>5. ASSUME NEW c \in Runs, AtTable(c, "insert", 1) PROVE FALSE
    BY <2>1, <2>5, AtTableRun DEF SameRun
  <2>6. ASSUME NEW c \in Runs, pc[c] = "insert", SelectInsert(c) \/ InsertBatch(c)
        PROVE  FALSE
    <3>1. CASE UNCHANGED pc
      BY <3>1
    <3>2. CASE NextTable(c)
      BY <2>1, <2>6, <3>2, NextTableRun DEF RunStep, SameRun, Parts
    <3>3. CASE End(c)
      BY <2>1, <2>6, <3>3, EndRun DEF RunStep, SameRun, Parts
    <3>. QED
      BY <2>6, <3>1, <3>2, <3>3 DEF SelectInsert, InsertBatch, Refused, Advance
  <2>7. ASSUME NEW c \in Runs \ {w}, SelectDelete(c) \/ DeleteBatch(c) PROVE FALSE
    <3>0. pc[c] = "delete"
      BY <2>7 DEF SelectDelete, DeleteBatch
    <3>1. CASE UNCHANGED pc
      BY <3>1
    <3>2. CASE NextTable(c)
      BY <2>1, <2>7, <3>0, <3>2, NextTableRun DEF RunStep, SameRun, Parts
    <3>3. CASE End(c)
      BY <2>1, <2>7, <3>3, EndRun DEF RunStep, SameRun, Parts
    <3>. QED
      BY <2>7, <3>1, <3>2, <3>3 DEF SelectDelete, DeleteBatch, Refused, Advance
  <2>8. ASSUME NEW c \in Runs, Stop(c) PROVE FALSE
    <3>1. End(c) /\ expired[c]
      BY <2>8 DEF Stop
    <3>. QED
      BY <2>1, <3>1, EndRun DEF RunStep, SameRun, Parts
  <2>9. ASSUME NEW c \in Runs, BudgetEnds(c) \/ Fails(c) \/ Dies(c) PROVE FALSE
    BY <2>1, <2>9 DEF BudgetEnds, Fails, Dies, Fault
  <2>10. ASSUME NewYear \/ LockLapses \/ \E r \in Rows : Write(r) PROVE FALSE
    BY <2>10 DEF NewYear, LockLapses, Write, runVars
  <2>. QED
    BY <2>3, <2>4, <2>5, <2>6, <2>7, <2>8, <2>9, <2>10
       DEF Next, Run, Start, SelectInsert, InsertBatch
<1>. QED
  BY <1>1, Invariance, IInvParts, PTL DEF Spec, NothingLeft

-----------------------------------------------------------------------------
(* Foreign keys. *)

\* A table has one place in the insert order, and so in the delete order.
LEMMA OnePlace ==
    /\ \A i, j \in 1..7 : InsertOrder[i] = InsertOrder[j] => i = j
    /\ \A i, j \in 1..7 : DeleteOrder[i] = DeleteOrder[j] => i = j
    /\ InsertOrder[1] = "orders" /\ DeleteOrder[7] = "orders"
    /\ \A i \in 1..7 : InsertOrder[i] = DeleteOrder[8 - i]
<1>1. Len(InsertOrder) = 7 /\ InsertOrder[1] = "orders"
  BY DEF InsertOrder
<1>2. \A i \in 1..7 : DeleteOrder[i] = InsertOrder[8 - i]
  BY <1>1 DEF DeleteOrder
<1>3. \A i, j \in 1..7 : InsertOrder[i] = InsertOrder[j] => i = j
  <2>. TAKE i, j \in 1..7
  <2>1. /\ i = 1 \/ i = 2 \/ i = 3 \/ i = 4 \/ i = 5 \/ i = 6 \/ i = 7
        /\ j = 1 \/ j = 2 \/ j = 3 \/ j = 4 \/ j = 5 \/ j = 6 \/ j = 7
    OBVIOUS
  <2>. QED
    BY <2>1 DEF InsertOrder
<1>4. \A i \in 1..7 : 8 - i \in 1..7 /\ 8 - (8 - i) = i
  OBVIOUS
<1>5. \A i \in 1..7 : InsertOrder[i] = DeleteOrder[8 - i]
  BY <1>2, <1>4
<1>6. ASSUME NEW i \in 1..7, NEW j \in 1..7, DeleteOrder[i] = DeleteOrder[j]
      PROVE  i = j
  <2>1. 8 - i = 8 - j
    BY <1>2, <1>3, <1>4, <1>6
  <2>. QED
    BY <2>1
<1>7. DeleteOrder[7] = "orders"
  <2>1. 7 \in 1..7 /\ 8 - 7 = 1
    OBVIOUS
  <2>. QED
    BY <1>1, <1>2, <2>1
<1>. QED
  BY <1>1, <1>3, <1>5, <1>6, <1>7

\* What comes before a row is in its table, or in one pass 1 sees to before ...
LEMMA BeforeInsert ==
    ASSUME NEW s \in Rows, NEW r \in Rows, Before(s, r),
           NEW i \in 1..7, Table[r] = InsertOrder[i]
    PROVE  \/ Table[s] = Table[r] /\ s < r
           \/ \E k \in 1..i - 1 : Table[s] = InsertOrder[k]
BY Places, OnePlace DEF Before

\* ... and the row in its table, or in one pass 2 sees to before.
LEMMA BeforeDelete ==
    ASSUME NEW s \in Rows, NEW r \in Rows, Before(s, r),
           NEW i \in 1..7, Table[s] = DeleteOrder[i]
    PROVE  \/ Table[s] = Table[r] /\ s < r
           \/ \E k \in 1..i - 1 : Table[r] = DeleteOrder[k]
<1>. SUFFICES ASSUME NEW j \in 1..7, NEW k \in 1..j - 1,
                     Table[r] = InsertOrder[j], Table[s] = InsertOrder[k]
              PROVE  \E n \in 1..i - 1 : Table[r] = DeleteOrder[n]
  BY Places DEF Before
<1>1. k \in 1..7 /\ 8 - k \in 1..7 /\ 8 - j \in 1..7 /\ 8 - j \in 1..(8 - k) - 1
  OBVIOUS
<1>2. InsertOrder[k] = DeleteOrder[8 - k] /\ InsertOrder[j] = DeleteOrder[8 - j]
  BY <1>1, OnePlace
<1>3. DeleteOrder[i] = DeleteOrder[8 - k]
  BY <1>2
<1>4. i = 8 - k
  BY <1>1, <1>3, OnePlace
<1>. QED
  BY <1>1, <1>2, <1>4

\* Pointers that go backwards stay in the order, and in its year.
LEMMA PointsBack ==
    ASSUME Backwards, NEW r \in Rows, NEW s \in Refs[r] \cup {Order[r]}, s # r
    PROVE  /\ s \in Rows /\ Before(s, r)
           /\ s \in Past <=> r \in Past
<1>1. s \in Rows /\ Order[s] = Order[r]
  BY RowsAssumption DEF Backwards
<1>2. CASE s = Order[r]
  <2>1. Table[s] = "orders" /\ Table[r] # "orders" /\ Order[r] # r
    BY <1>2 DEF Backwards
  <2>2. PICK j \in 1..7 : Table[r] = InsertOrder[j]
    BY Places
  <2>3. 1 \in 1..j - 1 /\ Table[s] = InsertOrder[1]
    BY <2>1, <2>2, OnePlace
  <2>. QED
    BY <1>1, <2>1, <2>2, <2>3, Places DEF Before, Past, Rootless
<1>3. CASE s \in Refs[r] /\ s # Order[r]
  <2>1. Before(s, r) /\ Order[s] # s
    BY <1>1, <1>3 DEF Backwards
  <2>2. Table[Order[r]] = "orders" /\ Table[s] # "orders"
    BY <1>1, <2>1 DEF Backwards
  <2>3. Order[r] # r
    <3>. SUFFICES ASSUME Order[r] = r PROVE FALSE
      OBVIOUS
    <3>1. Table[r] = InsertOrder[1] /\ Table[s] # Table[r]
      BY <2>2, OnePlace
    <3>2. \E k \in 1..1 - 1 : Table[s] = InsertOrder[k]
      BY <1>1, <2>1, <3>1, BeforeInsert
    <3>. QED
      BY <3>2
  <2>. QED
    BY <1>1, <2>1, <2>3 DEF Past
<1>. QED
  BY <1>2, <1>3

\* A batch is of the table the run is at; in pass 2 nothing left of the table
\* comes after it.
BatchPlaced(w) ==
    /\ pc[w] = "insert" =>
          \A r \in DOMAIN batch[w] : Table[r] = InsertOrder[table[w]]
    /\ pc[w] = "delete" =>
          \A r \in DOMAIN batch[w] :
             /\ Table[r] = DeleteOrder[table[w]]
             /\ \A q \in Past \cap Has(hot) :
                   Table[q] = Table[r] => q \in DOMAIN batch[w] \/ q < r

\* Both databases have what their rows point to, and no run has been stopped.
Unblocked ==
    /\ KeysHold(Has(hot)) /\ KeysHold(Has(archive))
    /\ \A w \in Runs : BatchPlaced(w)
    /\ NeverBlocked

\* Pass 1 inserts a row after those it points to.
LEMMA InsertHolds ==
    ASSUME Parts, Quiet, Backwards, Unblocked, NEW w \in Runs,
           pc[w] = "insert", batch[w] # Empty
    PROVE  KeysHold(Has(Inserted(w)))
<1>1. IsBatch(batch[w]) /\ SharedInv /\ OwnInv(w) /\ table[w] \in 1..7
  BY DEF Parts, RunTypes
<1>2. Has(Inserted(w)) = Has(archive) \cup DOMAIN batch[w]
  <2>1. \A r \in DOMAIN batch[w] : r \in Rows /\ batch[w][r] # 0
    BY <1>1, BoundsAssumption DEF IsBatch, Parts, DataTypes
  <2>. QED
    BY <2>1 DEF Has, Inserted
<1>3. ASSUME NEW r \in DOMAIN batch[w], NEW s \in PointsTo(r), s # r
      PROVE  s \in Has(archive) \cup DOMAIN batch[w]
  <2>1. r \in Past /\ r \in Rows /\ Table[r] = InsertOrder[table[w]]
    BY <1>1 DEF OwnInv, IsBatch, Unblocked, BatchPlaced
  <2>2. s \in Refs[r] \cup {Order[r]} /\ latest[s] # 0
    BY <1>3 DEF PointsTo
  <2>3. s \in Rows /\ s \in Past /\ Before(s, r)
    BY <1>3, <2>1, <2>2, PointsBack
  <2>4. CASE s \in Has(archive)
    BY <2>4
  <2>5. CASE s \notin Has(archive)
    <3>1. s \in Past \cap Has(hot)
      BY <1>1, <2>2, <2>3, <2>5 DEF SharedInv, Has
    <3>2. Table[s] = Table[r] /\ s < r
      BY <1>1, <2>1, <2>3, <2>5, <3>1, BeforeInsert DEF OwnInv
    <3>3. s > cursor[w] /\ r \in Nat /\ s \in Nat
      BY <1>1, <2>1, <2>3, <2>5, <3>1, <3>2, RowsAssumption
         DEF OwnInv, InTable, Parts, RunTypes
    <3>4. s \in DOMAIN batch[w] \/ \A q \in DOMAIN batch[w] : q < s
      BY <1>1, <2>1, <3>1, <3>2, <3>3 DEF OwnInv, InTable
    <3>. QED
      BY <3>2, <3>3, <3>4
  <2>. QED
    BY <2>4, <2>5
<1>. QED
  BY <1>2, <1>3 DEF Unblocked, KeysHold

\* Pass 2 deletes a row after those that point to it.
LEMMA DeleteHolds ==
    ASSUME Parts, Quiet, Backwards, Unblocked, NEW w \in Runs,
           pc[w] = "delete", batch[w] # Empty
    PROVE  KeysHold(Has(hot) \ Gone(w))
<1>1. IsBatch(batch[w]) /\ SharedInv /\ OwnInv(w) /\ table[w] \in 1..7
  BY DEF Parts, RunTypes
<1>. SUFFICES ASSUME NEW r \in Has(hot) \ Gone(w), NEW s \in PointsTo(r), s \in Gone(w)
              PROVE  FALSE
  BY DEF KeysHold, Unblocked
<1>2. /\ r \in Rows /\ r \notin DOMAIN batch[w] /\ s # r
      /\ s \in Refs[r] \cup {Order[r]}
  BY DEF Has, PointsTo, Gone
<1>3. s \in Past
  BY GonePast
<1>4. s \in Rows /\ Before(s, r) /\ r \in Past \cap Has(hot)
  BY <1>2, <1>3, PointsBack
<1>5. \A k \in 1..table[w] - 1 : Table[r] # DeleteOrder[k]
  BY <1>1, <1>4 DEF OwnInv
<1>6. CASE s \in DOMAIN batch[w]
  <2>1. /\ Table[s] = DeleteOrder[table[w]]
        /\ Table[r] = Table[s] => r \in DOMAIN batch[w] \/ r < s
    BY <1>4, <1>6 DEF Unblocked, BatchPlaced
  <2>2. Table[s] = Table[r] /\ s < r
    BY <1>1, <1>2, <1>4, <1>5, <2>1, BeforeDelete
  <2>3. r \in Nat /\ s \in Nat
    BY <1>2, <1>4, RowsAssumption
  <2>. QED
    BY <1>2, <2>1, <2>2, <2>3
<1>7. CASE s \notin DOMAIN batch[w]
  <2>1. Table[s] = "order_items" /\ Order[s] \in DOMAIN batch[w] /\ Order[s] # s
    BY <1>7 DEF Gone
  <2>2. DeleteOrder[table[w]] = "orders"
    <3>1. Table[Order[s]] = "orders"
      BY <1>4, <2>1 DEF Backwards
    <3>. QED
      BY <2>1, <3>1 DEF Unblocked, BatchPlaced
  <2>3. table[w] = 7
    BY <1>1, <2>2, OnePlace
  <2>4. PICK k \in 1..7 : Table[r] = DeleteOrder[k]
    BY <1>2, Places
  <2>5. Table[r] = "orders"
    BY <1>5, <2>3, <2>4, OnePlace
  <2>6. Order[r] = r
    BY <1>2, <2>5 DEF Backwards
  <2>7. \E n \in 1..1 - 1 : Table[s] = InsertOrder[n]
    BY <1>2, <1>4, <2>1, <2>5, OnePlace, BeforeInsert
  <2>. QED
    BY <2>7
<1>. QED
  BY <1>6, <1>7

\* A run has put its batch away.
LEMMA AdvanceRun ==
    ASSUME Parts, NEW w \in Runs, pc[w] \in {"insert", "delete"}, batch[w] # Empty,
           Advance(w)
    PROVE  batch'[w] = Empty /\ \A c \in Runs \ {w} : SameRun(c)
<1>1. CASE Cardinality(DOMAIN batch[w]) < BatchSize
  <2>1. NextTable(w)
    BY <1>1 DEF Advance
  <2>. QED
    BY <2>1, NextTableRun DEF Parts, RunStep
<1>2. CASE ~ (Cardinality(DOMAIN batch[w]) < BatchSize)
  BY <1>2, AdvanceFull DEF RunStep
<1>. QED
  BY <1>1, <1>2

\* A step of a run that breaks no key blocks nobody.
LEMMA StepUnblocked ==
    ASSUME Unblocked, NEW w \in Runs, UNCHANGED <<year, latest, blocked>>,
           Has(hot)' \subseteq Has(hot),
           KeysHold(Has(hot))', KeysHold(Has(archive))',
           \A c \in Runs \ {w} : SameRun(c),
           batch'[w] = Empty \/ BatchPlaced(w)'
    PROVE  Unblocked'
<1>1. Past' = Past
  BY DEF Past
<1>2. ASSUME NEW c \in Runs \ {w} PROVE BatchPlaced(c)'
  <2>1. BatchPlaced(c) /\ SameRun(c)
    BY DEF Unblocked
  <2>. QED
    BY <1>1, <2>1 DEF BatchPlaced, SameRun
<1>3. BatchPlaced(w)'
  BY EmptyBatch DEF BatchPlaced
<1>. QED
  BY <1>2, <1>3 DEF Unblocked, NeverBlocked

\* A step that leaves the databases alone breaks no key.
LEMMA SameKeys ==
    ASSUME Unblocked, UNCHANGED <<hot, archive, latest>>
    PROVE  /\ Has(hot)' = Has(hot)
           /\ KeysHold(Has(hot))' /\ KeysHold(Has(archive))'
BY DEF Unblocked, KeysHold, PointsTo, Has

\* A row written in this year points to rows of hot, and no row of the archive
\* points to it.
LEMMA WriteUnblocked ==
    ASSUME Parts, Quiet, Backwards, Unblocked, NEW r \in Rows, Write(r)
    PROVE  Unblocked'
<1>1. /\ UNCHANGED <<year, archive, blocked>>
      /\ UNCHANGED <<pc, table, cutoff, cursor, batch, expired>>
      /\ Year[Order[r]] = year
      /\ PointsTo(r) \ {r} \subseteq Has(hot)
      /\ latest' = [latest EXCEPT ![r] = @ + 1]
      /\ hot' = [hot EXCEPT ![r] = latest[r] + 1]
      /\ SharedInv
  BY DEF Write, runVars, Quiet, Parts
<1>2. /\ Past' = Past /\ r \notin Past
      /\ Has(archive)' = Has(archive) /\ Has(hot)' = Has(hot) \cup {r}
  BY <1>1, BoundsAssumption DEF Past, Has, Parts, DataTypes
<1>3. \A x \in Rows : PointsTo(x)' \subseteq PointsTo(x) \cup {r}
  BY <1>1, RowsAssumption DEF PointsTo, Parts, DataTypes
<1>4. KeysHold(Has(hot))'
  <2>. SUFFICES ASSUME NEW x \in Has(hot) \cup {r}
                PROVE  PointsTo(x)' \subseteq Has(hot) \cup {r}
    BY <1>2 DEF KeysHold
  <2>1. x \in Rows /\ PointsTo(x) \subseteq Has(hot) \cup {r}
    BY <1>1 DEF Unblocked, KeysHold, Has
  <2>. QED
    BY <1>3, <2>1
<1>5. KeysHold(Has(archive))'
  <2>. SUFFICES ASSUME NEW x \in Has(archive)
                PROVE  PointsTo(x)' \subseteq Has(archive)
    BY <1>2 DEF KeysHold
  <2>1. x \in Rows /\ x \in Past /\ PointsTo(x) \subseteq Has(archive)
    BY <1>1 DEF Unblocked, KeysHold, SharedInv, Has
  <2>2. r \notin Refs[x] \cup {Order[x]}
    BY <1>2, <2>1, PointsBack
  <2>3. r \notin PointsTo(x)'
    BY <2>2 DEF PointsTo
  <2>. QED
    BY <1>3, <2>1, <2>3
<1>6. \A w \in Runs : BatchPlaced(w)'
  <2>1. (Past \cap Has(hot))' = Past \cap Has(hot)
    BY <1>2
  <2>. QED
    BY <1>1, <2>1 DEF Unblocked, BatchPlaced
<1>. QED
  BY <1>1, <1>4, <1>5, <1>6 DEF Unblocked, NeverBlocked

\* A run reads a batch of the table it is at, or goes on to another table.
LEMMA SelectUnblocked ==
    ASSUME Parts, Quiet, Backwards, Unblocked, NEW w \in Runs,
           SelectInsert(w) \/ SelectDelete(w)
    PROVE  Unblocked'
<1>1. UNCHANGED <<year, hot, archive, latest, blocked>>
  BY DEF SelectInsert, SelectDelete
<1>2. ASSUME batch'[w] = Empty \/ BatchPlaced(w)', \A c \in Runs \ {w} : SameRun(c)
      PROVE  Unblocked'
  BY <1>1, <1>2, SameKeys, StepUnblocked
<1>3. CASE NextTable(w)
  <2>1. pc[w] # "idle"
    BY DEF SelectInsert, SelectDelete
  <2>. QED
    BY <1>2, <1>3, <2>1, NextTableRun DEF Parts, RunStep, Empty
<1>4. ASSUME NEW rows, batch' = [batch EXCEPT ![w] = Read(rows)],
             UNCHANGED <<pc, table, cutoff, cursor>>
      PROVE  /\ DOMAIN batch'[w] = rows
             /\ \A c \in Runs \ {w} : SameRun(c)
  <2>1. batch' = [c \in Runs |-> IF c = w THEN Read(rows) ELSE batch[c]]
    BY <1>4 DEF Parts, RunTypes
  <2>. QED
    BY <1>4, <2>1 DEF SameRun, Read
<1>5. CASE SelectInsert(w) /\ ~ NextTable(w)
  <2>. DEFINE rows == Lowest({r \in Eligible(InsertOrder[table[w]], cutoff[w]) :
                                 r > cursor[w]}, BatchSize)
  <2>1. /\ batch' = [batch EXCEPT ![w] = Read(rows)]
        /\ UNCHANGED <<pc, table, cutoff, cursor>> /\ pc[w] = "insert"
    BY <1>5 DEF SelectInsert
  <2>2. \A r \in rows : Table[r] = InsertOrder[table[w]]
    BY DEF Lowest, Eligible
  <2>. HIDE DEF rows
  <2>3. BatchPlaced(w)'
    BY <1>4, <2>1, <2>2 DEF BatchPlaced
  <2>. QED
    BY <1>2, <1>4, <2>1, <2>3
<1>6. CASE SelectDelete(w) /\ ~ NextTable(w)
  <2>. DEFINE left == Eligible(DeleteOrder[table[w]], cutoff[w])
              rows == Highest(left, BatchSize)
  <2>1. /\ batch' = [batch EXCEPT ![w] = Read(rows)]
        /\ UNCHANGED <<pc, table, cutoff, cursor>> /\ pc[w] = "delete"
    BY <1>6 DEF SelectDelete
  <2>2. SharedInv /\ cutoff[w] = year
    BY <2>1 DEF Parts, OwnInv
  <2>3. \A q : q \in left <=> /\ q \in Past \cap Has(hot)
                              /\ Table[q] = DeleteOrder[table[w]]
    BY <2>2, EligiblePast
  <2>4. left \in SUBSET Rows /\ rows \subseteq left
    BY DEF Highest, Eligible, Has
  <2>5. \A q \in left : q \in rows \/ \A r \in rows : q < r
    BY <2>4, HighestFull, BoundsAssumption
  <2>. HIDE DEF left, rows
  <2>6. (Past \cap Has(hot))' = Past \cap Has(hot)
    BY <1>1 DEF Past, Has
  <2>7. BatchPlaced(w)'
    BY <1>4, <2>1, <2>3, <2>4, <2>5, <2>6 DEF BatchPlaced
  <2>. QED
    BY <1>2, <1>4, <2>1, <2>7
<1>. QED
  BY <1>3, <1>5, <1>6

\* No statement of a run is refused.
LEMMA BatchUnblocked ==
    ASSUME Parts, Quiet, Backwards, Unblocked, NEW w \in Runs,
           InsertBatch(w) \/ DeleteBatch(w)
    PROVE  Unblocked'
<1>1. CASE InsertBatch(w)
  <2>1. pc[w] = "insert" /\ batch[w] # Empty
    BY <1>1 DEF InsertBatch
  <2>2. KeysHold(Has(Inserted(w)))
    BY <2>1, InsertHolds
  <2>3. /\ archive' = Inserted(w) /\ Advance(w)
        /\ UNCHANGED <<year, hot, latest, blocked>>
    BY <1>1, <2>2 DEF InsertBatch
  <2>4. /\ Has(hot)' = Has(hot) /\ Has(archive)' = Has(Inserted(w))
        /\ \A r : PointsTo(r)' = PointsTo(r)
    BY <2>3 DEF Has, PointsTo
  <2>5. KeysHold(Has(hot))' /\ KeysHold(Has(archive))'
    BY <2>2, <2>4 DEF KeysHold, Unblocked
  <2>. QED
    BY <2>1, <2>3, <2>4, <2>5, AdvanceRun, StepUnblocked
<1>2. CASE DeleteBatch(w)
  <2>1. pc[w] = "delete" /\ batch[w] # Empty
    BY <1>2 DEF DeleteBatch
  <2>2. KeysHold(Has(hot) \ Gone(w))
    BY <2>1, DeleteHolds
  <2>3. /\ hot' = [r \in Rows |-> IF r \in Gone(w) THEN 0 ELSE hot[r]] /\ Advance(w)
        /\ UNCHANGED <<year, archive, latest, blocked>>
    BY <1>2, <2>2 DEF DeleteBatch
  <2>4. /\ Has(hot)' = Has(hot) \ Gone(w) /\ Has(archive)' = Has(archive)
        /\ \A r : PointsTo(r)' = PointsTo(r)
    BY <2>3 DEF Has, PointsTo
  <2>5. KeysHold(Has(hot))' /\ KeysHold(Has(archive))'
    BY <2>2, <2>4 DEF KeysHold, Unblocked
  <2>. QED
    BY <2>1, <2>3, <2>4, <2>5, AdvanceRun, StepUnblocked
<1>. QED
  BY <1>1, <1>2

\* Runs that start, stop, fail or die, and what goes on around them.
LEMMA OtherUnblocked ==
    ASSUME Parts, Quiet, Unblocked,
           \/ \E w \in Runs : Start(w) \/ Stop(w) \/ Fails(w) \/ Dies(w)
           \/ \E w \in Runs : BudgetEnds(w)
           \/ NewYear \/ LockLapses \/ UNCHANGED vars
    PROVE  Unblocked'
<1>1. UNCHANGED <<hot, archive, latest, blocked>>
  BY DEF Start, Stop, Fails, Dies, BudgetEnds, NewYear, LockLapses, vars
<1>2. /\ Has(hot)' = Has(hot)
      /\ KeysHold(Has(hot))' /\ KeysHold(Has(archive))'
  BY <1>1, SameKeys
<1>3. ASSUME NEW w \in Runs, Start(w) \/ Stop(w) \/ Fails(w) \/ Dies(w)
      PROVE  Unblocked'
  <2>1. year' = year
    BY <1>3 DEF Start, Stop, Fails, Dies
  <2>2. batch'[w] = Empty /\ \A c \in Runs \ {w} : SameRun(c)
    <3>1. 1 \in 1..7
      OBVIOUS
    <3>. QED
      BY <1>3, <3>1, AtTableRun, ForgetRun DEF Start, Stop, Fails, Dies, End, Parts
  <2>. QED
    BY <1>1, <1>2, <2>1, <2>2, StepUnblocked
<1>4. CASE NewYear
  <2>1. /\ UNCHANGED <<pc, table, batch>>
        /\ \A w \in Runs : pc[w] = "idle"
    BY <1>4 DEF NewYear, runVars, Quiet
  <2>2. \A w \in Runs : BatchPlaced(w)'
    BY <2>1 DEF BatchPlaced
  <2>. QED
    BY <1>1, <1>2, <2>2 DEF Unblocked, NeverBlocked
<1>5. CASE (\E w \in Runs : BudgetEnds(w)) \/ LockLapses \/ UNCHANGED vars
  <2>1. UNCHANGED <<year, pc, table, batch>>
    BY <1>5 DEF BudgetEnds, LockLapses, vars, runVars
  <2>2. Past' = Past
    BY <2>1 DEF Past
  <2>3. \A w \in Runs : BatchPlaced(w)'
    BY <1>2, <2>1, <2>2 DEF Unblocked, BatchPlaced
  <2>. QED
    BY <1>1, <1>2, <2>3 DEF Unblocked, NeverBlocked
<1>. QED
  BY <1>3, <1>4, <1>5

\* If every pointer goes backwards, as the worker says they do (it is so while
\* no charge has been refunded), no foreign key ever stops a run, wherever
\* batches are cut and however runs overlap, stop and die.
THEOREM BackwardsIsEnough == ASSUME Quiet, Backwards PROVE Spec => []NeverBlocked
<1>1. Init => Unblocked
  <2>. SUFFICES ASSUME Init PROVE Unblocked
    OBVIOUS
  <2>1. /\ Has(archive) = {} /\ blocked = {} /\ latest = hot
        /\ \A w \in Runs : pc[w] = "idle"
    BY DEF Init, Has
  <2>2. KeysHold(Has(hot))
    BY <2>1, RowsAssumption DEF KeysHold, PointsTo, Has
  <2>. QED
    BY <2>1, <2>2 DEF Unblocked, NeverBlocked, KeysHold, BatchPlaced
<1>2. Parts /\ Unblocked /\ [Next]_vars => Unblocked'
  <2>. SUFFICES ASSUME Parts, Unblocked, [Next]_vars PROVE Unblocked'
    OBVIOUS
  <2>1. ASSUME NEW r \in Rows, Write(r) PROVE Unblocked'
    BY <2>1, WriteUnblocked
  <2>2. ASSUME NEW w \in Runs, SelectInsert(w) \/ SelectDelete(w) PROVE Unblocked'
    BY <2>2, SelectUnblocked
  <2>3. ASSUME NEW w \in Runs, InsertBatch(w) \/ DeleteBatch(w) PROVE Unblocked'
    BY <2>3, BatchUnblocked
  <2>. QED
    BY <2>1, <2>2, <2>3, OtherUnblocked DEF Next, Run
<1>3. Unblocked => NeverBlocked
  BY DEF Unblocked
<1>. QED
  BY <1>1, <1>2, <1>3, Invariance, IInvParts, PTL DEF Spec

-----------------------------------------------------------------------------
(* The refinement. *)

\* While nothing of a past year is written and no year ends under a run, every
\* step moves rows of past years one way, whole and once, or none.
THEOREM ImplementsColdStore == ASSUME Quiet PROVE Spec => Cold!Safety
<1>1. Init => Cold!Init
  BY DEF Init, Cold!Init, Past
<1>2. Parts /\ [Next]_vars => [Cold!Next]_(Cold!coldVars)
  <2>. SUFFICES ASSUME Parts, [Next]_vars
                PROVE  Cold!Next \/ UNCHANGED <<hot, archive, Past>>
    BY DEF Cold!coldVars
  <2>0. RunTypes /\ DataTypes /\ SharedInv /\ \A w \in Runs : OwnInv(w)
    BY DEF Parts
  <2>1. ASSUME NewYear PROVE Cold!YearEnds
    <3>1. year' = year + 1 /\ year \in Nat /\ UNCHANGED <<hot, archive>>
      BY <2>0, <2>1, BoundsAssumption DEF NewYear, DataTypes
    <3>2. \A r \in Rows : Year[Order[r]] \in Nat
      BY RowsAssumption
    <3>3. \A r \in Rows : Year[Order[r]] < year => Year[Order[r]] < year'
      BY <3>1, <3>2
    <3>4. Past \subseteq Past'
      BY <3>3 DEF Past
    <3>. QED
      BY <3>1, <3>4 DEF Cold!YearEnds
  <2>2. ASSUME NEW r \in Rows, Write(r) PROVE Cold!Write(r)
    <3>1. /\ year' = year /\ archive' = archive /\ Year[Order[r]] = year
          /\ hot[r] # 0 \/ latest[r] = 0
          /\ hot' = [hot EXCEPT ![r] = latest[r] + 1]
      BY <2>2 DEF Write, Quiet
    <3>2. r \notin Past /\ Past' = Past
      BY <2>0, <3>1, BoundsAssumption DEF Past, DataTypes
    <3>3. hot[r] = latest[r]
      BY <2>0, <3>1 DEF SharedInv
    <3>. QED
      BY <3>1, <3>2, <3>3 DEF Cold!Write
  <2>3. ASSUME NEW w \in Runs, InsertBatch(w)
        PROVE  Cold!Copy \/ UNCHANGED <<hot, archive, Past>>
    <3>1. year' = year /\ hot' = hot /\ (archive' = archive \/ archive' = Inserted(w))
      BY <2>3 DEF InsertBatch, Refused
    <3>2. Past' = Past
      BY <3>1 DEF Past
    <3>3. CASE archive' = Inserted(w)
      <4>. SUFFICES ASSUME NEW r \in Rows, archive'[r] # archive[r]
                    PROVE  r \in Past /\ archive[r] = 0 /\ archive'[r] = hot[r]
        BY <3>1, <3>2 DEF Cold!Copy
      <4>1. archive[r] = 0 /\ r \in DOMAIN batch[w] /\ archive'[r] = batch[w][r]
        BY <3>3, InsertedRows
      <4>2. r \in Past /\ batch[w][r] = latest[r] /\ latest[r] # 0
        BY <2>0, <4>1 DEF OwnInv
      <4>. QED
        BY <2>0, <4>1, <4>2 DEF SharedInv
    <3>. QED
      BY <3>1, <3>2, <3>3
  <2>4. ASSUME NEW w \in Runs, DeleteBatch(w)
        PROVE  Cold!Remove \/ UNCHANGED <<hot, archive, Past>>
    <3>1. /\ year' = year /\ archive' = archive /\ pc[w] = "delete"
          /\ \/ hot' = hot
             \/ hot' = [r \in Rows |-> IF r \in Gone(w) THEN 0 ELSE hot[r]]
      BY <2>4 DEF DeleteBatch, Refused
    <3>2. Past' = Past
      BY <3>1 DEF Past
    <3>3. \A r \in Gone(w) : archive[r] = hot[r]
      BY <2>0, <3>1, GonePast DEF SharedInv, Has
    <3>4. \A r \in Rows : hot'[r] = hot[r] \/ (hot'[r] = 0 /\ archive[r] = hot[r])
      <4>1. CASE hot' = hot
        BY <4>1
      <4>2. CASE hot' = [r \in Rows |-> IF r \in Gone(w) THEN 0 ELSE hot[r]]
        BY <3>3, <4>2
      <4>. QED
        BY <3>1, <4>1, <4>2
    <3>. QED
      BY <3>1, <3>2, <3>4 DEF Cold!Remove
  <2>5. ASSUME NEW w \in Runs,
               \/ Start(w) \/ SelectInsert(w) \/ SelectDelete(w) \/ Stop(w)
               \/ BudgetEnds(w) \/ Fails(w) \/ Dies(w)
        PROVE  UNCHANGED <<hot, archive, Past>>
    BY <2>5 DEF Start, SelectInsert, SelectDelete, Stop, BudgetEnds, Fails, Dies, Past
  <2>6. ASSUME LockLapses \/ UNCHANGED vars PROVE UNCHANGED <<hot, archive, Past>>
    BY <2>6 DEF LockLapses, vars, Past
  <2>. QED
    BY <2>1, <2>2, <2>3, <2>4, <2>5, <2>6 DEF Next, Run, Cold!Next
<1>. QED
  BY <1>1, <1>2, Invariance, IInvParts, PTL DEF Spec, Cold!Safety
=============================================================================
