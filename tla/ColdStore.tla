----------------------------- MODULE ColdStore -----------------------------
(***************************************************************************)
(* What archival promises: rows only ever move one way.  A row of a past   *)
(* year is copied to the archive as it is, leaves the hot database only    *)
(* when the archive has its very content, and is moved in the end.         *)
(*                                                                         *)
(* Archival.tla (batches, passes, a lock that lapses, deaths) implements   *)
(* it: its steps are proved to, its progress is checked.                   *)
(***************************************************************************)
EXTENDS Naturals

CONSTANT Rows

VARIABLES hot, archive,    \* [Rows -> Nat]: a row's version, or 0
          past             \* the rows of past years

coldVars == <<hot, archive, past>>

Init == /\ hot \in [Rows -> {0, 1}]
        /\ archive = [r \in Rows |-> 0]
        /\ past \in SUBSET Rows

YearEnds ==
    /\ past \subseteq past'
    /\ UNCHANGED <<hot, archive>>

Write(r) ==
    /\ r \notin past
    /\ hot' = [hot EXCEPT ![r] = @ + 1]
    /\ UNCHANGED <<archive, past>>

\* Some rows are copied, together.
Copy ==
    /\ \A r \in Rows :
          \/ archive'[r] = archive[r]
          \/ r \in past /\ archive[r] = 0 /\ archive'[r] = hot[r]
    /\ UNCHANGED <<hot, past>>

\* Some rows are removed, together.
Remove ==
    /\ \A r \in Rows :
          \/ hot'[r] = hot[r]
          \/ hot'[r] = 0 /\ archive[r] = hot[r]
    /\ UNCHANGED <<archive, past>>

Next == YearEnds \/ Copy \/ Remove \/ \E r \in Rows : Write(r)

Safety == Init /\ [][Next]_coldVars

\* Again and again the hot database holds no row of a past year.
Progress == []<>(\A r \in past : hot[r] = 0)

Spec == Safety /\ Progress
=============================================================================
