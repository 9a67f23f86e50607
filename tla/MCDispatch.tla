----------------------------- MODULE MCDispatch -----------------------------
(***************************************************************************)
(* Small instances of Dispatch.                                            *)
(***************************************************************************)
EXTENDS Dispatch, TLC

\* Requests, agents and orders are interchangeable.
Symmetry == Permutations(Requests) \cup Permutations(Agents)
                \cup Permutations(Orders)
=============================================================================
