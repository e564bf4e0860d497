--------------------------- MODULE MCRelayRegistry ---------------------------
(***************************************************************************)
(* Instances of RelayRegistry for TLC.                                     *)
(***************************************************************************)
EXTENDS RelayRegistry, TLC

MCFilters == {[since |-> 0, minAvail |-> 1], [since |-> 2, minAvail |-> 0]}
AllMethods == {"POST", "PUT", "PUTv1", "DELETE"}
PostPut == {"POST", "PUT"}
NoReaders == {}
NoFilters == {}
Levels == {0, 1}
OneLevel == {1}
AnyNodes == SUBSET Node

\* Request slots and endpoints are interchangeable.
Symmetry == Permutations(Writer) \cup Permutations(Reader)
SymmetryN == Permutations(Node) \cup Permutations(Writer) \cup Permutations(Reader)

=============================================================================
