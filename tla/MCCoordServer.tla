---------------------------- MODULE MCCoordServer ----------------------------
(***************************************************************************)
(* Instances of CoordServer for TLC.                                       *)
(***************************************************************************)
EXTENDS CoordServer, TLC

NoReaders == {}
NoFilters == {}
Registrations == {"POST", "PUTv1", "DELETE"}
OneLevel == {1}
Symmetry == Permutations(Writer)

=============================================================================
