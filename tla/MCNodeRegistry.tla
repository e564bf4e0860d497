--------------------------- MODULE MCNodeRegistry ---------------------------
(***************************************************************************)
(* Instances of NodeRegistry for TLC.                                      *)
(***************************************************************************)
EXTENDS NodeRegistry, TLC

Symmetry == Permutations(Node) \cup Permutations(Key) \cup Permutations(Caller)

=============================================================================
