------------------------- MODULE MCRelayConsistency -------------------------
(***************************************************************************)
(* Instances of RelayConsistency for TLC.                                  *)
(***************************************************************************)
EXTENDS RelayConsistency, TLC

MCFilters == {[since |-> 0, minAvail |-> 1]}
NoFilters == {}
PostPutDelete == {"POST", "PUT", "DELETE"}
PostDelete == {"POST", "DELETE"}
AllMethods == {"POST", "PUT", "PUTv1", "DELETE"}
Levels == {0, 1}
OneLevel == {1}
AllNodes == {Node}

\* What the rest of a behaviour and the checked invariants depend on: no action
\* reads the last reply, created_at, the deletions noted in `gone', or what a
\* cleared cache still holds, and of the replies only a listing is looked at.
Relevant ==
    <<now, nodes, [n \in DOMAIN relays |-> <<relays[n].status, relays[n].lastSeen, relays[n].avail>>],
      IF cache.hasCached THEN cache ELSE EmptyCache,
      writes, reads, sweep, overtaken, poisoned, IF IsList THEN reply.list ELSE NoReply>>

Symmetry == Permutations(Node) \cup Permutations(Writer) \cup Permutations(Reader)

=============================================================================
