---------------------------- MODULE NodeDirectory ----------------------------
(***************************************************************************)
(* What the node registry promises, without requests, statements or        *)
(* statuses: a directory that gives every auth key at most one node id.    *)
(* An entry is made once and kept, also when its node is retired and when  *)
(* the process restarts, so no key ever moves to another id.               *)
(*                                                                         *)
(* `told' is what the last answer, if there was one, said.  A new entry is *)
(* announced at most once, to the registration it was made for: `pending'  *)
(* are those not announced yet.  Every other registration confirms an      *)
(* entry it found before its node was retired: `confirming' are those      *)
(* found and not answered yet.  So a key presented after its node is       *)
(* retired gets no answer that names a node, this one or another.  A node  *)
(* is told to be retired exactly when it is, once.                         *)
(***************************************************************************)
CONSTANTS Node, Key

VARIABLES directory, retired, pending, confirming, told

vars == <<directory, retired, pending, confirming, told>>

Nothing == [says |-> "nothing"]
Says(what, n, k) == [says |-> what, node |-> n, key |-> k]
SaysRetired(n) == [says |-> "retired", node |-> n]

Init ==
    /\ directory = [n \in {} |-> 0]
    /\ retired = {} /\ pending = {} /\ confirming = {}
    /\ told = Nothing

\* A key that has no node id gets a new one.
Assign(n, k) ==
    /\ n \notin DOMAIN directory
    /\ \A m \in DOMAIN directory : directory[m] # k
    /\ directory' = [m \in DOMAIN directory \cup {n} |-> IF m = n THEN k ELSE directory[m]]
    /\ pending' = pending \cup {n}
    /\ told' = Nothing
    /\ UNCHANGED <<retired, confirming>>

\* The registration an entry was made for is answered: 201.
Announce(n) ==
    /\ n \in pending
    /\ pending' = pending \ {n}
    /\ told' = Says("assigned", n, directory[n])
    /\ UNCHANGED <<directory, retired, confirming>>

\* Another registration with its key finds the entry.
Find(n) ==
    /\ n \in DOMAIN directory \ retired
    /\ confirming' = confirming \cup {n}
    /\ told' = Nothing
    /\ UNCHANGED <<directory, retired, pending>>

\* One that found it is answered, 200; others may still have to be.
Confirm(n) ==
    /\ n \in confirming
    /\ confirming' \in {confirming, confirming \ {n}}
    /\ told' = Says("known", n, directory[n])
    /\ UNCHANGED <<directory, retired, pending>>

Retire(n) ==
    /\ n \in DOMAIN directory \ retired
    /\ retired' = retired \cup {n}
    /\ told' = SaysRetired(n)
    /\ UNCHANGED <<directory, pending, confirming>>

\* Some registrations are gone with the process, unanswered, or answered with
\* an error.
Lose ==
    /\ pending' \in SUBSET pending
    /\ confirming' \in SUBSET confirming
    /\ told' = Nothing
    /\ UNCHANGED <<directory, retired>>

Next ==
    \/ \E n \in Node : \/ \E k \in Key : Assign(n, k)
                       \/ Announce(n) \/ Find(n) \/ Confirm(n) \/ Retire(n)
    \/ Lose

Spec == Init /\ [][Next]_vars

=============================================================================
