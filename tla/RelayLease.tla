----------------------------- MODULE RelayLease -----------------------------
(***************************************************************************)
(* What the relay registry promises, without requests, statements or a     *)
(* cache: a registered relay holds a lease.  Being heard of renews it, it  *)
(* is suspended only after RelayTTL of silence and lost only after twice   *)
(* that, and nothing else takes it away but the removal of the relay.      *)
(*                                                                         *)
(* A lease records the last time its relay was heard of (`seen') and       *)
(* whether it is in force (`live').  The record is never set back in time, *)
(* and a relay that is heard of is in force again whatever the clean-up    *)
(* was doing at that moment.  `removing' are the relays whose removal on   *)
(* request is not answered yet, so that it cannot be taken for a drop.     *)
(***************************************************************************)
EXTENDS Integers

CONSTANTS Node, RelayTTL

VARIABLES now, lease, removing

vars == <<now, lease, removing>>

Lease == [seen: Nat, live: BOOLEAN]

Init ==
    /\ now = 0 /\ removing = {}
    /\ lease = [n \in {} |-> [seen |-> 0, live |-> TRUE]]

Tick == now' = now + 1 /\ UNCHANGED <<lease, removing>>

\* The relay was heard of at time t.
Renew(n, t) ==
    /\ t <= now
    /\ n \in DOMAIN lease => lease[n].seen <= t
    /\ lease' = [m \in DOMAIN lease \cup {n} |->
                    IF m = n THEN [seen |-> t, live |-> TRUE] ELSE lease[m]]
    /\ UNCHANGED <<now, removing>>

\* Some of the relays not heard of for RelayTTL are suspended.
Suspend(S) ==
    /\ S \subseteq DOMAIN lease
    /\ \A n \in S : lease[n].seen < now - RelayTTL
    /\ lease' = [n \in DOMAIN lease |->
                    IF n \in S THEN [seen |-> lease[n].seen, live |-> FALSE]
                    ELSE lease[n]]
    /\ UNCHANGED <<now, removing>>

\* Some of the suspended relays not heard of for twice RelayTTL are dropped.
Drop(S) ==
    /\ S \subseteq DOMAIN lease
    /\ \A n \in S : ~lease[n].live /\ lease[n].seen < now - 2 * RelayTTL
    /\ lease' = [n \in DOMAIN lease \ S |-> lease[n]]
    /\ UNCHANGED <<now, removing>>

\* The relay is removed on request.
Remove(n) ==
    /\ n \in DOMAIN lease
    /\ lease' = [m \in DOMAIN lease \ {n} |-> lease[m]]
    /\ removing' = removing \cup {n}
    /\ UNCHANGED now

\* Removals are answered, or nobody is left to answer.
Removed ==
    /\ removing' \in SUBSET removing
    /\ UNCHANGED <<now, lease>>

Next ==
    \/ Tick \/ Removed
    \/ \E n \in Node : Remove(n) \/ \E t \in 0..now : Renew(n, t)
    \/ \E S \in SUBSET Node : Suspend(S) \/ Drop(S)

Spec == Init /\ [][Next]_vars

=============================================================================
