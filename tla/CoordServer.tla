----------------------------- MODULE CoordServer -----------------------------
(***************************************************************************)
(* The server: the node registry and the relay registry over one database, *)
(* one clock and one job runner.  They meet where a relay request looks at *)
(* the table `nodes' (RegisterRelayHandler, authorizeNodeOwnership): there *)
(* is no foreign key enforcement, no transaction spans two statements, and *)
(* nothing removes a relay when its node goes.                             *)
(***************************************************************************)
EXTENDS Integers, FiniteSets

CONSTANTS
    Node, Key, Never, Unset, Caller, InactiveThreshold,
    Endpoint, Avail, Profile, Writer, Reader, RelayTTL, CacheTTL, MaxRelays,
    OnlineThreshold, Filters, Methods, SerialRefresh, MaxLatency, MaxTime

\* What the two registries assume of their parameters.
ASSUME ServerAssumption ==
    /\ IsFiniteSet(Node) /\ Never \notin Nat
    /\ Avail \subseteq Nat /\ Unset \notin Avail
    /\ InactiveThreshold \in Nat \ {0} /\ OnlineThreshold \in Nat \ {0}
    /\ RelayTTL \in Nat \ {0} /\ CacheTTL \in Nat \ {0} /\ MaxRelays \in Nat \ {0}
    /\ MaxLatency \in Nat /\ MaxTime \in Nat
    /\ SerialRefresh \in BOOLEAN
    /\ Methods \subseteq {"POST", "PUT", "PUTv1", "DELETE"}
    /\ Filters \subseteq [since: Nat, minAvail: Nat]

VARIABLES
    now,
    nodes, calls, cleanup, gauge, nodeReply,         \* the node registry
    relays, cache, writes, reads, sweep, relayReply  \* the relay registry

nodeVars == <<nodes, calls, cleanup, gauge, nodeReply>>
relayVars == <<relays, cache, writes, reads, sweep, relayReply>>
vars == <<now, nodeVars, relayVars>>

N == INSTANCE NodeRegistry WITH reply <- nodeReply
R == INSTANCE RelayRegistry
        WITH nodes <- N!LiveNodes(nodes), reply <- relayReply, Registered <- SUBSET Node

Init == N!Init /\ R!Init

\* What one registry does, the other sees as a step of the rest of the server.
NodeStep ==
    /\ \/ \E c \in Caller : N!CallStep(c)
       \/ \E n \in Node : N!DeleteNode(n)
    /\ R!Elsewhere

RelayStep ==
    /\ N!Elsewhere
    /\ \/ \E w \in Writer : R!WriteStep(w)
       \/ \E r \in Reader : R!ReadStep(r)

\* The runner's goroutine: a job runs to its end before the next one starts.
JobStep ==
    \/ sweep = R!IdleSweep /\ N!JobStep /\ R!Elsewhere
    \/ cleanup = N!IdleCleanup /\ N!Elsewhere /\ R!SweepStep

Tick == N!Tick /\ R!Tick

Restart == N!Restart /\ R!Restart

Next == NodeStep \/ RelayStep \/ JobStep \/ Tick \/ Restart

Spec == Init /\ [][Next]_vars

(***************************************************************************)
(* Properties.                                                             *)
(***************************************************************************)

Deleted(n) == n \in DOMAIN nodes /\ nodes[n].status = "deleted"

\* The registrations of n's relay that passed their check of the node and have
\* not run their statement yet.
Admitted(q) == q.op = "POST" /\ q.pc \in {"clock", "exec"}
Registrars(n) == {w \in Writer : Admitted(writes[w]) /\ writes[w].node = n}

\* Every relay belongs to a node that was registered at some time, although
\* the foreign key of the schema is not enforced and the check and the insertion
\* of RegisterRelayHandler are two statements.
RelayOwnerKnown == DOMAIN relays \subseteq DOMAIN nodes

\* RegisterRelayHandler checks the node and inserts the relay in two statements,
\* so a deleted node may still get a relay.  No registration is admitted after
\* the deletion, and each that was admitted before brings a relay once at most:
\* neither a heartbeat with the admin key nor a later request adds to them.
LateRelay(n) == n \in DOMAIN relays' \ DOMAIN relays
DwindlingRegistrars(n) ==
    /\ Deleted(n)'
    /\ Registrars(n)' \subseteq Registrars(n)
    /\ LateRelay(n) => Registrars(n)' # Registrars(n)
LateRelaysRunOut == [][\A n \in Node : Deleted(n) => DwindlingRegistrars(n)]_vars

\* docs/api.md: with the deletion of a node its relay is removed as well.
DeletedNodesHaveNoRelay == \A n \in Node : Deleted(n) => n \notin DOMAIN relays

=============================================================================
