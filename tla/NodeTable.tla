------------------------------ MODULE NodeTable ------------------------------
(***************************************************************************)
(* The table `nodes' of internal/store/sqlite.go and the SQL statements of *)
(* the node operations the server uses, as operators on a table.  A table  *)
(* is a function from the ids that have a row to rows.  Rows are never     *)
(* removed: deletion is a status.                                          *)
(*                                                                         *)
(* A row keeps the hash of its auth key (`key': HashAuthKey is injective   *)
(* on the keys in use), its status, last_seen_at and created_at.  The      *)
(* columns name, mesh_url, vpn_public_key and storage are data no decision *)
(* of the program depends on; deleted_at is set exactly when the status    *)
(* becomes 'deleted'.                                                      *)
(***************************************************************************)
EXTENDS Integers, FiniteSets

CONSTANTS
    Node,     \* node ids
    Key,      \* auth keys
    Never     \* the NULL of last_seen_at

ASSUME NodeFinite == IsFiniteSet(Node)
ASSUME NeverAssumption == Never \notin Nat

NodeStatus == {"active", "inactive", "deleted"}

NodeRow == [key: Key, status: NodeStatus, lastSeen: Nat \cup {Never}, created: Nat]

IsNodeTable(nodes) ==
    /\ nodes = [n \in DOMAIN nodes |-> nodes[n]]
    /\ DOMAIN nodes \subseteq Node
    /\ \A n \in DOMAIN nodes : nodes[n] \in NodeRow

\* Faulty variant: deleted nodes are found.
LiveNodes_All(nodes) == DOMAIN nodes

\* The ids GetNodeByID finds: inactive nodes are found like active ones.
LiveNodes(nodes) == {n \in DOMAIN nodes : nodes[n].status # "deleted"}

\* The ids GetNodeByAuthKeyHash finds for a key: at most one, see CanInsert.
NodesWithKey(nodes, k) == {n \in LiveNodes(nodes) : nodes[n].key = k}

\* Faulty variant: no UNIQUE(auth_key_hash).
CanInsert_NotUnique(nodes, n, k) == n \notin DOMAIN nodes /\ k \in Key

\* UNIQUE(auth_key_hash) and the primary key; deleted rows count.
CanInsert(nodes, n, k) ==
    n \notin DOMAIN nodes /\ \A m \in DOMAIN nodes : nodes[m].key # k

InsertNode(nodes, n, k, t) ==
    [m \in DOMAIN nodes \cup {n} |->
        IF m = n THEN [key |-> k, status |-> "active", lastSeen |-> Never, created |-> t]
        ELSE nodes[m]]

MarkDeleted(nodes, n) == [nodes EXCEPT ![n].status = "deleted"]

\* Faulty variant: nodes of every status are deactivated.
IsInactive_AnyStatus(row, cutoff) == row.lastSeen = Never \/ row.lastSeen < cutoff

\* The WHERE clause of CleanupInactiveNodes; lastSeen is compared with the
\* cut-off only when it is not NULL.
IsInactive(row, cutoff) ==
    /\ row.status = "active"
    /\ row.lastSeen = Never \/ row.lastSeen < cutoff

MarkInactive(nodes, cutoff) ==
    [n \in DOMAIN nodes |->
        IF IsInactive(nodes[n], cutoff)
        THEN [nodes[n] EXCEPT !.status = "inactive"]
        ELSE nodes[n]]

CountByStatus(nodes, s) == Cardinality({n \in DOMAIN nodes : nodes[n].status = s})

=============================================================================
