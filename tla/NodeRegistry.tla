---------------------------- MODULE NodeRegistry ----------------------------
(***************************************************************************)
(* The node registry: POST /v1/nodes/register and DELETE /v1/nodes/{id} of *)
(* internal/api/nodes.go, running concurrently with each other and with    *)
(* the node jobs of internal/jobs/runner.go, over the table `nodes'.       *)
(*                                                                         *)
(* A registration looks its key up, inserts a row when there is none, and  *)
(* then asks the VPN provider for a key before it answers.  The lookup and *)
(* the insertion are two statements without a transaction.                 *)
(***************************************************************************)
EXTENDS NodeTable

CONSTANTS
    Caller,              \* request slots of registrations
    InactiveThreshold,   \* the thresholdHours the runner passes, in ticks
    MaxTime              \* bound on the clock

ASSUME ThresholdAssumption == InactiveThreshold \in Nat \ {0} /\ MaxTime \in Nat

VARIABLES
    now,
    nodes,       \* the table
    calls,       \* the state of each registration
    cleanup,     \* the state of the node job
    gauge,       \* metrics.NodesTotal, a value for each status label
    reply        \* the response sent by the last step, if it sent one

vars == <<now, nodes, calls, cleanup, gauge, reply>>

CONSTANT Unset     \* a field the request at hand does not have

IdleCall == [pc |-> "idle", key |-> Unset, node |-> Unset, code |-> 0, at |-> 0]
IdleCleanup == [pc |-> "idle", at |-> 0]

NoReply == [op |-> "none"]
Registered(k, n, code) == [op |-> "REGISTER", key |-> k, node |-> n, code |-> code]
Deleted(n, code) == [op |-> "DELETE_NODE", node |-> n, code |-> code]

Init ==
    /\ now = 0
    /\ nodes = [n \in {} |-> 0]
    /\ calls = [c \in Caller |-> IdleCall]
    /\ cleanup = IdleCleanup
    /\ gauge = [s \in NodeStatus |-> 0]
    /\ reply = NoReply

(***************************************************************************)
(* Registration.                                                           *)
(***************************************************************************)

\* The idempotency check, GetNodeByAuthKeyHash, which may fail.  `at' is
\* the time of the lookup: the created_at of a new node is read after it.
LookUpKey(c, k) ==
    /\ calls[c].pc = "idle"
    /\ \/ /\ NodesWithKey(nodes, k) = {}
          /\ calls' = [calls EXCEPT ![c] =
                [pc |-> "create", key |-> k, node |-> Unset, code |-> 201, at |-> now]]
          /\ reply' = NoReply
       \/ /\ \E n \in NodesWithKey(nodes, k) :
                calls' = [calls EXCEPT ![c] =
                    [pc |-> "respond", key |-> k, node |-> n, code |-> 200, at |-> 0]]
          /\ reply' = NoReply
       \/ /\ reply' = Registered(k, Unset, 500)
          /\ UNCHANGED calls
    /\ UNCHANGED <<now, nodes, cleanup, gauge>>

\* Faulty variant: answers 201 when the insertion failed.
CreateNode_ErrorIgnored(c, n) ==
    LET k == calls[c].key IN
    /\ calls[c].pc = "create"
    /\ n \notin DOMAIN nodes
    /\ nodes' \in IF CanInsert(nodes, n, k)
                  THEN {InsertNode(nodes, n, k, t) : t \in calls[c].at..now} ELSE {nodes}
    /\ calls' = [calls EXCEPT ![c].pc = "respond", ![c].node = n, ![c].at = 0]
    /\ reply' = NoReply
    /\ UNCHANGED <<now, cleanup, gauge>>

\* CreateNode under a newly generated id, with a created_at read after the lookup
\* and before the statement.  A violated constraint is an error like any other:
\* the handler answers 500.
CreateNode(c, n) ==
    LET k == calls[c].key IN
    /\ calls[c].pc = "create"
    /\ n \notin DOMAIN nodes
    /\ \/ /\ CanInsert(nodes, n, k)
          /\ \E t \in calls[c].at..now : nodes' = InsertNode(nodes, n, k, t)
          /\ calls' = [calls EXCEPT ![c].pc = "respond", ![c].node = n, ![c].at = 0]
          /\ reply' = NoReply
       \/ /\ ~CanInsert(nodes, n, k)
          /\ calls' = [calls EXCEPT ![c] = IdleCall]
          /\ reply' = Registered(k, Unset, 500)
          /\ UNCHANGED nodes
    /\ UNCHANGED <<now, cleanup, gauge>>

CreateFails(c) ==
    /\ calls[c].pc = "create"
    /\ calls' = [calls EXCEPT ![c] = IdleCall]
    /\ reply' = Registered(calls[c].key, Unset, 500)
    /\ UNCHANGED <<now, nodes, cleanup, gauge>>

\* Faulty variant: every accepted registration is answered 201.
SendResponse_AlwaysCreated(c) ==
    LET q == calls[c] IN
    /\ q.pc = "respond"
    /\ calls' = [calls EXCEPT ![c] = IdleCall]
    /\ reply' = Registered(q.key, q.node, 201)
    /\ UNCHANGED <<now, nodes, cleanup, gauge>>

\* sendRegisterResponse: the outcome of CreatePreAuthKey does not change the
\* status code, only whether the response carries a VPN key.
SendResponse(c) ==
    LET q == calls[c] IN
    /\ q.pc = "respond"
    /\ calls' = [calls EXCEPT ![c] = IdleCall]
    /\ reply' = Registered(q.key, q.node, q.code)
    /\ UNCHANGED <<now, nodes, cleanup, gauge>>

(***************************************************************************)
(* Deletion, a single statement, which may fail.                           *)
(***************************************************************************)

DeleteNode(n) ==
    /\ \/ /\ n \in LiveNodes(nodes)
          /\ nodes' = MarkDeleted(nodes, n)
          /\ reply' = Deleted(n, 204)
       \/ /\ n \notin LiveNodes(nodes)
          /\ reply' = Deleted(n, 404)
          /\ UNCHANGED nodes
       \/ /\ reply' = Deleted(n, 500)
          /\ UNCHANGED nodes
    /\ UNCHANGED <<now, calls, cleanup, gauge>>

(***************************************************************************)
(* The node jobs, run one at a time by the goroutine of the runner.        *)
(***************************************************************************)

StartCleanup ==
    /\ cleanup.pc = "idle"
    /\ cleanup' = [pc |-> "update", at |-> now]
    /\ reply' = NoReply
    /\ UNCHANGED <<now, nodes, calls, gauge>>

DeactivateNodes ==
    /\ cleanup.pc = "update"
    /\ nodes' = MarkInactive(nodes, cleanup.at - InactiveThreshold)
    /\ cleanup' = [cleanup EXCEPT !.pc = "gauge"]
    /\ reply' = NoReply
    /\ UNCHANGED <<now, calls, gauge>>

\* refreshNodeGauges: GROUP BY status returns a count for the statuses some
\* row has, and only their gauges are set.
SetGauges(g, table) ==
    [s \in NodeStatus |-> IF CountByStatus(table, s) > 0 THEN CountByStatus(table, s) ELSE g[s]]

\* At the end of the cleanup, at start-up and on a ticker of its own.
RefreshNodeGauges ==
    /\ cleanup.pc \in {"idle", "gauge"}
    /\ gauge' = SetGauges(gauge, nodes)
    /\ cleanup' = IdleCleanup
    /\ reply' = NoReply
    /\ UNCHANGED <<now, nodes, calls>>

CleanupFails ==
    /\ cleanup.pc \in {"update", "gauge"}
    /\ cleanup' = IdleCleanup
    /\ reply' = NoReply
    /\ UNCHANGED <<now, nodes, calls, gauge>>

(***************************************************************************)
(* The environment.                                                        *)
(***************************************************************************)

Tick ==
    /\ now < MaxTime
    /\ now' = now + 1
    /\ reply' = NoReply
    /\ UNCHANGED <<nodes, calls, cleanup, gauge>>

\* The process dies and is started again: the table is all that is kept.
Restart ==
    /\ calls' = [c \in Caller |-> IdleCall]
    /\ cleanup' = IdleCleanup
    /\ gauge' = [s \in NodeStatus |-> 0]
    /\ reply' = NoReply
    /\ UNCHANGED <<now, nodes>>

\* A step of the rest of the server.  None writes the table `nodes'.
Elsewhere ==
    /\ reply' = NoReply
    /\ UNCHANGED <<now, nodes, calls, cleanup, gauge>>

CallStep(c) ==
    \/ \E k \in Key : LookUpKey(c, k)
    \/ \E n \in Node : CreateNode(c, n)
    \/ CreateFails(c)
    \/ SendResponse(c)

JobStep == StartCleanup \/ DeactivateNodes \/ RefreshNodeGauges \/ CleanupFails

Next ==
    \/ \E c \in Caller : CallStep(c)
    \/ \E n \in Node : DeleteNode(n)
    \/ JobStep
    \/ Tick
    \/ Restart
    \/ Elsewhere

Spec == Init /\ [][Next]_vars

(***************************************************************************)
(* Properties.                                                             *)
(***************************************************************************)

Call == [pc: {"idle", "create", "respond"}, key: Key \cup {Unset},
         node: Node \cup {Unset}, code: {0, 200, 201}, at: Nat]

CallOK(q) ==
    /\ q \in Call
    /\ q.pc # "idle" => q.key \in Key
    /\ q.pc = "respond" => q.node \in DOMAIN nodes

\* Every variable has its shape; a registration that is about to answer names
\* a node that has a row.
TypeOK ==
    /\ now \in Nat
    /\ IsNodeTable(nodes)
    /\ calls = [c \in Caller |-> calls[c]]
    /\ \A c \in Caller : CallOK(calls[c])
    /\ cleanup \in [pc: {"idle", "update", "gauge"}, at: Nat]
    /\ gauge \in [NodeStatus -> Nat]

Accepted == reply.op = "REGISTER" /\ reply.code \in {200, 201}

\* A node has one identity: registrations with the same auth key, however they
\* overlap, are retried or race with a deletion, are never told different node
\* ids, and a node id never stands for two keys (RegisterNodeHandler's lookup
\* and CreateNode without a transaction, UNIQUE(auth_key_hash)).
OneIdentityPerKey ==
    /\ \A m, n \in DOMAIN nodes : nodes[m].key = nodes[n].key => m = n
    /\ \A c \in Caller : calls[c].pc = "respond" => nodes[calls[c].node].key = calls[c].key
    /\ Accepted => reply.node \in DOMAIN nodes /\ nodes[reply.node].key = reply.key

\* Deleted rows stay as they are.
KeepsDeleted ==
    \A n \in DOMAIN nodes :
        nodes[n].status = "deleted" => n \in DOMAIN nodes' /\ nodes'[n] = nodes[n]

\* Deletion is final: whatever a registration or the deactivation job was
\* doing, a deleted node is never found again and its row is never reused
\* (DeleteNode against CreateNode and CleanupInactiveNodes).
DeletionIsFinal == [][KeepsDeleted]_vars

\* The table as a directory: see NodeDirectory.
directory == [n \in DOMAIN nodes |-> nodes[n].key]
retired == DOMAIN nodes \ LiveNodes(nodes)

\* The nodes whose creation is not answered yet.
ToAnnounce(c) == calls[c].pc = "respond" /\ calls[c].code = 201
pending == {calls[c].node : c \in {d \in Caller : ToAnnounce(d)}}

\* The nodes some other registration found and has not answered yet.
ToConfirm(c) == calls[c].pc = "respond" /\ calls[c].code = 200
confirming == {calls[c].node : c \in {d \in Caller : ToConfirm(d)}}

told ==
    CASE reply.op = "REGISTER" /\ reply.code = 201 ->
            [says |-> "assigned", node |-> reply.node, key |-> reply.key]
      [] reply.op = "REGISTER" /\ reply.code = 200 ->
            [says |-> "known", node |-> reply.node, key |-> reply.key]
      [] reply.op = "DELETE_NODE" /\ reply.code = 204 -> [says |-> "retired", node |-> reply.node]
      [] OTHER -> [says |-> "nothing"]

Directory == INSTANCE NodeDirectory

\* The concurrent registry implements NodeDirectory: whatever overlaps, fails or
\* is cut off by a restart, a key keeps the node id it was given first, one
\* registration at most is answered 201 for it, the one that made the row, a
\* deletion is answered 204 once, and a key presented after the deletion of its
\* node is answered neither 200 nor with another node.
ImplementsDirectory == Directory!Spec

\* docs/api.md: registering an auth_key whose node exists is idempotent and
\* answers 200; here, that it is not answered 500 by a database that works.
RegistrationIsIdempotent ==
    [][\A c \in Caller : (\E n \in Node : CreateNode(c, n)) /\ NodesWithKey(nodes, calls[c].key) # {}
          => reply'.code = 200]_vars

\* docs/architecture.md: the deactivation job makes nodes inactive that had no
\* contact for longer than the threshold, so not one that registered since.
RecentNodesStayActive ==
    \A n \in DOMAIN nodes : nodes[n].status = "inactive" => nodes[n].created < now - InactiveThreshold

=============================================================================
