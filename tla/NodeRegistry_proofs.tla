------------------------- MODULE NodeRegistry_proofs -------------------------
(***************************************************************************)
(* Theorems about the node registry: its type invariant, that a key stands *)
(* for one node, and that deletion is final, for any number of nodes, keys *)
(* and concurrent registrations.                                           *)
(***************************************************************************)
EXTENDS NodeRegistry, FiniteSetTheorems, TLAPS

(***************************************************************************)
(* The statements on the table.                                            *)
(***************************************************************************)

\* INSERT, soft deletion and deactivation leave a table behind.
LEMMA InsertNodeType ==
  ASSUME NEW table, IsNodeTable(table), NEW n \in Node, NEW k \in Key, NEW t \in Nat
  PROVE  IsNodeTable(InsertNode(table, n, k, t))
  BY DEF IsNodeTable, InsertNode, NodeRow, NodeStatus

LEMMA MarkDeletedType ==
  ASSUME NEW table, IsNodeTable(table), NEW n \in DOMAIN table
  PROVE  IsNodeTable(MarkDeleted(table, n))
  BY DEF IsNodeTable, MarkDeleted, NodeRow, NodeStatus

LEMMA MarkInactiveType ==
  ASSUME NEW table, IsNodeTable(table), NEW cutoff
  PROVE  IsNodeTable(MarkInactive(table, cutoff))
  BY DEF IsNodeTable, MarkInactive, NodeRow, NodeStatus

\* They neither remove a row nor change its key, and leave a deleted row alone.
Extends(new, old) ==
    \A n \in DOMAIN old :
        /\ n \in DOMAIN new /\ new[n].key = old[n].key
        /\ old[n].status = "deleted" => new[n] = old[n]

LEMMA InsertNodeExtends ==
  ASSUME NEW table, NEW n, n \notin DOMAIN table, NEW k, NEW t
  PROVE  Extends(InsertNode(table, n, k, t), table)
  BY DEF InsertNode, Extends

LEMMA MarkDeletedExtends ==
  ASSUME NEW table, IsNodeTable(table), NEW n \in LiveNodes(table)
  PROVE  Extends(MarkDeleted(table, n), table)
  BY DEF IsNodeTable, NodeRow, MarkDeleted, LiveNodes, Extends

LEMMA MarkInactiveExtends ==
  ASSUME NEW table, IsNodeTable(table), NEW cutoff
  PROVE  Extends(MarkInactive(table, cutoff), table)
  BY DEF IsNodeTable, NodeRow, MarkInactive, IsInactive, Extends

\* COUNT(*) GROUP BY status returns natural numbers.
LEMMA CountType ==
  ASSUME NEW table, IsNodeTable(table), NEW s
  PROVE  CountByStatus(table, s) \in Nat
<1>1. IsFiniteSet({n \in DOMAIN table : table[n].status = s})
  BY NodeFinite, FS_Subset DEF IsNodeTable
<1> QED
  BY <1>1, FS_CardinalityType DEF CountByStatus

(***************************************************************************)
(* Every step keeps the rows and their keys.                               *)
(***************************************************************************)

LEMMA StepExtends ==
  ASSUME TypeOK, [Next]_vars
  PROVE  Extends(nodes', nodes)
<1>t. IsNodeTable(nodes)
  BY DEF TypeOK
<1>0. ASSUME UNCHANGED nodes PROVE Extends(nodes', nodes)
  BY <1>0 DEF Extends
<1>1. ASSUME NEW c \in Caller, NEW n \in Node, CreateNode(c, n) PROVE Extends(nodes', nodes)
  BY <1>0, <1>1, InsertNodeExtends DEF CreateNode
<1>2. ASSUME NEW n \in Node, DeleteNode(n) PROVE Extends(nodes', nodes)
  BY <1>t, <1>0, <1>2, MarkDeletedExtends DEF DeleteNode
<1>3. CASE DeactivateNodes
  BY <1>t, <1>3, MarkInactiveExtends DEF DeactivateNodes
<1>4. ASSUME NEW c \in Caller, CallStep(c)
      PROVE  UNCHANGED nodes \/ \E n \in Node : CreateNode(c, n)
  BY <1>4 DEF CallStep, LookUpKey, CreateFails, SendResponse
<1>5. ASSUME JobStep PROVE UNCHANGED nodes \/ DeactivateNodes
  BY <1>5 DEF JobStep, StartCleanup, RefreshNodeGauges, CleanupFails
<1> QED
  BY <1>0, <1>1, <1>2, <1>3, <1>4, <1>5 DEF Next, Tick, Restart, Elsewhere, vars

(***************************************************************************)
(* The type invariant.                                                     *)
(***************************************************************************)

LEMMA IdleCallType == CallOK(IdleCall)
  BY DEF CallOK, Call, IdleCall

LEMMA InitType == Init => TypeOK
  BY IdleCallType DEF Init, TypeOK, IsNodeTable, IdleCleanup

\* Storing a well formed call keeps all calls well formed, however many rows
\* the table gained.
LEMMA CallSlot ==
  ASSUME TypeOK, [Next]_vars, NEW c \in Caller, NEW q, calls' = [calls EXCEPT ![c] = q],
         q \in Call,
         q.pc # "idle" => q.key \in Key,
         q.pc = "respond" => q.node \in DOMAIN nodes'
  PROVE  calls' = [d \in Caller |-> calls'[d]] /\ \A d \in Caller : CallOK(calls[d])'
<1>1. calls = [d \in Caller |-> calls[d]] /\ \A d \in Caller : CallOK(calls[d])
  BY DEF TypeOK
<1>2. DOMAIN nodes \subseteq DOMAIN nodes'
  BY StepExtends DEF Extends
<1> QED
  BY <1>1, <1>2 DEF CallOK

LEMMA CallsFrame ==
  ASSUME TypeOK, [Next]_vars, UNCHANGED calls
  PROVE  calls' = [d \in Caller |-> calls'[d]] /\ \A d \in Caller : CallOK(calls[d])'
<1>1. DOMAIN nodes \subseteq DOMAIN nodes'
  BY StepExtends DEF Extends
<1> QED
  BY <1>1 DEF TypeOK, CallOK

LEMMA StepType == TypeOK /\ [Next]_vars => TypeOK'
<1> SUFFICES ASSUME TypeOK, [Next]_vars PROVE TypeOK'
  OBVIOUS
<1> DEFINE CallsOK == calls = [d \in Caller |-> calls[d]] /\ \A d \in Caller : CallOK(calls[d])
<1>t. IsNodeTable(nodes)
  BY DEF TypeOK
<1>i. ASSUME NEW c \in Caller, calls' = [calls EXCEPT ![c] = IdleCall] PROVE CallsOK'
  BY <1>i, CallSlot DEF IdleCall, Call
<1>1. ASSUME NEW c \in Caller, NEW k \in Key, LookUpKey(c, k) PROVE TypeOK'
  <2> DEFINE new == [pc |-> "create", key |-> k, node |-> Unset, code |-> 201, at |-> now]
             known(n) == [pc |-> "respond", key |-> k, node |-> n, code |-> 200, at |-> 0]
  <2>0. \/ calls' = [calls EXCEPT ![c] = new]
        \/ \E n \in NodesWithKey(nodes, k) : calls' = [calls EXCEPT ![c] = known(n)]
        \/ UNCHANGED calls
    BY <1>1 DEF LookUpKey
  <2>1. ASSUME calls' = [calls EXCEPT ![c] = new] PROVE CallsOK'
    <3>1. new \in Call /\ new.pc = "create" /\ new.key = k
      BY DEF Call, TypeOK
    <3> HIDE DEF new
    <3> QED
      BY <2>1, <3>1, CallSlot
  <2>2. ASSUME \E n \in NodesWithKey(nodes, k) : calls' = [calls EXCEPT ![c] = known(n)]
        PROVE  CallsOK'
    <3>1. PICK n \in NodesWithKey(nodes, k) : calls' = [calls EXCEPT ![c] = known(n)]
      BY <2>2
    <3>2. n \in DOMAIN nodes /\ n \in Node /\ UNCHANGED nodes
      BY <1>t, <1>1 DEF NodesWithKey, LiveNodes, IsNodeTable, LookUpKey
    <3>3. known(n) \in Call /\ known(n).key = k /\ known(n).node = n
      BY <3>2 DEF Call
    <3> HIDE DEF known
    <3> QED
      BY <3>1, <3>2, <3>3, CallSlot
  <2>3. ASSUME UNCHANGED calls PROVE CallsOK'
    BY <2>3, CallsFrame
  <2> HIDE DEF new, known
  <2>4. CallsOK'
    BY <2>0, <2>1, <2>2, <2>3
  <2> QED
    BY <1>1, <2>4 DEF LookUpKey, TypeOK
<1>2. ASSUME NEW c \in Caller, NEW n \in Node, CreateNode(c, n) PROVE TypeOK'
  <2>1. CASE CanInsert(nodes, n, calls[c].key)
    <3> DEFINE q == [calls[c] EXCEPT !.pc = "respond", !.node = n, !.at = 0]
    <3>0. calls[c] \in Call /\ calls[c].key \in Key /\ calls[c].at \in Nat
      BY <1>2 DEF CreateNode, TypeOK, CallOK, Call
    <3>1. calls' = [calls EXCEPT ![c] = q]
      BY <1>2, <2>1 DEF CreateNode, TypeOK
    <3>i. PICK t \in Nat : nodes' = InsertNode(nodes, n, calls[c].key, t)
      BY <1>2, <2>1, <3>0 DEF CreateNode, TypeOK
    <3>2. IsNodeTable(nodes') /\ n \in DOMAIN nodes'
      BY <1>t, <3>0, <3>i, InsertNodeType DEF InsertNode
    <3>3. /\ q \in Call
          /\ q.key \in Key /\ q.node = n
      BY <3>0 DEF Call
    <3> HIDE DEF q
    <3>4. CallsOK'
      BY <3>1, <3>2, <3>3, CallSlot
    <3> QED
      BY <1>2, <3>2, <3>4 DEF CreateNode, TypeOK
  <2>2. CASE ~CanInsert(nodes, n, calls[c].key)
    BY <1>i, <1>2, <2>2 DEF CreateNode, TypeOK
  <2> QED
    BY <2>1, <2>2
<1>3. ASSUME NEW c \in Caller, CreateFails(c) PROVE TypeOK'
  BY <1>i, <1>3 DEF CreateFails, TypeOK
<1>4. ASSUME NEW c \in Caller, SendResponse(c) PROVE TypeOK'
  BY <1>i, <1>4 DEF SendResponse, TypeOK
<1>5. ASSUME NEW n \in Node, DeleteNode(n) PROVE TypeOK'
  <2>1. IsNodeTable(nodes')
    BY <1>t, <1>5, MarkDeletedType DEF DeleteNode, LiveNodes
  <2> QED
    BY <1>5, <2>1, CallsFrame DEF DeleteNode, TypeOK
<1>6. CASE JobStep
  <2>1. IsNodeTable(nodes')
    BY <1>t, <1>6, MarkInactiveType
    DEF JobStep, StartCleanup, DeactivateNodes, RefreshNodeGauges, CleanupFails
  <2>2. gauge' \in [NodeStatus -> Nat]
    BY <1>t, <1>6, CountType
    DEF JobStep, StartCleanup, DeactivateNodes, RefreshNodeGauges, CleanupFails, SetGauges, TypeOK
  <2>3. cleanup' \in [pc: {"idle", "update", "gauge"}, at: Nat]
    BY <1>6 DEF JobStep, StartCleanup, DeactivateNodes, RefreshNodeGauges, CleanupFails,
                IdleCleanup, TypeOK
  <2>4. UNCHANGED <<now, calls>>
    BY <1>6 DEF JobStep, StartCleanup, DeactivateNodes, RefreshNodeGauges, CleanupFails
  <2> QED
    BY <2>1, <2>2, <2>3, <2>4, CallsFrame DEF TypeOK
<1>7. CASE Tick
  BY <1>7, CallsFrame DEF Tick, TypeOK
<1>8. CASE Restart
  BY <1>8, IdleCallType DEF Restart, TypeOK, CallOK, IdleCall, IdleCleanup
<1>9. CASE Elsewhere \/ UNCHANGED vars
  BY <1>9, CallsFrame DEF Elsewhere, vars, TypeOK
<1> HIDE DEF CallsOK
<1> QED
  BY <1>1, <1>2, <1>3, <1>4, <1>5, <1>6, <1>7, <1>8, <1>9 DEF Next, CallStep

\* Every variable keeps its shape; a registration that is about to answer
\* names a node that has a row.
THEOREM NodesTypeOK == Spec => []TypeOK
  BY InitType, StepType, PTL DEF Spec

(***************************************************************************)
(* Deletion is final.                                                      *)
(***************************************************************************)

\* No registration revives a deleted node or takes over its row, and the
\* deactivation job leaves it deleted.
THEOREM DeletedStayDeleted == Spec => DeletionIsFinal
<1>1. TypeOK /\ [Next]_vars => [KeepsDeleted]_vars
  BY StepExtends DEF Extends, KeepsDeleted
<1> QED
  BY <1>1, NodesTypeOK, PTL DEF Spec, DeletionIsFinal

(***************************************************************************)
(* One identity for each key.  The property is inductive: a row is added   *)
(* only under a key no row has (CanInsert), keys of rows never change, and *)
(* a registration answers with the row it found or added under its key.    *)
(***************************************************************************)

LEMMA InitIdentity == Init => OneIdentityPerKey
  BY DEF Init, OneIdentityPerKey, IdleCall, Accepted, NoReply

\* Steps that leave the table and the slots alone, or only empty a slot, and
\* answer no registration.
LEMMA StepIdentity == TypeOK /\ OneIdentityPerKey /\ [Next]_vars => OneIdentityPerKey'
<1> SUFFICES ASSUME TypeOK, OneIdentityPerKey, [Next]_vars PROVE OneIdentityPerKey'
  OBVIOUS
<1>e. Extends(nodes', nodes)
  BY StepExtends
<1>t. /\ calls = [d \in Caller |-> calls[d]]
      /\ \A d \in Caller : calls[d].pc = "respond" => calls[d].node \in DOMAIN nodes
  BY DEF TypeOK, CallOK
<1>r. \A d \in Caller : calls[d].pc = "respond" =>
         nodes'[calls[d].node].key = calls[d].key
  BY <1>e, <1>t DEF Extends, OneIdentityPerKey
<1> DEFINE Unique == \A m, n \in DOMAIN nodes : nodes[m].key = nodes[n].key => m = n
           Slots == \A d \in Caller : calls[d].pc = "respond" =>
                       nodes[calls[d].node].key = calls[d].key
           Told == Accepted => reply.node \in DOMAIN nodes /\ nodes[reply.node].key = reply.key
<1>u. ASSUME DOMAIN nodes' = DOMAIN nodes PROVE Unique'
  BY <1>e, <1>u DEF Extends, OneIdentityPerKey
<1>n. ASSUME reply' = NoReply PROVE Told'
  BY <1>n DEF Accepted, NoReply
<1>i. ASSUME NEW c \in Caller, calls' = [calls EXCEPT ![c] = IdleCall] PROVE Slots'
  BY <1>i, <1>t, <1>r DEF IdleCall
<1>1. ASSUME NEW c \in Caller, NEW k \in Key, LookUpKey(c, k) PROVE OneIdentityPerKey'
  <2>1. Slots'
    BY <1>1, <1>t, <1>r DEF LookUpKey, NodesWithKey, LiveNodes
  <2>2. Told'
    <3>1. ASSUME reply' = Registered(k, Unset, 500) PROVE Told'
      BY <3>1 DEF Accepted, Registered
    <3> QED
      BY <1>1, <1>n, <3>1 DEF LookUpKey
  <2> QED
    BY <1>1, <2>1, <2>2, <1>u DEF LookUpKey, OneIdentityPerKey
<1>2. ASSUME NEW c \in Caller, NEW n \in Node, CreateNode(c, n) PROVE OneIdentityPerKey'
  <2>1. CASE CanInsert(nodes, n, calls[c].key)
    <3>1. /\ reply' = NoReply
          /\ calls' = [calls EXCEPT ![c].pc = "respond", ![c].node = n, ![c].at = 0]
      BY <1>2, <2>1 DEF CreateNode
    <3>0. PICK t : nodes' = InsertNode(nodes, n, calls[c].key, t)
      BY <1>2, <2>1 DEF CreateNode
    <3>2. Unique'
      BY <2>1, <3>0 DEF InsertNode, CanInsert, OneIdentityPerKey
    <3>3. Slots'
      <4>1. nodes'[n].key = calls[c].key
        BY <3>0 DEF InsertNode
      <4>0. calls[c] \in Call
        BY DEF TypeOK, CallOK
      <4>2. calls'[c].key = calls[c].key /\ calls'[c].node = n
        BY <1>t, <3>1, <4>0 DEF Call
      <4>3. \A d \in Caller \ {c} : calls'[d] = calls[d]
        BY <1>t, <3>1
      <4> QED
        BY <1>r, <4>1, <4>2, <4>3
    <3> QED
      BY <1>n, <3>1, <3>2, <3>3 DEF OneIdentityPerKey
  <2>2. CASE ~CanInsert(nodes, n, calls[c].key)
    <3>1. /\ UNCHANGED nodes /\ calls' = [calls EXCEPT ![c] = IdleCall]
          /\ reply' = Registered(calls[c].key, Unset, 500)
      BY <1>2, <2>2 DEF CreateNode
    <3>2. Told'
      BY <3>1 DEF Accepted, Registered
    <3> QED
      BY <1>i, <1>u, <3>1, <3>2 DEF OneIdentityPerKey
  <2> QED
    BY <2>1, <2>2
<1>3. ASSUME NEW c \in Caller, CreateFails(c) PROVE OneIdentityPerKey'
  <2>1. Told'
    BY <1>3 DEF CreateFails, Accepted, Registered
  <2> QED
    BY <1>3, <1>i, <1>u, <2>1 DEF CreateFails, OneIdentityPerKey
<1>4. ASSUME NEW c \in Caller, SendResponse(c) PROVE OneIdentityPerKey'
  <2>1. Told'
    BY <1>4, <1>t, <1>r DEF SendResponse, Accepted, Registered
  <2> QED
    BY <1>4, <1>i, <1>u, <2>1 DEF SendResponse, OneIdentityPerKey
<1>5. ASSUME NEW n \in Node, DeleteNode(n) PROVE OneIdentityPerKey'
  <2>1. DOMAIN nodes' = DOMAIN nodes /\ UNCHANGED calls
    BY <1>5 DEF DeleteNode, MarkDeleted
  <2>2. Told'
    <3>1. \E code \in {204, 404, 500} : reply' = Deleted(n, code)
      BY <1>5 DEF DeleteNode
    <3>2. reply'.op = "DELETE_NODE"
      BY <3>1 DEF Deleted
    <3>3. ~Accepted'
      BY <3>2 DEF Accepted
    <3> QED
      BY <3>3
  <2> QED
    BY <1>r, <1>u, <2>1, <2>2 DEF OneIdentityPerKey
<1>6. CASE JobStep
  <2>1. DOMAIN nodes' = DOMAIN nodes /\ UNCHANGED calls /\ reply' = NoReply
    BY <1>6 DEF JobStep, StartCleanup, DeactivateNodes, MarkInactive, RefreshNodeGauges,
                CleanupFails
  <2> QED
    BY <1>n, <1>r, <1>u, <2>1 DEF OneIdentityPerKey
<1>7. CASE Tick
  BY <1>7, <1>n, <1>r, <1>u DEF Tick, OneIdentityPerKey
<1>8. CASE Restart
  <2>1. Slots'
    BY <1>8 DEF Restart, IdleCall
  <2> QED
    BY <1>8, <1>n, <1>u, <2>1 DEF Restart, OneIdentityPerKey
<1>9. CASE UNCHANGED vars
  BY <1>9 DEF vars, OneIdentityPerKey, Accepted
<1>10. CASE Elsewhere
  BY <1>10, <1>n, <1>r, <1>u DEF Elsewhere, OneIdentityPerKey
<1> QED
  BY <1>1, <1>2, <1>3, <1>4, <1>5, <1>6, <1>7, <1>8, <1>9, <1>10 DEF Next, CallStep

\* However registrations with one auth key overlap, are retried or race with a
\* deletion, they are all told the same node id, and no two keys share a node.
THEOREM KeysIdentifyNodes == Spec => []OneIdentityPerKey
  BY InitType, StepType, InitIdentity, StepIdentity, PTL DEF Spec

(***************************************************************************)
(* The registry implements NodeDirectory.  A creation that succeeds makes  *)
(* the entry; the slot that holds its 201 is the only one that does, since *)
(* the id it names is new when its row is inserted (OneAnnouncement).      *)
(***************************************************************************)

OneAnnouncement ==
    \A c, d \in Caller : ToAnnounce(c) /\ ToAnnounce(d) /\ calls[c].node = calls[d].node => c = d

CodesSet ==
    \A c \in Caller :
        /\ calls[c].pc = "create" => calls[c].code = 201
        /\ calls[c].pc = "respond" => calls[c].code \in {200, 201}

AnnounceInv == OneAnnouncement /\ CodesSet

LEMMA InitAnnounce == Init => AnnounceInv
  BY DEF Init, AnnounceInv, OneAnnouncement, CodesSet, ToAnnounce, IdleCall

\* What a step of a registration does to the slots.
LEMMA CallStepSlots ==
  ASSUME TypeOK, NEW c \in Caller, CallStep(c)
  PROVE  /\ \A d \in Caller \ {c} : calls'[d] = calls[d]
         /\ \/ calls'[c] = IdleCall
            \/ calls'[c].pc = "create" /\ calls'[c].code = 201
            \/ calls'[c].pc = "respond" /\ calls'[c].code = 200
            \/ calls'[c].pc = "idle" /\ calls'[c] = calls[c]
            \/ /\ calls[c].pc = "create" /\ calls'[c].pc = "respond"
               /\ calls'[c].code = calls[c].code
               /\ calls'[c].node \notin DOMAIN nodes
<1> DEFINE Slots ==
             /\ \A d \in Caller \ {c} : calls'[d] = calls[d]
             /\ \/ calls'[c] = IdleCall
                \/ calls'[c].pc = "create" /\ calls'[c].code = 201
                \/ calls'[c].pc = "respond" /\ calls'[c].code = 200
                \/ calls'[c].pc = "idle" /\ calls'[c] = calls[c]
                \/ /\ calls[c].pc = "create" /\ calls'[c].pc = "respond"
                   /\ calls'[c].code = calls[c].code
                   /\ calls'[c].node \notin DOMAIN nodes
<1>t. /\ calls = [d \in Caller |-> calls[d]]
      /\ calls[c] \in Call
  BY DEF TypeOK, CallOK
<1>i. ASSUME calls' = [calls EXCEPT ![c] = IdleCall] PROVE Slots
  BY <1>t, <1>i
<1>1. ASSUME NEW k \in Key, LookUpKey(c, k) PROVE Slots
  BY <1>t, <1>1 DEF LookUpKey
<1>2. ASSUME NEW n \in Node, CreateNode(c, n) PROVE Slots
  <2>1. CASE CanInsert(nodes, n, calls[c].key)
    <3>1. /\ calls[c].pc = "create" /\ n \notin DOMAIN nodes
          /\ calls' = [calls EXCEPT ![c] = [calls[c] EXCEPT !.pc = "respond", !.node = n, !.at = 0]]
      BY <1>t, <1>2, <2>1 DEF CreateNode
    <3> QED
      BY <1>t, <3>1 DEF Call
  <2>2. CASE ~CanInsert(nodes, n, calls[c].key)
    BY <1>i, <1>2, <2>2 DEF CreateNode
  <2> QED
    BY <2>1, <2>2
<1> HIDE DEF Slots
<1>3. Slots
  BY <1>i, <1>1, <1>2 DEF CallStep, CreateFails, SendResponse
<1> QED
  BY <1>3 DEF Slots

LEMMA StepAnnounce == TypeOK /\ AnnounceInv /\ [Next]_vars => AnnounceInv'
<1> SUFFICES ASSUME TypeOK, AnnounceInv, [Next]_vars PROVE AnnounceInv'
  OBVIOUS
<1>t. \A d \in Caller : calls[d].pc = "respond" => calls[d].node \in DOMAIN nodes
  BY DEF TypeOK, CallOK
<1>1. ASSUME NEW c \in Caller, CallStep(c) PROVE AnnounceInv'
  <2>0. \A d \in Caller \ {c} : calls'[d] = calls[d]
    BY <1>1, CallStepSlots
  <2>1. /\ calls'[c].pc = "create" => calls'[c].code = 201
        /\ calls'[c].pc = "respond" => calls'[c].code \in {200, 201}
        /\ ToAnnounce(c)' => calls'[c].node \notin DOMAIN nodes
    <3>1. calls[c].pc = "create" => calls[c].code = 201
      BY DEF AnnounceInv, CodesSet
    <3>2. IdleCall.pc = "idle"
      BY DEF IdleCall
    <3> QED
      BY <1>1, <3>1, <3>2, CallStepSlots DEF ToAnnounce
  <2>2. CodesSet'
    BY <2>0, <2>1 DEF AnnounceInv, CodesSet
  <2>3. ASSUME NEW d \in Caller, NEW e \in Caller, d # e, ToAnnounce(d)', ToAnnounce(e)'
        PROVE  calls'[d].node # calls'[e].node
    <3>1. \A b \in Caller \ {c} : ToAnnounce(b)' => ToAnnounce(b) /\ calls'[b].node \in DOMAIN nodes
      BY <2>0, <1>t DEF ToAnnounce
    <3> QED
      BY <2>0, <2>1, <2>3, <3>1 DEF AnnounceInv, OneAnnouncement
  <2> QED
    BY <2>2, <2>3 DEF AnnounceInv, OneAnnouncement
<1>2. CASE Restart
  BY <1>2 DEF Restart, AnnounceInv, OneAnnouncement, CodesSet, ToAnnounce, IdleCall
<1>3. CASE UNCHANGED calls
  BY <1>3 DEF AnnounceInv, OneAnnouncement, CodesSet, ToAnnounce
<1> QED
  BY <1>1, <1>2, <1>3 DEF Next, DeleteNode, JobStep, StartCleanup, DeactivateNodes,
                          RefreshNodeGauges, CleanupFails, Tick, Elsewhere, vars

\* What each kind of answer says of the directory.
LEMMA ToldBy ==
  ASSUME NEW k, NEW n
  PROVE  /\ reply' = Registered(k, n, 201) => told' = Directory!Says("assigned", n, k)
         /\ reply' = Registered(k, n, 200) => told' = Directory!Says("known", n, k)
         /\ reply' = Deleted(n, 204) => told' = Directory!SaysRetired(n)
         /\ reply' \in {NoReply, Registered(k, n, 500), Deleted(n, 404), Deleted(n, 500)}
                => told' = Directory!Nothing
  BY DEF told, Registered, Deleted, NoReply, Directory!Says, Directory!SaysRetired,
         Directory!Nothing

\* A step that names no node and leaves the entries alone may cost some of the
\* announcements and confirmations.
LEMMA Silence ==
  ASSUME UNCHANGED <<directory, retired>>, told' = Directory!Nothing,
         pending' \subseteq pending, confirming' \subseteq confirming
  PROVE  Directory!Next
  BY DEF Directory!Next, Directory!Lose

LEMMA CallStepSimulates ==
  ASSUME TypeOK, OneIdentityPerKey, AnnounceInv, NEW c \in Caller, CallStep(c)
  PROVE  Directory!Next
<1>t. /\ calls = [d \in Caller |-> calls[d]]
      /\ calls[c] \in Call
      /\ calls[c].pc # "idle" => calls[c].key \in Key
      /\ IsNodeTable(nodes)
  BY DEF TypeOK, CallOK
<1>d. ASSUME UNCHANGED nodes PROVE UNCHANGED <<directory, retired>>
  BY <1>d DEF directory, retired
<1>p. ASSUME ~ToAnnounce(c)' PROVE pending' \subseteq pending
  BY <1>p, CallStepSlots DEF pending, ToAnnounce
<1>k. ASSUME ~ToConfirm(c)' PROVE confirming' \subseteq confirming
  BY <1>k, CallStepSlots DEF confirming, ToConfirm
<1>1. ASSUME NEW k \in Key, LookUpKey(c, k) PROVE Directory!Next
  <2>1. ~ToAnnounce(c) /\ ~ToAnnounce(c)' /\ ~ToConfirm(c) /\ UNCHANGED <<directory, retired>>
    BY <1>t, <1>1, <1>d DEF LookUpKey, ToAnnounce, ToConfirm
  <2>2. CASE ~ToConfirm(c)'
    <3>1. reply' = NoReply \/ reply' = Registered(k, Unset, 500)
      BY <1>1 DEF LookUpKey
    <3> QED
      BY <1>p, <1>k, <2>1, <2>2, <3>1, ToldBy, Silence
  <2>3. CASE ToConfirm(c)'
    <3>1. PICK n \in NodesWithKey(nodes, k) :
            /\ calls' = [calls EXCEPT ![c] =
                  [pc |-> "respond", key |-> k, node |-> n, code |-> 200, at |-> 0]]
            /\ reply' = NoReply
      BY <1>t, <1>1, <2>1, <2>3 DEF LookUpKey, ToConfirm
    <3>2. n \in DOMAIN directory \ retired /\ n \in Node
      BY <1>t DEF NodesWithKey, LiveNodes, directory, retired, IsNodeTable
    <3>3. calls'[c].node = n /\ \A d \in Caller \ {c} : calls'[d] = calls[d]
      BY <1>t, <3>1
    <3>4. confirming' = confirming \cup {n} /\ UNCHANGED pending
      BY <2>1, <2>3, <3>3 DEF confirming, pending, ToConfirm, ToAnnounce
    <3>5. Directory!Find(n)
      BY <2>1, <3>1, <3>2, <3>4, ToldBy DEF Directory!Find
    <3> QED
      BY <3>2, <3>5 DEF Directory!Next
  <2> QED
    BY <2>2, <2>3
<1>2. ASSUME NEW n \in Node, CreateNode(c, n) PROVE Directory!Next
  <2>1. CASE CanInsert(nodes, n, calls[c].key)
    <3> DEFINE k == calls[c].key
    <3>0. PICK t : nodes' = InsertNode(nodes, n, k, t)
      BY <1>2, <2>1 DEF CreateNode
    <3>1. /\ reply' = NoReply
          /\ calls' = [calls EXCEPT ![c] = [calls[c] EXCEPT !.pc = "respond", !.node = n, !.at = 0]]
          /\ calls[c].pc = "create" /\ calls[c].code = 201 /\ k \in Key
      BY <1>2, <1>t, <2>1 DEF CreateNode, AnnounceInv, CodesSet
    <3>2. /\ n \notin DOMAIN directory
          /\ \A m \in DOMAIN directory : directory[m] # k
      BY <2>1 DEF CanInsert, directory
    <3>3. directory' = [m \in DOMAIN directory \cup {n} |-> IF m = n THEN k ELSE directory[m]]
      BY <3>0 DEF directory, InsertNode
    <3>4. UNCHANGED retired
      BY <2>1, <3>0 DEF retired, LiveNodes, InsertNode, CanInsert
    <3>5. pending' = pending \cup {n} /\ UNCHANGED confirming
      <4>1. /\ calls'[c].node = n /\ ToAnnounce(c)' /\ ~ToAnnounce(c)
            /\ ~ToConfirm(c)' /\ ~ToConfirm(c)
        <5>1. /\ calls'[c] = [calls[c] EXCEPT !.pc = "respond", !.node = n, !.at = 0]
              /\ calls[c].pc = "create"
          BY <1>t, <3>1
        <5>2. calls'[c].pc = "respond" /\ calls'[c].node = n /\ calls'[c].code = 201
          BY <1>t, <3>1, <5>1 DEF Call
        <5> QED
          BY <5>1, <5>2 DEF ToAnnounce, ToConfirm
      <4>2. \A d \in Caller \ {c} : calls'[d] = calls[d]
        BY CallStepSlots
      <4> QED
        BY <4>1, <4>2 DEF pending, ToAnnounce, confirming, ToConfirm
    <3>6. told' = Directory!Nothing
      BY <3>1, ToldBy
    <3>7. Directory!Assign(n, k)
      BY <3>2, <3>3, <3>4, <3>5, <3>6 DEF Directory!Assign
    <3> QED
      BY <3>1, <3>7 DEF Directory!Next
  <2>2. CASE ~CanInsert(nodes, n, calls[c].key)
    <3>1. /\ UNCHANGED nodes /\ calls' = [calls EXCEPT ![c] = IdleCall]
          /\ reply' = Registered(calls[c].key, Unset, 500)
      BY <1>2, <2>2 DEF CreateNode
    <3>2. ~ToAnnounce(c)' /\ ~ToConfirm(c)'
      BY <1>t, <3>1 DEF ToAnnounce, ToConfirm, IdleCall
    <3> QED
      BY <1>d, <1>p, <1>k, <3>1, <3>2, ToldBy, Silence
  <2> QED
    BY <2>1, <2>2
<1>3. ASSUME CreateFails(c) PROVE Directory!Next
  <2>1. ~ToAnnounce(c)' /\ ~ToConfirm(c)'
    BY <1>t, <1>3 DEF CreateFails, ToAnnounce, ToConfirm, IdleCall
  <2> QED
    BY <1>3, <1>d, <1>p, <1>k, <2>1, ToldBy, Silence DEF CreateFails
<1>4. ASSUME SendResponse(c) PROVE Directory!Next
  <2> DEFINE n == calls[c].node
             k == calls[c].key
  <2>1. /\ calls[c].pc = "respond" /\ calls[c].code \in {200, 201}
        /\ calls' = [calls EXCEPT ![c] = IdleCall]
        /\ reply' = Registered(k, n, calls[c].code)
        /\ UNCHANGED <<directory, retired>>
    BY <1>4, <1>d DEF SendResponse, AnnounceInv, CodesSet
  <2>2. n \in DOMAIN directory /\ n \in Node /\ directory[n] = k
    BY <1>t, <2>1 DEF TypeOK, CallOK, IsNodeTable, directory, OneIdentityPerKey
  <2>3. /\ \A d \in Caller \ {c} : calls'[d] = calls[d]
        /\ ~ToAnnounce(c)' /\ ~ToConfirm(c)'
    BY <1>t, <2>1 DEF ToAnnounce, ToConfirm, IdleCall
  <2>4. CASE calls[c].code = 201
    <3>1. ToAnnounce(c)
      BY <2>1, <2>4 DEF ToAnnounce
    <3>2. n \in pending /\ pending' = pending \ {n}
      BY <2>3, <3>1 DEF pending, ToAnnounce, AnnounceInv, OneAnnouncement
    <3>3. UNCHANGED confirming
      BY <2>3, <2>4 DEF confirming, ToConfirm
    <3>4. Directory!Announce(n)
      BY <2>1, <2>2, <2>4, <3>2, <3>3, ToldBy DEF Directory!Announce
    <3> QED
      BY <2>2, <3>4 DEF Directory!Next
  <2>5. CASE calls[c].code = 200
    <3>1. UNCHANGED pending
      BY <2>3, <2>5 DEF pending, ToAnnounce
    <3>2. confirming = confirming' \cup {n}
      BY <2>1, <2>3, <2>5 DEF confirming, ToConfirm
    <3>3. Directory!Confirm(n)
      BY <2>1, <2>2, <2>5, <3>1, <3>2, ToldBy DEF Directory!Confirm
    <3> QED
      BY <2>2, <3>3 DEF Directory!Next
  <2> QED
    BY <2>1, <2>4, <2>5
<1> QED
  BY <1>1, <1>2, <1>3, <1>4 DEF CallStep

LEMMA StepSimulates ==
  TypeOK /\ OneIdentityPerKey /\ AnnounceInv /\ [Next]_vars => [Directory!Next]_Directory!vars
<1> SUFFICES ASSUME TypeOK, OneIdentityPerKey, AnnounceInv, [Next]_vars
             PROVE  [Directory!Next]_Directory!vars
  OBVIOUS
<1>t. IsNodeTable(nodes)
  BY DEF TypeOK
<1>c. ASSUME UNCHANGED calls PROVE UNCHANGED <<pending, confirming>>
  BY <1>c DEF pending, ToAnnounce, confirming, ToConfirm
<1>1. ASSUME NEW c \in Caller, CallStep(c) PROVE Directory!Next
  BY <1>1, CallStepSimulates
<1>2. ASSUME NEW n \in Node, DeleteNode(n) PROVE Directory!Next
  <2>1. CASE n \in LiveNodes(nodes) /\ reply'.code = 204
    <3>1. /\ nodes' = MarkDeleted(nodes, n) /\ reply' = Deleted(n, 204)
          /\ UNCHANGED <<pending, confirming>>
      BY <1>2, <1>c, <2>1 DEF DeleteNode, Deleted
    <3>2. n \in DOMAIN directory \ retired
      BY <2>1 DEF directory, retired, LiveNodes
    <3>3. UNCHANGED directory
      BY <1>t, <2>1, <3>1 DEF MarkDeleted, LiveNodes, directory, IsNodeTable, NodeRow
    <3>4. retired' = retired \cup {n}
      BY <1>t, <2>1, <3>1 DEF MarkDeleted, LiveNodes, retired, IsNodeTable, NodeRow
    <3> QED
      BY <3>1, <3>2, <3>3, <3>4, ToldBy DEF Directory!Next, Directory!Retire
  <2>2. CASE ~(n \in LiveNodes(nodes) /\ reply'.code = 204)
    <3>1. /\ UNCHANGED <<nodes, pending, confirming>>
          /\ reply' = Deleted(n, 404) \/ reply' = Deleted(n, 500)
      BY <1>2, <1>c, <2>2 DEF DeleteNode, Deleted
    <3> QED
      BY <3>1, ToldBy, Silence DEF directory, retired
  <2> QED
    BY <2>1, <2>2
<1>3. CASE JobStep
  <2>1. UNCHANGED <<pending, confirming>> /\ reply' = NoReply
    BY <1>3, <1>c DEF JobStep, StartCleanup, DeactivateNodes, RefreshNodeGauges, CleanupFails
  <2>2. UNCHANGED nodes \/ \E t : nodes' = MarkInactive(nodes, t)
    BY <1>3 DEF JobStep, StartCleanup, DeactivateNodes, RefreshNodeGauges, CleanupFails
  <2>3. UNCHANGED <<directory, retired>>
    BY <1>t, <2>2
    DEF MarkInactive, IsInactive, directory, retired, LiveNodes, IsNodeTable, NodeRow
  <2> QED
    BY <2>1, <2>3, ToldBy, Silence
<1>4. CASE Restart
  <2>1. pending' = {} /\ confirming' = {}
    BY <1>4 DEF Restart, pending, ToAnnounce, confirming, ToConfirm, IdleCall
  <2> QED
    BY <1>4, <2>1, ToldBy, Silence DEF Restart, directory, retired
<1>5. CASE Tick \/ Elsewhere
  BY <1>5, <1>c, ToldBy, Silence DEF Tick, Elsewhere, directory, retired
<1>6. CASE UNCHANGED vars
  BY <1>6 DEF vars, Directory!vars, directory, retired, pending, ToAnnounce, confirming,
              ToConfirm, told
<1> QED
  BY <1>1, <1>2, <1>3, <1>4, <1>5, <1>6 DEF Next

\* The concurrent registry implements NodeDirectory: however registrations,
\* deletions, the jobs and restarts interleave, a key keeps the node id it got
\* first, that id is announced once at most, by the registration that made the
\* row, and retired once at most.
THEOREM RegistryImplementsDirectory == Spec => ImplementsDirectory
<1>1. Init => Directory!Init
  BY DEF Init, Directory!Init, Directory!Nothing, directory, retired, pending, told,
         ToAnnounce, confirming, ToConfirm, LiveNodes, IdleCall, NoReply
<1>2. Init => TypeOK /\ OneIdentityPerKey /\ AnnounceInv
  BY InitType, InitIdentity, InitAnnounce
<1>3. TypeOK /\ OneIdentityPerKey /\ AnnounceInv /\ [Next]_vars
         => TypeOK' /\ OneIdentityPerKey' /\ AnnounceInv'
  BY StepType, StepIdentity, StepAnnounce
<1> QED
  BY <1>1, <1>2, <1>3, StepSimulates, PTL DEF Spec, ImplementsDirectory, Directory!Spec

=============================================================================
