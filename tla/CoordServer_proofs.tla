-------------------------- MODULE CoordServer_proofs --------------------------
(***************************************************************************)
(* Theorems about the two registries together, for any numbers of nodes,   *)
(* requests and registrations in flight: a relay belongs to a node that    *)
(* was registered, and a deleted node gets no relay back; and what holds   *)
(* of each registry alone holds in the server.                             *)
(*                                                                         *)
(* The first two rest on three facts.  Rows of nodes are never removed and *)
(* a deleted one stays deleted; a row of relays appears only by the        *)
(* statement of a registration; and a registration that is past its lookup *)
(* names a node that had a row then, and so has one still.  The last rests *)
(* on every step of the server being a step of each registry: what one     *)
(* does is, to the other, a step of the rest of the server.                *)
(***************************************************************************)
EXTENDS CoordServer, TLAPS

(***************************************************************************)
(* Rows of nodes.                                                          *)
(***************************************************************************)

\* No statement removes a row of nodes or revives a deleted one.
RowsKept ==
    /\ DOMAIN nodes \subseteq DOMAIN nodes'
    /\ \A n \in DOMAIN nodes : nodes[n].status = "deleted" => nodes'[n] = nodes[n]

LEMMA NodeStepKeepsRows ==
  ASSUME \/ \E c \in Caller : N!CallStep(c)
         \/ \E n \in Node : N!DeleteNode(n)
         \/ N!JobStep
         \/ UNCHANGED nodes
  PROVE  RowsKept
<1>0. ASSUME UNCHANGED nodes PROVE RowsKept
  BY <1>0 DEF RowsKept
<1>1. ASSUME NEW c \in Caller, NEW n \in Node, N!CreateNode(c, n) PROVE RowsKept
  BY <1>0, <1>1 DEF N!CreateNode, N!InsertNode, RowsKept
<1>2. ASSUME NEW n \in Node, N!DeleteNode(n) PROVE RowsKept
  BY <1>0, <1>2 DEF N!DeleteNode, N!MarkDeleted, N!LiveNodes, RowsKept
<1>3. ASSUME N!DeactivateNodes PROVE RowsKept
  BY <1>3 DEF N!DeactivateNodes, N!MarkInactive, N!IsInactive, RowsKept
<1>4. ASSUME NEW c \in Caller, N!CallStep(c)
      PROVE  UNCHANGED nodes \/ \E n \in Node : N!CreateNode(c, n)
  BY <1>4 DEF N!CallStep, N!LookUpKey, N!CreateFails, N!SendResponse
<1>5. ASSUME N!JobStep PROVE UNCHANGED nodes \/ N!DeactivateNodes
  BY <1>5 DEF N!JobStep, N!StartCleanup, N!RefreshNodeGauges, N!CleanupFails
<1> QED
  BY <1>0, <1>1, <1>2, <1>3, <1>4, <1>5

\* So every step of the server keeps them.
LEMMA StepKeepsRows ==
  ASSUME [Next]_vars PROVE RowsKept
<1>1. CASE NodeStep
  BY <1>1, NodeStepKeepsRows DEF NodeStep
<1>2. CASE JobStep
  BY <1>2, NodeStepKeepsRows DEF JobStep, N!Elsewhere
<1>3. CASE RelayStep \/ Tick \/ Restart \/ UNCHANGED vars
  <2>1. UNCHANGED nodes
    BY <1>3 DEF RelayStep, Tick, Restart, N!Elsewhere, N!Tick, N!Restart, nodeVars, vars
  <2> QED
    BY <2>1, NodeStepKeepsRows
<1> QED
  BY <1>1, <1>2, <1>3 DEF Next

(***************************************************************************)
(* Requests and rows of relays.                                            *)
(***************************************************************************)

IsWrite(q) ==
    /\ {"op", "node", "pc"} \subseteq DOMAIN q
    /\ q.pc = "lookup" => q.op # "POST"

WritesShaped ==
    /\ writes = [w \in Writer |-> writes[w]]
    /\ \A w \in Writer : IsWrite(writes[w])

\* A slot goes on with its request, which is not admitted a second time.
GoesOn(new, old) ==
    new.op = old.op /\ new.node = old.node /\ (Admitted(new) => Admitted(old))

\* What a step does to the slots: each keeps its request, loses it, or receives
\* one, and a registration is received only for a node that is found.
SlotKept(w) ==
    \/ GoesOn(writes'[w], writes[w])
    \/ writes'[w].op # "POST"
    \/ writes'[w].node \in N!LiveNodes(nodes)

\* A row of relays is new only by the statement of a registration.
NoNewRelay == DOMAIN relays' \subseteq DOMAIN relays

RowOfRegistration(w) ==
    /\ Admitted(writes[w]) /\ ~Admitted(writes'[w])
    /\ DOMAIN relays' = DOMAIN relays \cup {writes[w].node}

LEMMA WriteStepSlots ==
  ASSUME WritesShaped, NEW w \in Writer, R!WriteStep(w)
  PROVE  /\ WritesShaped'
         /\ \A v \in Writer : SlotKept(v)
         /\ NoNewRelay \/ RowOfRegistration(w)
<1> DEFINE Slots == WritesShaped' /\ \A v \in Writer : SlotKept(v)
           Rows == NoNewRelay \/ RowOfRegistration(w)
<1>t. writes = [v \in Writer |-> writes[v]] /\ IsWrite(writes[w])
  BY DEF WritesShaped
<1>s. ASSUME NEW q, IsWrite(q), writes' = [writes EXCEPT ![w] = q],
             \/ GoesOn(q, writes[w])
             \/ q.op # "POST"
             \/ q.node \in N!LiveNodes(nodes)
      PROVE  Slots
  BY <1>t, <1>s DEF WritesShaped, SlotKept, GoesOn
<1>u. ASSUME UNCHANGED writes PROVE Slots
  BY <1>u DEF WritesShaped, SlotKept, GoesOn
<1>r. ASSUME UNCHANGED relays PROVE Rows
  BY <1>r DEF NoNewRelay
<1> HIDE DEF Slots
<1>f. ASSUME NEW code, R!Finish(w, code) PROVE Slots
  <2>1. IsWrite(R!IdleWrite) /\ R!IdleWrite.op # "POST"
    BY DEF IsWrite, R!IdleWrite
  <2> QED
    BY <1>f, <1>s, <2>1 DEF R!Finish
<1>p. ASSUME R!WritePc(w, "invalidate") PROVE Slots
  <2> DEFINE q == [writes[w] EXCEPT !.pc = "invalidate"]
  <2>1. IsWrite(q) /\ GoesOn(q, writes[w])
    BY <1>t DEF IsWrite, GoesOn, Admitted
  <2>2. writes' = [writes EXCEPT ![w] = q]
    BY <1>p DEF R!WritePc
  <2> HIDE DEF q
  <2> QED
    BY <1>s, <2>1, <2>2
<1>1. ASSUME NEW n \in Node, NEW e \in Endpoint, NEW a \in Avail, NEW p \in Profile,
             R!ReceiveRegister(w, n, e, a, p)
      PROVE  Slots /\ Rows
  <2> DEFINE q == [pc |-> "clock", op |-> "POST", node |-> n, endpoint |-> e,
                   avail |-> a, profile |-> p, at |-> 0]
  <2>1. IsWrite(q) /\ q.node = n
    BY DEF IsWrite
  <2>2. \/ UNCHANGED writes
        \/ n \in N!LiveNodes(nodes) /\ writes' = [writes EXCEPT ![w] = q]
    BY <1>1 DEF R!ReceiveRegister, R!Refuse
  <2>3. UNCHANGED relays
    BY <1>1 DEF R!ReceiveRegister
  <2> HIDE DEF q
  <2> QED
    BY <1>s, <1>u, <1>r, <2>1, <2>2, <2>3
<1>2. ASSUME NEW n \in Node, NEW e \in Endpoint, NEW a \in Avail, NEW admin \in BOOLEAN,
             R!ReceiveFullHeartbeat(w, n, e, a, admin)
      PROVE  Slots /\ Rows
  <2> DEFINE q == [pc |-> "lookup", op |-> "PUTv1", node |-> n, endpoint |-> e,
                   avail |-> a, profile |-> Unset, at |-> 0]
  <2>1. IsWrite(q) /\ q.op # "POST"
    BY DEF IsWrite
  <2>2. UNCHANGED writes \/ writes' = [writes EXCEPT ![w] = q]
    BY <1>2 DEF R!ReceiveFullHeartbeat, R!Refuse
  <2>3. UNCHANGED relays
    BY <1>2 DEF R!ReceiveFullHeartbeat
  <2> HIDE DEF q
  <2> QED
    BY <1>s, <1>u, <1>r, <2>1, <2>2, <2>3
<1>3. ASSUME NEW n \in Node, NEW a \in Avail \cup {Unset}, R!ReceiveHeartbeat(w, n, a)
      PROVE  Slots /\ Rows
  <2> DEFINE q == [pc |-> "exec", op |-> "PUT", node |-> n, endpoint |-> Unset,
                   avail |-> a, profile |-> Unset, at |-> now]
  <2>1. IsWrite(q) /\ q.op # "POST"
    BY DEF IsWrite
  <2>2. writes' = [writes EXCEPT ![w] = q] /\ UNCHANGED relays
    BY <1>3 DEF R!ReceiveHeartbeat
  <2> HIDE DEF q
  <2> QED
    BY <1>s, <1>r, <2>1, <2>2
<1>4. ASSUME NEW n \in Node, R!ReceiveDelete(w, n) PROVE Slots /\ Rows
  <2> DEFINE q == [R!IdleWrite EXCEPT !.pc = "invalidate", !.op = "DELETE", !.node = n]
  <2>1. IsWrite(q) /\ q.op # "POST"
    BY DEF IsWrite, R!IdleWrite
  <2>2. UNCHANGED writes \/ writes' = [writes EXCEPT ![w] = q]
    BY <1>4 DEF R!ReceiveDelete, R!Refuse
  <2>3. NoNewRelay
    BY <1>4 DEF R!ReceiveDelete, R!DeleteRelay, NoNewRelay
  <2> HIDE DEF q
  <2> QED
    BY <1>s, <1>u, <2>1, <2>2, <2>3
<1>5. ASSUME R!LookUpRelay(w) PROVE Slots /\ Rows
  <2> DEFINE n == writes[w].node
             q == [writes[w] EXCEPT !.pc = "clock", !.profile = relays[n].profile]
  <2>1. IsWrite(q) /\ GoesOn(q, writes[w])
    BY <1>t, <1>5 DEF IsWrite, GoesOn, Admitted, R!LookUpRelay
  <2>2. R!Finish(w, 404) \/ writes' = [writes EXCEPT ![w] = q]
    BY <1>5, <1>t DEF R!LookUpRelay
  <2>3. UNCHANGED relays
    BY <1>5 DEF R!LookUpRelay
  <2> HIDE DEF q
  <2> QED
    BY <1>s, <1>f, <1>r, <2>1, <2>2, <2>3
<1>6. ASSUME R!ReadClock(w) PROVE Slots /\ Rows
  <2> DEFINE q == [writes[w] EXCEPT !.pc = "exec", !.at = now]
  <2>1. IsWrite(q) /\ GoesOn(q, writes[w])
    BY <1>t, <1>6 DEF IsWrite, GoesOn, Admitted, R!ReadClock
  <2>2. writes' = [writes EXCEPT ![w] = q] /\ UNCHANGED relays
    BY <1>6, <1>t DEF R!ReadClock
  <2> HIDE DEF q
  <2> QED
    BY <1>s, <1>r, <2>1, <2>2
<1>7. ASSUME R!ExecUpsert(w) PROVE Slots /\ Rows
  <2>1. Slots
    BY <1>7, <1>p DEF R!ExecUpsert
  <2>2. DOMAIN relays' = DOMAIN relays \cup {writes[w].node}
    BY <1>7 DEF R!ExecUpsert, R!UpsertRelay
  <2>3. Admitted(writes[w]) /\ ~Admitted(writes'[w])
    BY <1>7, <1>t DEF R!ExecUpsert, R!WritePc, Admitted, IsWrite
  <2> QED
    BY <2>1, <2>2, <2>3 DEF RowOfRegistration
<1>8. ASSUME R!ExecHeartbeat(w) PROVE Slots /\ Rows
  BY <1>8, <1>f, <1>p, <1>r DEF R!ExecHeartbeat, R!UpdateRelayHeartbeat, NoNewRelay
<1>9. ASSUME R!ExecFullHeartbeat(w) PROVE Slots /\ Rows
  BY <1>9, <1>f, <1>p, <1>r DEF R!ExecFullHeartbeat, R!UpdateRelayFull, NoNewRelay
<1>10. ASSUME R!WriteFails(w) \/ R!Invalidate(w) PROVE Slots /\ Rows
  BY <1>10, <1>f, <1>r DEF R!WriteFails, R!Invalidate
<1>11. ASSUME R!ReceiveWrite(w) PROVE Slots /\ Rows
  BY <1>11, <1>1, <1>2, <1>3, <1>4 DEF R!ReceiveWrite
<1>12. Slots /\ Rows
  BY <1>5, <1>6, <1>7, <1>8, <1>9, <1>10, <1>11 DEF R!WriteStep
<1> QED
  BY <1>12 DEF Slots

\* Nothing but a write request adds a row of relays or touches the slots, and a
\* restart empties them.
LEMMA StepSlots ==
  ASSUME WritesShaped, [Next]_vars
  PROVE  /\ WritesShaped'
         /\ \A v \in Writer : SlotKept(v)
         /\ NoNewRelay \/ \E w \in Writer : RowOfRegistration(w)
<1> DEFINE Goal ==
         /\ WritesShaped'
         /\ \A v \in Writer : SlotKept(v)
         /\ NoNewRelay \/ \E w \in Writer : RowOfRegistration(w)
<1>u. ASSUME UNCHANGED writes, NoNewRelay PROVE Goal
  BY <1>u DEF WritesShaped, SlotKept, GoesOn
<1>1. ASSUME NEW w \in Writer, R!WriteStep(w) PROVE Goal
  BY <1>1, WriteStepSlots
<1> HIDE DEF Goal
<1>2. ASSUME NEW r \in Reader, R!ReadStep(r) PROVE Goal
  <2>1. UNCHANGED <<relays, writes>>
    BY <1>2 DEF R!ReadStep, R!ReceiveList, R!ReadCutoff, R!CountRows, R!SelectRows,
                R!ReadFails, R!Respond
  <2> QED
    BY <1>u, <2>1 DEF NoNewRelay
<1>3. ASSUME R!SweepStep PROVE Goal
  <2>1. UNCHANGED writes
    BY <1>3 DEF R!SweepStep, R!StartSweep, R!SweepMark, R!SweepEvict, R!SweepFails
  <2>2. NoNewRelay
    BY <1>3 DEF R!SweepStep, R!StartSweep, R!SweepMark, R!SweepEvict, R!SweepFails,
                R!MarkUnreachable, R!EvictExpired, NoNewRelay
  <2> QED
    BY <1>u, <2>1, <2>2
<1>4. ASSUME Restart PROVE Goal
  <2>1. writes' = [w \in Writer |-> R!IdleWrite] /\ UNCHANGED relays
    BY <1>4 DEF Restart, R!Restart
  <2>2. IsWrite(R!IdleWrite) /\ R!IdleWrite.op # "POST"
    BY DEF IsWrite, R!IdleWrite
  <2> QED
    BY <2>1, <2>2 DEF Goal, WritesShaped, SlotKept, NoNewRelay
<1>5. ASSUME UNCHANGED <<relays, writes>> PROVE Goal
  BY <1>u, <1>5 DEF NoNewRelay
<1>6. Goal
  <2>1. CASE RelayStep
    BY <2>1, <1>1, <1>2 DEF RelayStep
  <2>2. CASE JobStep
    BY <2>2, <1>3, <1>5 DEF JobStep, R!Elsewhere
  <2>3. CASE NodeStep
    BY <2>3, <1>5 DEF NodeStep, R!Elsewhere
  <2>4. CASE Tick
    BY <2>4, <1>5 DEF Tick, R!Tick
  <2>5. CASE UNCHANGED vars
    BY <2>5, <1>5 DEF vars, relayVars
  <2> QED
    BY <1>4, <2>1, <2>2, <2>3, <2>4, <2>5 DEF Next
<1> QED
  BY <1>6 DEF Goal

(***************************************************************************)
(* The theorems.                                                           *)
(***************************************************************************)

\* RelayOwnerKnown is inductive together with the lookups in flight.
OwnerInv ==
    /\ WritesShaped
    /\ \A w \in Writer : writes[w].op = "POST" => writes[w].node \in DOMAIN nodes
    /\ RelayOwnerKnown

LEMMA InitOwner == Init => OwnerInv
<1> SUFFICES ASSUME Init PROVE OwnerInv
  OBVIOUS
<1>1. writes = [w \in Writer |-> R!IdleWrite] /\ relays = [n \in {} |-> 0]
  BY DEF Init, R!Init
<1>2. IsWrite(R!IdleWrite) /\ R!IdleWrite.op # "POST"
  BY DEF IsWrite, R!IdleWrite
<1> QED
  BY <1>1, <1>2 DEF OwnerInv, WritesShaped, RelayOwnerKnown

LEMMA StepOwner == OwnerInv /\ [Next]_vars => OwnerInv'
<1> SUFFICES ASSUME OwnerInv, [Next]_vars PROVE OwnerInv'
  OBVIOUS
<1>1. DOMAIN nodes \subseteq DOMAIN nodes'
  BY StepKeepsRows DEF RowsKept
<1>2. /\ WritesShaped'
      /\ \A v \in Writer : SlotKept(v)
      /\ NoNewRelay \/ \E w \in Writer : RowOfRegistration(w)
  BY StepSlots DEF OwnerInv
<1>3. ASSUME NEW w \in Writer, writes'[w].op = "POST"
      PROVE  writes'[w].node \in DOMAIN nodes'
  BY <1>1, <1>2, <1>3 DEF SlotKept, GoesOn, OwnerInv, N!LiveNodes
<1>4. DOMAIN relays' \subseteq DOMAIN nodes
  <2>1. CASE NoNewRelay
    BY <2>1 DEF OwnerInv, RelayOwnerKnown, NoNewRelay
  <2>2. ASSUME NEW w \in Writer, RowOfRegistration(w) PROVE DOMAIN relays' \subseteq DOMAIN nodes
    BY <2>2 DEF OwnerInv, RelayOwnerKnown, RowOfRegistration, Admitted
  <2> QED
    BY <1>2, <2>1, <2>2
<1>5. RelayOwnerKnown'
  BY <1>1, <1>4 DEF RelayOwnerKnown
<1> QED
  BY <1>2, <1>3, <1>5 DEF OwnerInv

\* Every relay belongs to a node that was registered, without foreign keys and
\* although the check and the insertion are two statements.
THEOREM RelaysHaveOwners == Spec => []RelayOwnerKnown
<1>1. OwnerInv => RelayOwnerKnown
  BY DEF OwnerInv
<1> QED
  BY <1>1, InitOwner, StepOwner, PTL DEF Spec

LEMMA StepDwindles ==
  ASSUME WritesShaped, [Next]_vars, NEW n \in Node, Deleted(n)
  PROVE  DwindlingRegistrars(n)
<1>1. RowsKept
  BY StepKeepsRows
<1>2. /\ \A v \in Writer : SlotKept(v)
      /\ NoNewRelay \/ \E w \in Writer : RowOfRegistration(w)
  BY StepSlots
<1>3. Deleted(n)'
  BY <1>1 DEF Deleted, RowsKept
<1>4. Registrars(n)' \subseteq Registrars(n)
  BY <1>2 DEF Deleted, Registrars, Admitted, SlotKept, GoesOn, N!LiveNodes
<1>5. ASSUME LateRelay(n) PROVE Registrars(n)' # Registrars(n)
  <2>1. PICK w \in Writer : RowOfRegistration(w) /\ writes[w].node = n
    BY <1>2, <1>5 DEF LateRelay, NoNewRelay, RowOfRegistration
  <2>2. w \in Registrars(n) /\ w \notin Registrars(n)'
    BY <2>1 DEF RowOfRegistration, Registrars
  <2> QED
    BY <2>2
<1> QED
  BY <1>3, <1>4, <1>5 DEF DwindlingRegistrars

\* After the deletion of a node the registrations of its relay that were under
\* way can only get fewer, and every relay it still gets costs one of them.
THEOREM LateRelaysEnd == Spec => LateRelaysRunOut
<1>1. OwnerInv => WritesShaped
  BY DEF OwnerInv
<1>2. WritesShaped /\ [Next]_vars
         => [\A n \in Node : Deleted(n) => DwindlingRegistrars(n)]_vars
  BY StepDwindles
<1> QED
  BY <1>1, <1>2, InitOwner, StepOwner, PTL DEF Spec, LateRelaysRunOut

(***************************************************************************)
(* What is proved of each registry, whatever the rest of the server does,  *)
(* holds in the server.  NP and RP are the registries as their theorems    *)
(* know them; each definition of theirs is the one of N and R.             *)
(***************************************************************************)

NP == INSTANCE NodeRegistry_proofs WITH reply <- nodeReply
RP == INSTANCE RelayLease_proofs
        WITH nodes <- N!LiveNodes(nodes), reply <- relayReply, Registered <- SUBSET Node

\* Each step of the server is a step of the node registry.
LEMMA ServerRunsNodes == Spec => N!Spec
<1>1. Init => N!Init
  BY DEF Init
<1>2. [Next]_vars => [N!Next]_(N!vars)
  <2>1. NodeStep \/ RelayStep \/ JobStep \/ Tick \/ Restart => N!Next
    BY DEF NodeStep, RelayStep, JobStep, Tick, Restart, N!Next
  <2>2. UNCHANGED vars => UNCHANGED N!vars
    BY DEF vars, nodeVars, N!vars
  <2> QED
    BY <2>1, <2>2 DEF Next
<1> QED
  BY <1>1, <1>2, PTL DEF Spec, N!Spec

\* Each step of the server is a step of the relay registry, to which nodes come
\* and go.
LEMMA ServerRunsRelays == Spec => R!Spec
<1>1. Init => R!Init
  BY DEF Init
<1>2. [Next]_vars => [R!Next]_(R!vars)
  <2>1. NodeStep \/ RelayStep \/ JobStep \/ Tick \/ Restart => R!Next
    BY DEF NodeStep, RelayStep, JobStep, Tick, Restart, R!Next
  <2>2. UNCHANGED vars => UNCHANGED R!vars
    BY DEF vars, nodeVars, relayVars, R!vars, N!LiveNodes
  <2> QED
    BY <2>1, <2>2 DEF Next
<1> QED
  BY <1>1, <1>2, PTL DEF Spec, R!Spec

\* NP has the definitions of N.
LEMMA SameNodes == N!Spec => NP!Spec
<1>1. N!Init => NP!Init
  BY DEF N!Init, NP!Init, N!NodeStatus, NP!NodeStatus, N!IdleCall, NP!IdleCall,
         N!IdleCleanup, NP!IdleCleanup, N!NoReply, NP!NoReply
<1>2. [N!Next]_(N!vars) => [NP!Next]_(NP!vars)
  <2>1. ASSUME NEW c \in Caller, N!CallStep(c) PROVE NP!CallStep(c)
    BY <2>1 DEF N!CallStep, NP!CallStep, N!LookUpKey, NP!LookUpKey, N!CreateNode,
           NP!CreateNode, N!CreateFails, NP!CreateFails, N!SendResponse,
           NP!SendResponse, N!NodesWithKey, NP!NodesWithKey, N!LiveNodes, NP!LiveNodes,
           N!CanInsert, NP!CanInsert, N!InsertNode, NP!InsertNode, N!IdleCall,
           NP!IdleCall, N!NoReply, NP!NoReply, N!Registered, NP!Registered
  <2>2. ASSUME NEW n \in Node, N!DeleteNode(n) PROVE NP!DeleteNode(n)
    BY <2>2 DEF N!DeleteNode, NP!DeleteNode, N!LiveNodes, NP!LiveNodes, N!MarkDeleted,
           NP!MarkDeleted, N!Deleted, NP!Deleted
  <2>3. ASSUME N!JobStep PROVE NP!JobStep
    <3>1. N!SetGauges(gauge, nodes) = NP!SetGauges(gauge, nodes)
      BY DEF N!SetGauges, NP!SetGauges, N!CountByStatus, NP!CountByStatus, N!NodeStatus,
             NP!NodeStatus, N!Cardinality, NP!Cardinality
    <3>2. ASSUME NEW t PROVE N!MarkInactive(nodes, t) = NP!MarkInactive(nodes, t)
      BY DEF N!MarkInactive, NP!MarkInactive, N!IsInactive, NP!IsInactive
    <3> QED
      BY <2>3, <3>1, <3>2 DEF N!JobStep, NP!JobStep, N!StartCleanup, NP!StartCleanup,
             N!DeactivateNodes, NP!DeactivateNodes, N!RefreshNodeGauges,
             NP!RefreshNodeGauges, N!CleanupFails, NP!CleanupFails, N!IdleCleanup,
             NP!IdleCleanup, N!NoReply, NP!NoReply
  <2>4. /\ N!Tick => NP!Tick
        /\ N!Restart => NP!Restart
        /\ N!Elsewhere => NP!Elsewhere
    BY DEF N!Tick, NP!Tick, N!Restart, NP!Restart, N!Elsewhere, NP!Elsewhere,
           N!IdleCall, NP!IdleCall, N!IdleCleanup, NP!IdleCleanup, N!NodeStatus,
           NP!NodeStatus, N!NoReply, NP!NoReply
  <2>5. UNCHANGED N!vars => UNCHANGED NP!vars
    BY DEF N!vars, NP!vars
  <2> QED
    BY <2>1, <2>2, <2>3, <2>4, <2>5 DEF N!Next, NP!Next
<1> QED
  BY <1>1, <1>2, PTL DEF N!Spec, NP!Spec

\* RP has the definitions of R.
LEMMA SameRelays == R!Spec => RP!Spec
<1>1. R!Init => RP!Init
  BY DEF R!Init, RP!Init, R!EmptyCache, RP!EmptyCache, R!EmptyListing, RP!EmptyListing,
         R!IdleWrite, RP!IdleWrite, R!IdleRead, RP!IdleRead, R!IdleSweep, RP!IdleSweep,
         R!NoFilter, RP!NoFilter, R!NoReply, RP!NoReply
<1>2. [R!Next]_(R!vars) => [RP!Next]_(RP!vars)
  <2>1. ASSUME NEW w \in Writer, R!WriteStep(w) PROVE RP!WriteStep(w)
    <3>1. R!ReceiveWrite(w) => RP!ReceiveWrite(w)
      BY DEF R!ReceiveWrite, RP!ReceiveWrite, R!ReceiveRegister, RP!ReceiveRegister,
             R!ReceiveFullHeartbeat, RP!ReceiveFullHeartbeat, R!ReceiveHeartbeat,
             RP!ReceiveHeartbeat, R!ReceiveDelete, RP!ReceiveDelete, R!DeleteRelay,
             RP!DeleteRelay, R!MaySend, RP!MaySend, R!Refuse, RP!Refuse, R!Refreshes,
             RP!Refreshes, R!IdleWrite, RP!IdleWrite, R!Answer, RP!Answer, R!NoReply,
             RP!NoReply
    <3>2. R!ExecUpsert(w) => RP!ExecUpsert(w)
      BY DEF R!ExecUpsert, RP!ExecUpsert, R!UpsertRelay, RP!UpsertRelay, R!WritePc,
             RP!WritePc, R!NoReply, RP!NoReply
    <3>3. R!ExecHeartbeat(w) => RP!ExecHeartbeat(w)
      BY DEF R!ExecHeartbeat, RP!ExecHeartbeat, R!UpdateRelayHeartbeat,
             RP!UpdateRelayHeartbeat, R!WritePc, RP!WritePc, R!Finish, RP!Finish,
             R!Answer, RP!Answer, R!IdleWrite, RP!IdleWrite, R!NoReply, RP!NoReply
    <3>4. R!ExecFullHeartbeat(w) => RP!ExecFullHeartbeat(w)
      BY DEF R!ExecFullHeartbeat, RP!ExecFullHeartbeat, R!UpdateRelayFull,
             RP!UpdateRelayFull, R!WritePc, RP!WritePc, R!Finish, RP!Finish, R!Answer,
             RP!Answer, R!IdleWrite, RP!IdleWrite, R!NoReply, RP!NoReply
    <3>5. R!LookUpRelay(w) \/ R!ReadClock(w) => RP!LookUpRelay(w) \/ RP!ReadClock(w)
      BY DEF R!LookUpRelay, RP!LookUpRelay, R!ReadClock, RP!ReadClock, R!Finish,
             RP!Finish, R!Answer, RP!Answer, R!IdleWrite, RP!IdleWrite, R!NoReply,
             RP!NoReply
    <3>6. R!WriteFails(w) \/ R!Invalidate(w) => RP!WriteFails(w) \/ RP!Invalidate(w)
      BY DEF R!WriteFails, RP!WriteFails, R!Invalidate, RP!Invalidate, R!SuccessCode,
             RP!SuccessCode, R!Finish, RP!Finish, R!Answer, RP!Answer, R!IdleWrite,
             RP!IdleWrite
    <3> QED
      BY <2>1, <3>1, <3>2, <3>3, <3>4, <3>5, <3>6 DEF R!WriteStep, RP!WriteStep
  <2>2. ASSUME NEW r \in Reader, R!ReadStep(r) PROVE RP!ReadStep(r)
    <3> DEFINE q == reads[r]
               rows == R!Eligible(relays, q.cutoff, q.filter.since, q.filter.minAvail)
    <3>1. rows = RP!Eligible(relays, q.cutoff, q.filter.since, q.filter.minAvail)
      BY DEF R!Eligible, RP!Eligible, R!IsFresh, RP!IsFresh
    <3>2. R!Listings(relays, q.cutoff, q.filter.since, q.filter.minAvail, MaxRelays)
             = RP!Listings(relays, q.cutoff, q.filter.since, q.filter.minAvail, MaxRelays)
      BY DEF R!Listings, RP!Listings, R!Eligible, RP!Eligible, R!IsFresh, RP!IsFresh,
             R!Cardinality, RP!Cardinality
    <3>3. R!Cardinality(rows) = RP!Cardinality(rows)
      BY DEF R!Cardinality, RP!Cardinality
    <3> HIDE DEF rows
    <3>4. R!CountRows(r) => RP!CountRows(r)
      BY <3>1, <3>3 DEF rows, R!CountRows, RP!CountRows, R!NoReply, RP!NoReply
    <3>5. R!SelectRows(r) => RP!SelectRows(r)
      BY <3>2 DEF R!SelectRows, RP!SelectRows, R!NoReply, RP!NoReply
    <3>6. ASSUME NEW f PROVE R!ReceiveList(r, f) => RP!ReceiveList(r, f)
      BY DEF R!ReceiveList, RP!ReceiveList, R!CacheHit, RP!CacheHit, R!ListAnswer,
             RP!ListAnswer, R!NoFilter, RP!NoFilter, R!IdleRead, RP!IdleRead,
             R!EmptyListing, RP!EmptyListing, R!NoReply, RP!NoReply
    <3>7. /\ R!ReadCutoff(r) => RP!ReadCutoff(r)
          /\ R!ReadFails(r) => RP!ReadFails(r)
          /\ R!Respond(r) => RP!Respond(r)
      BY DEF R!ReadCutoff, RP!ReadCutoff, R!ReadFails, RP!ReadFails, R!Respond,
             RP!Respond, R!CacheSet, RP!CacheSet, R!ListAnswer, RP!ListAnswer, R!Answer,
             RP!Answer, R!NoFilter, RP!NoFilter, R!IdleRead, RP!IdleRead,
             R!EmptyListing, RP!EmptyListing, R!NoReply, RP!NoReply
    <3>8. R!NoFilter = RP!NoFilter
      BY DEF R!NoFilter, RP!NoFilter
    <3> QED
      BY <2>2, <3>4, <3>5, <3>6, <3>7, <3>8 DEF R!ReadStep, RP!ReadStep
  <2>3. R!SweepStep => RP!SweepStep
    BY DEF R!SweepStep, RP!SweepStep, R!StartSweep, RP!StartSweep, R!SweepMark,
           RP!SweepMark, R!SweepEvict, RP!SweepEvict, R!SweepFails, RP!SweepFails,
           R!MarkUnreachable, RP!MarkUnreachable, R!EvictExpired, RP!EvictExpired,
           R!Expired, RP!Expired, R!IdleSweep, RP!IdleSweep, R!NoReply, RP!NoReply
  <2>4. /\ R!Tick => RP!Tick
        /\ R!Restart => RP!Restart
        /\ R!Elsewhere => RP!Elsewhere
    BY DEF R!Tick, RP!Tick, R!Restart, RP!Restart, R!Elsewhere, RP!Elsewhere,
           R!EmptyCache, RP!EmptyCache, R!EmptyListing, RP!EmptyListing, R!IdleWrite,
           RP!IdleWrite, R!IdleRead, RP!IdleRead, R!IdleSweep, RP!IdleSweep, R!NoFilter,
           RP!NoFilter, R!NoReply, RP!NoReply
  <2>5. UNCHANGED R!vars => UNCHANGED RP!vars
    BY DEF R!vars, RP!vars
  <2> QED
    BY <2>1, <2>2, <2>3, <2>4, <2>5 DEF R!Next, RP!Next
<1> QED
  BY <1>1, <1>2, PTL DEF R!Spec, RP!Spec

\* What the registries assume follows from what the server assumes.
LEMMA NodesAssumption ==
    /\ NP!IsFiniteSet(Node) /\ Never \notin Nat
    /\ InactiveThreshold \in Nat \ {0} /\ MaxTime \in Nat
  BY ServerAssumption DEF IsFiniteSet, NP!IsFiniteSet

LEMMA RelaysAssumption ==
    /\ RP!IsFiniteSet(Node) /\ Avail \subseteq Nat /\ Unset \notin Avail
    /\ RelayTTL \in Nat \ {0} /\ CacheTTL \in Nat \ {0}
    /\ MaxRelays \in Nat \ {0} /\ OnlineThreshold \in Nat \ {0}
    /\ MaxLatency \in Nat /\ MaxTime \in Nat
    /\ SerialRefresh \in BOOLEAN
    /\ SUBSET Node \subseteq SUBSET Node
    /\ Methods \subseteq RP!Refreshes \cup {"DELETE"}
    /\ Filters \subseteq [since: Nat, minAvail: Nat]
  BY ServerAssumption DEF IsFiniteSet, RP!IsFiniteSet, RP!Refreshes

\* In the server a key stands for one node and deletion is final, although relay
\* requests and the sweep run between the steps of a registration.
THEOREM ServerKeepsIdentity ==
    Spec => []N!OneIdentityPerKey /\ N!DeletionIsFinal /\ N!ImplementsDirectory
<1>1. Spec => NP!Spec
  BY ServerRunsNodes, SameNodes
<1>2. NP!Spec => []NP!OneIdentityPerKey
  BY NP!KeysIdentifyNodes, NodesAssumption
<1>3. NP!OneIdentityPerKey => N!OneIdentityPerKey
  BY DEF N!OneIdentityPerKey, NP!OneIdentityPerKey, N!Accepted, NP!Accepted
<1>4. NP!Spec => NP!DeletionIsFinal
  BY NP!DeletedStayDeleted, NodesAssumption
<1>5. [NP!KeepsDeleted]_(NP!vars) => [N!KeepsDeleted]_(N!vars)
  BY DEF N!KeepsDeleted, NP!KeepsDeleted, N!vars, NP!vars
<1>6. NP!Spec => NP!ImplementsDirectory
  BY NP!RegistryImplementsDirectory, NodesAssumption
<1>7. NP!Directory!Init => N!Directory!Init
  BY DEF N!Directory!Init, NP!Directory!Init, N!Directory!Nothing, NP!Directory!Nothing,
         N!directory, NP!directory, N!retired, NP!retired, N!pending, NP!pending,
         N!told, NP!told, N!ToAnnounce, NP!ToAnnounce, N!LiveNodes, NP!LiveNodes,
         N!confirming, NP!confirming, N!ToConfirm, NP!ToConfirm
<1>8. [NP!Directory!Next]_(NP!Directory!vars) => [N!Directory!Next]_(N!Directory!vars)
  BY DEF N!Directory!Next, NP!Directory!Next, N!Directory!Assign, NP!Directory!Assign,
         N!Directory!Announce, NP!Directory!Announce, N!Directory!Confirm,
         NP!Directory!Confirm, N!Directory!Retire, NP!Directory!Retire,
         N!Directory!Lose, NP!Directory!Lose, N!Directory!Says, NP!Directory!Says,
         N!Directory!SaysRetired, NP!Directory!SaysRetired, N!Directory!Nothing,
         NP!Directory!Nothing, N!Directory!vars, NP!Directory!vars, N!directory,
         NP!directory, N!retired, NP!retired, N!pending, NP!pending, N!told, NP!told,
         N!ToAnnounce, NP!ToAnnounce, N!LiveNodes, NP!LiveNodes, N!Directory!Find,
         NP!Directory!Find, N!confirming, NP!confirming, N!ToConfirm, NP!ToConfirm
<1> QED
  BY <1>1, <1>2, <1>3, <1>4, <1>5, <1>6, <1>7, <1>8, PTL
  DEF N!DeletionIsFinal, NP!DeletionIsFinal, N!ImplementsDirectory, NP!ImplementsDirectory,
      N!Directory!Spec, NP!Directory!Spec

\* In the server, where nodes are registered and deleted at any time, peers are
\* not served stale relays, the two views of a relay's liveness agree, and no
\* registration is undone.
THEOREM ServerServesRelays ==
    Spec => []R!ServedStaleness /\ []R!OnlineIsListed /\ R!RegistrationKept
<1>1. Spec => RP!Spec
  BY ServerRunsRelays, SameRelays
<1>2. RP!Spec => []RP!ServedStaleness
  BY RP!StalenessBounded, RelaysAssumption
<1>3. RP!ServedStaleness => R!ServedStaleness
  BY DEF R!ServedStaleness, RP!ServedStaleness, R!IsList, RP!IsList
<1>4. RP!Spec => []RP!OnlineIsListed
  BY RP!OnlineRelaysListed, RelaysAssumption
<1>5. RP!OnlineIsListed => R!OnlineIsListed
  BY DEF R!OnlineIsListed, RP!OnlineIsListed, R!IsNodeOnline, RP!IsNodeOnline,
         R!IsFresh, RP!IsFresh
<1>6. RP!Spec => RP!RegistrationKept
  BY RP!RegistrationsKept, RelaysAssumption
<1>7. [RP!KeepsRegistration]_(RP!vars) => [R!KeepsRegistration]_(R!vars)
  BY DEF R!KeepsRegistration, RP!KeepsRegistration, R!vars, RP!vars
<1> QED
  BY <1>1, <1>2, <1>3, <1>4, <1>5, <1>6, <1>7, PTL DEF R!RegistrationKept, RP!RegistrationKept

\* In the server a relay holds its lease, as it does in the registry alone, when
\* clients do not overlap refreshes of one relay: see RelayLease.
THEOREM ServerKeepsLeases ==
  ASSUME SerialRefresh
  PROVE  Spec => R!ImplementsLease
<1>1. Spec => RP!Spec
  BY ServerRunsRelays, SameRelays
<1>2. RP!Spec => RP!ImplementsLease
  BY RP!RegistryImplementsLease, RelaysAssumption
<1>3. RP!Lease!Init => R!Lease!Init
  BY DEF R!Lease!Init, RP!Lease!Init, R!leases, RP!leases, R!Removals, RP!Removals
<1>4. [RP!Lease!Next]_(RP!Lease!vars) => [R!Lease!Next]_(R!Lease!vars)
  BY DEF R!Lease!Next, RP!Lease!Next, R!Lease!Tick, RP!Lease!Tick, R!Lease!Renew,
         RP!Lease!Renew, R!Lease!Suspend, RP!Lease!Suspend, R!Lease!Drop, RP!Lease!Drop,
         R!Lease!Remove, RP!Lease!Remove, R!Lease!Removed, RP!Lease!Removed,
         R!Lease!vars, RP!Lease!vars, R!leases, RP!leases, R!Removals, RP!Removals
<1> QED
  BY <1>1, <1>2, <1>3, <1>4, PTL
  DEF R!ImplementsLease, RP!ImplementsLease, R!Lease!Spec, RP!Lease!Spec

=============================================================================
