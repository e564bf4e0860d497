-------------------------- MODULE RelayLease_proofs --------------------------
(***************************************************************************)
(* The relay registry implements RelayLease when clients never have two    *)
(* refreshes of one relay in flight.                                       *)
(*                                                                         *)
(* The step that could break the abstract specification is the statement   *)
(* of a refresh, whose clock reading is old by the time it runs: Renew     *)
(* demands that it is not older than the row.  It is not, because the row  *)
(* was older than the clock when the clock was read (InOrder), and since   *)
(* then nobody else was refreshing that relay (OneRefresh).                *)
(***************************************************************************)
EXTENDS RelayRegistry_proofs

Refreshing(w, n) == writes[w].op \in Refreshes /\ writes[w].node = n

OneRefresh ==
    \A v, w \in Writer, n \in Node : Refreshing(v, n) /\ Refreshing(w, n) => v = w

InOrder ==
    /\ \A n \in DOMAIN relays : relays[n].lastSeen <= now
    /\ \A w \in Writer : writes[w].pc = "exec" =>
          /\ writes[w].at <= now
          /\ writes[w].node \in DOMAIN relays =>
                relays[writes[w].node].lastSeen <= writes[w].at

LeaseInv == OneRefresh /\ InOrder /\ sweep.at <= now

LEMMA InitLease == Init => LeaseInv
  BY DEF Init, LeaseInv, OneRefresh, InOrder, Refreshing, Refreshes, IdleWrite, IdleSweep

(***************************************************************************)
(* What a step of a write request does to the slots and to the table.      *)
(***************************************************************************)

\* The other slots stay; the slot itself goes on with its refresh, starts one
\* that nobody else has in flight, or holds no refresh any more.  It is about
\* to run its statement only when it has just read the clock.
LEMMA WriteStepSlots ==
  ASSUME SerialRefresh, TypeOK, NEW w \in Writer, WriteStep(w)
  PROVE  /\ \A v \in Writer \ {w} : writes'[v] = writes[v]
         /\ \/ writes'[w].op \notin Refreshes
            \/ writes'[w].op = writes[w].op /\ writes'[w].node = writes[w].node
            \/ \A v \in Writer : ~Refreshing(v, writes'[w].node)
         /\ \/ writes'[w].pc # "exec"
            \/ writes'[w] = writes[w] /\ UNCHANGED relays
            \/ writes'[w].at = now /\ UNCHANGED relays
<1>t. writes = [v \in Writer |-> writes[v]] /\ WriteOK(writes[w])
  BY DEF TypeOK, WritesOK
<1> DEFINE Goal ==
         /\ \A v \in Writer \ {w} : writes'[v] = writes[v]
         /\ \/ writes'[w].op \notin Refreshes
            \/ writes'[w].op = writes[w].op /\ writes'[w].node = writes[w].node
            \/ \A v \in Writer : ~Refreshing(v, writes'[w].node)
         /\ \/ writes'[w].pc # "exec"
            \/ writes'[w] = writes[w] /\ UNCHANGED relays
            \/ writes'[w].at = now /\ UNCHANGED relays
<1>1. ASSUME NEW n \in Node, NEW e \in Endpoint, NEW a \in Avail, NEW p \in Profile,
             ReceiveRegister(w, n, e, a, p)
      PROVE  Goal
  BY <1>t, <1>1 DEF ReceiveRegister, Refuse, MaySend, Refreshing
<1>2. ASSUME NEW n \in Node, NEW e \in Endpoint, NEW a \in Avail, NEW admin \in BOOLEAN,
             ReceiveFullHeartbeat(w, n, e, a, admin)
      PROVE  Goal
  BY <1>t, <1>2 DEF ReceiveFullHeartbeat, Refuse, MaySend, Refreshing
<1>3. ASSUME NEW n \in Node, NEW a \in Avail \cup {Unset}, ReceiveHeartbeat(w, n, a)
      PROVE  Goal
  BY <1>t, <1>3 DEF ReceiveHeartbeat, MaySend, Refreshing
<1>4. ASSUME NEW n \in Node, ReceiveDelete(w, n)
      PROVE  Goal
  BY <1>t, <1>4 DEF ReceiveDelete, Refuse, Refreshes, IdleWrite
<1>f. ASSUME NEW code, Finish(w, code)
      PROVE  Goal
  BY <1>t, <1>f DEF Finish, IdleWrite, Refreshes
<1>p. ASSUME WritePc(w, "invalidate")
      PROVE  Goal
  BY <1>t, <1>p DEF WritePc, WriteOK, Write
<1>5. ASSUME LookUpRelay(w) PROVE Goal
  BY <1>t, <1>f, <1>5 DEF LookUpRelay, WriteOK, Write
<1>6. ASSUME ReadClock(w) PROVE Goal
  BY <1>t, <1>6 DEF ReadClock, WriteOK, Write
<1>7. ASSUME \/ ExecUpsert(w) \/ ExecHeartbeat(w) \/ ExecFullHeartbeat(w)
             \/ WriteFails(w) \/ Invalidate(w)
      PROVE  Goal
  BY <1>f, <1>p, <1>7 DEF ExecUpsert, ExecHeartbeat, ExecFullHeartbeat, WriteFails, Invalidate
<1> HIDE DEF Goal
<1>8. Goal
  <2>1. CASE ReceiveWrite(w)
    <3>1. PICK n \in Node :
            \/ \E e \in Endpoint, a \in Avail :
                  \/ \E p \in Profile : ReceiveRegister(w, n, e, a, p)
                  \/ \E admin \in BOOLEAN : ReceiveFullHeartbeat(w, n, e, a, admin)
            \/ \E a \in Avail \cup {Unset} : ReceiveHeartbeat(w, n, a)
            \/ ReceiveDelete(w, n)
      BY <2>1 DEF ReceiveWrite
    <3> QED
      BY <3>1, <1>1, <1>2, <1>3, <1>4
  <2> QED
    BY <2>1, <1>5, <1>6, <1>7 DEF WriteStep
<1> QED
  BY <1>8 DEF Goal

\* A row that is new or has a new last_seen_at is that of a refresh of this
\* relay, which brought the clock reading.
LEMMA WriteStepSeen ==
  ASSUME TypeOK, NEW w \in Writer, WriteStep(w), NEW m \in DOMAIN relays'
  PROVE  \/ m \in DOMAIN relays /\ relays'[m] = relays[m]
         \/ /\ writes[w].pc = "exec" /\ Refreshing(w, m)
            /\ relays'[m].lastSeen = writes[w].at
<1>t. IsRelayTable(relays)
  BY DEF TypeOK
<1>1. CASE UNCHANGED relays
  BY <1>1
<1>2. CASE \E n \in Node : ReceiveDelete(w, n)
  BY <1>2, DeleteRelayRows DEF ReceiveDelete
<1>3. CASE ExecUpsert(w)
  BY <1>3, UpsertRelayRows DEF ExecUpsert, Refreshing, Refreshes
<1>4. CASE ExecHeartbeat(w)
  BY <1>t, <1>4, UpdateRelayHeartbeatRows DEF ExecHeartbeat, Refreshing, Refreshes
<1>5. CASE ExecFullHeartbeat(w)
  BY <1>t, <1>5, UpdateRelayFullRows DEF ExecFullHeartbeat, Refreshing, Refreshes
<1> QED
  BY <1>1, <1>2, <1>3, <1>4, <1>5
  DEF WriteStep, ReceiveWrite, ReceiveRegister, ReceiveFullHeartbeat, ReceiveHeartbeat,
      LookUpRelay, ReadClock, WriteFails, Invalidate

(***************************************************************************)
(* The invariant.                                                          *)
(***************************************************************************)

LEMMA WriteStepLease ==
  ASSUME SerialRefresh, TypeOK, TypeOK', LeaseInv, NEW w \in Writer, WriteStep(w)
  PROVE  LeaseInv'
<1>t. /\ now \in Nat
      /\ \A n \in DOMAIN relays : n \in Node /\ relays[n].lastSeen \in Nat
      /\ \A v \in Writer : writes[v].at \in Nat /\ WriteOK(writes[v]) /\ WriteOK(writes'[v])
      /\ \A n \in DOMAIN relays' : n \in Node
  BY DEF TypeOK, IsRelayTable, Relay, WritesOK, WriteOK, Write
<1>u. UNCHANGED <<now, sweep>>
  BY DEF WriteStep, ReceiveWrite, ReceiveRegister, ReceiveFullHeartbeat, ReceiveHeartbeat,
         ReceiveDelete, LookUpRelay, ReadClock, ExecUpsert, ExecHeartbeat, ExecFullHeartbeat,
         WriteFails, Invalidate
<1>1. OneRefresh'
  BY WriteStepSlots DEF LeaseInv, OneRefresh, Refreshing
<1>2. \A n \in DOMAIN relays' : relays'[n].lastSeen <= now
  BY WriteStepSeen DEF LeaseInv, InOrder
<1>3. ASSUME NEW v \in Writer, writes'[v].pc = "exec"
      PROVE  /\ writes'[v].at <= now
             /\ writes'[v].node \in DOMAIN relays' =>
                   relays'[writes'[v].node].lastSeen <= writes'[v].at
  <2>1. CASE v = w
    BY <1>t, <1>3, <2>1, WriteStepSlots DEF LeaseInv, InOrder
  <2>2. CASE v # w
    <3>1. writes'[v] = writes[v]
      BY <2>2, WriteStepSlots
    <3>2. writes[v].op \in Refreshes /\ writes[v].node \in Node
      BY <1>t, <1>3, <3>1 DEF WriteOK
    <3>3. ~Refreshing(w, writes[v].node)
      BY <2>2, <3>2 DEF LeaseInv, OneRefresh, Refreshing
    <3>4. writes'[v].node \in DOMAIN relays' =>
             writes[v].node \in DOMAIN relays /\ relays'[writes[v].node] = relays[writes[v].node]
      BY <3>1, <3>3, WriteStepSeen
    <3> QED
      BY <1>3, <3>1, <3>4 DEF LeaseInv, InOrder
  <2> QED
    BY <2>1, <2>2
<1> QED
  BY <1>u, <1>1, <1>2, <1>3 DEF LeaseInv, InOrder

LEMMA StepLease ==
  SerialRefresh /\ TypeOK /\ TypeOK' /\ LeaseInv /\ [Next]_vars => LeaseInv'
<1> SUFFICES ASSUME SerialRefresh, TypeOK, TypeOK', LeaseInv, [Next]_vars PROVE LeaseInv'
  OBVIOUS
<1>t. /\ now \in Nat /\ sweep.at \in Nat
      /\ \A n \in DOMAIN relays : relays[n].lastSeen \in Nat /\ relays[n] \in Relay
      /\ \A w \in Writer : writes[w].at \in Nat
  BY DEF TypeOK, IsRelayTable, Relay, WritesOK, WriteOK, Write
<1>1. ASSUME NEW w \in Writer, WriteStep(w) PROVE LeaseInv'
  BY <1>1, WriteStepLease
<1>2. ASSUME NEW r \in Reader, ReadStep(r) PROVE LeaseInv'
  <2>1. UNCHANGED <<now, relays, writes, sweep>>
    BY <1>2 DEF ReadStep, ReceiveList, ReadCutoff, CountRows, SelectRows, ReadFails, Respond
  <2> QED
    BY <2>1 DEF LeaseInv, OneRefresh, InOrder, Refreshing
<1>3. CASE SweepStep
  <2>1. UNCHANGED <<now, writes>>
    BY <1>3 DEF SweepStep, StartSweep, SweepMark, SweepEvict, SweepFails
  <2>2. sweep'.at <= now
    BY <1>t, <1>3 DEF SweepStep, StartSweep, SweepMark, SweepEvict, SweepFails, IdleSweep,
                      LeaseInv, TypeOK
  <2>3. \A n \in DOMAIN relays' : n \in DOMAIN relays /\ relays'[n].lastSeen = relays[n].lastSeen
    BY <1>t, <1>3 DEF SweepStep, StartSweep, SweepMark, SweepEvict, SweepFails,
                      MarkUnreachable, EvictExpired, Relay
  <2> QED
    BY <2>1, <2>2, <2>3 DEF LeaseInv, OneRefresh, InOrder, Refreshing
<1>4. CASE Tick
  BY <1>t, <1>4 DEF Tick, LeaseInv, OneRefresh, InOrder, Refreshing
<1>5. CASE Restart
  BY <1>t, <1>5 DEF Restart, LeaseInv, OneRefresh, InOrder, Refreshing, Refreshes,
                    IdleWrite, IdleSweep
<1>6. CASE Elsewhere \/ UNCHANGED vars
  BY <1>6 DEF Elsewhere, vars, LeaseInv, OneRefresh, InOrder, Refreshing
<1> QED
  BY <1>1, <1>2, <1>3, <1>4, <1>5, <1>6 DEF Next

(***************************************************************************)
(* What a step does to the removals that are not answered yet.             *)
(***************************************************************************)

\* A slot keeps its removal or its lack of one, gives it up in a step that
\* leaves the table alone, or starts one.
LEMMA WriteStepRemoval ==
  ASSUME TypeOK, NEW w \in Writer, WriteStep(w)
  PROVE  /\ \A v \in Writer \ {w} : writes'[v] = writes[v]
         /\ \/ writes'[w].op = writes[w].op /\ writes'[w].node = writes[w].node
            \/ writes'[w].op # "DELETE" /\ UNCHANGED relays
            \/ relays' # relays /\ \E n \in Node : ReceiveDelete(w, n)
<1>t. writes = [v \in Writer |-> writes[v]] /\ WriteOK(writes[w])
  BY DEF TypeOK, WritesOK
<1> DEFINE Goal ==
         /\ \A v \in Writer \ {w} : writes'[v] = writes[v]
         /\ \/ writes'[w].op = writes[w].op /\ writes'[w].node = writes[w].node
            \/ writes'[w].op # "DELETE" /\ UNCHANGED relays
            \/ relays' # relays /\ \E n \in Node : ReceiveDelete(w, n)
<1>1. ASSUME NEW n \in Node, NEW e \in Endpoint, NEW a \in Avail, NEW p \in Profile,
             ReceiveRegister(w, n, e, a, p)
      PROVE  Goal
  BY <1>t, <1>1 DEF ReceiveRegister, Refuse
<1>2. ASSUME NEW n \in Node, NEW e \in Endpoint, NEW a \in Avail, NEW admin \in BOOLEAN,
             ReceiveFullHeartbeat(w, n, e, a, admin)
      PROVE  Goal
  BY <1>t, <1>2 DEF ReceiveFullHeartbeat, Refuse
<1>3. ASSUME NEW n \in Node, NEW a \in Avail \cup {Unset}, ReceiveHeartbeat(w, n, a)
      PROVE  Goal
  BY <1>t, <1>3 DEF ReceiveHeartbeat
<1>4. ASSUME NEW n \in Node, ReceiveDelete(w, n)
      PROVE  Goal
  <2>1. relays' = DeleteRelay(relays, n) /\ n \in DOMAIN relays => relays' # relays
    BY DEF DeleteRelay
  <2> QED
    BY <1>t, <1>4, <2>1 DEF ReceiveDelete, Refuse
<1>f. ASSUME NEW code, Finish(w, code), UNCHANGED relays
      PROVE  Goal
  BY <1>t, <1>f DEF Finish, IdleWrite
<1>p. ASSUME WritePc(w, "invalidate")
      PROVE  Goal
  BY <1>t, <1>p DEF WritePc, WriteOK, Write
<1>5. ASSUME LookUpRelay(w) PROVE Goal
  BY <1>t, <1>f, <1>5 DEF LookUpRelay, WriteOK, Write
<1>6. ASSUME ReadClock(w) PROVE Goal
  BY <1>t, <1>6 DEF ReadClock, WriteOK, Write
<1>7. ASSUME \/ ExecUpsert(w) \/ ExecHeartbeat(w) \/ ExecFullHeartbeat(w)
             \/ WriteFails(w) \/ Invalidate(w)
      PROVE  Goal
  BY <1>f, <1>p, <1>7 DEF ExecUpsert, ExecHeartbeat, ExecFullHeartbeat, WriteFails, Invalidate
<1> HIDE DEF Goal
<1>8. Goal
  <2>1. CASE ReceiveWrite(w)
    <3>1. PICK n \in Node :
            \/ \E e \in Endpoint, a \in Avail :
                  \/ \E p \in Profile : ReceiveRegister(w, n, e, a, p)
                  \/ \E admin \in BOOLEAN : ReceiveFullHeartbeat(w, n, e, a, admin)
            \/ \E a \in Avail \cup {Unset} : ReceiveHeartbeat(w, n, a)
            \/ ReceiveDelete(w, n)
      BY <2>1 DEF ReceiveWrite
    <3> QED
      BY <3>1, <1>1, <1>2, <1>3, <1>4
  <2> QED
    BY <2>1, <1>5, <1>6, <1>7 DEF WriteStep
<1> QED
  BY <1>8 DEF Goal

\* Only a DELETE that finds its row adds a removal, and a step that changes the
\* table without being one leaves the removals as they are.
LEMMA WriteStepRemovals ==
  ASSUME TypeOK, NEW w \in Writer, WriteStep(w)
  PROVE  /\ UNCHANGED relays => Removals' \in SUBSET Removals
         /\ \A n \in Node : ReceiveDelete(w, n) /\ relays' # relays
                => n \in DOMAIN relays /\ Removals' = Removals \cup {n}
         /\ relays' # relays /\ (\A n \in Node : ~ReceiveDelete(w, n)) => UNCHANGED Removals
<1>1. UNCHANGED relays => Removals' \in SUBSET Removals
  BY WriteStepRemoval DEF Removals
<1>2. ASSUME NEW n \in Node, ReceiveDelete(w, n), relays' # relays
      PROVE  n \in DOMAIN relays /\ Removals' = Removals \cup {n}
  <2>1. writes = [v \in Writer |-> writes[v]] /\ WriteOK(writes[w])
    BY DEF TypeOK, WritesOK
  <2>2. /\ n \in DOMAIN relays /\ writes[w].pc = "idle"
        /\ writes' = [writes EXCEPT ![w] =
              [IdleWrite EXCEPT !.pc = "invalidate", !.op = "DELETE", !.node = n]]
    BY <1>2 DEF ReceiveDelete
  <2>3. writes'[w] = [IdleWrite EXCEPT !.pc = "invalidate", !.op = "DELETE", !.node = n]
        /\ \A v \in Writer \ {w} : writes'[v] = writes[v]
    BY <2>1, <2>2
  <2>4. writes[w] = IdleWrite
    BY <2>1, <2>2 DEF WriteOK
  <2>5. writes'[w].op = "DELETE" /\ writes'[w].node = n
    BY <2>3 DEF IdleWrite
  <2> QED
    BY <2>2, <2>3, <2>4, <2>5 DEF Removals, IdleWrite
<1>3. ASSUME relays' # relays, \A n \in Node : ~ReceiveDelete(w, n)
      PROVE  UNCHANGED Removals
  BY <1>3, WriteStepRemoval DEF Removals
<1> QED
  BY <1>1, <1>2, <1>3

(***************************************************************************)
(* Every step is a step of RelayLease on the leases, or leaves them alone. *)
(***************************************************************************)

\* The statement of a refresh renews the lease.
LEMMA RefreshRenews ==
  ASSUME TypeOK, LeaseInv, NEW w \in Writer, writes[w].pc = "exec",
         UNCHANGED <<now, Removals>>,
         DOMAIN relays' = DOMAIN relays \cup {writes[w].node},
         \A m \in DOMAIN relays' :
            \/ m = writes[w].node /\ relays'[m].status = "active" /\ relays'[m].lastSeen = writes[w].at
            \/ m \in DOMAIN relays /\ m # writes[w].node /\ relays'[m] = relays[m]
  PROVE  Lease!Next
<1>1. PICK n \in Node, t \in 0..now : n = writes[w].node /\ t = writes[w].at
  BY DEF TypeOK, WritesOK, WriteOK, Write, LeaseInv, InOrder
<1>2. Lease!Renew(n, t)
  <2>1. n \in DOMAIN leases => leases[n].seen <= t
    BY <1>1 DEF leases, LeaseInv, InOrder
  <2>2. leases' = [m \in DOMAIN leases \cup {n} |->
                     IF m = n THEN [seen |-> t, live |-> TRUE] ELSE leases[m]]
    BY <1>1 DEF leases
  <2> QED
    BY <1>1, <2>1, <2>2 DEF Lease!Renew
<1> QED
  BY <1>1, <1>2 DEF Lease!Next

LEMMA WriteStepSimulates ==
  ASSUME TypeOK, LeaseInv, NEW w \in Writer, WriteStep(w)
  PROVE  [Lease!Next]_Lease!vars
<1>t. IsRelayTable(relays) /\ WriteOK(writes[w])
  BY DEF TypeOK, WritesOK
<1>e. writes[w].pc = "exec" => \A n \in Node : ~ReceiveDelete(w, n)
  BY DEF ReceiveDelete
<1>1. CASE UNCHANGED <<now, relays>>
  BY <1>1, WriteStepRemovals DEF Lease!Next, Lease!Removed, leases
<1>2. ASSUME NEW n \in Node, ReceiveDelete(w, n), relays' # relays
      PROVE  Lease!Next
  <2>1. UNCHANGED now /\ relays' = DeleteRelay(relays, n)
    BY <1>2 DEF ReceiveDelete
  <2>2. leases' = [m \in DOMAIN leases \ {n} |-> leases[m]]
    BY <2>1 DEF leases, DeleteRelay
  <2> QED
    BY <1>2, <2>1, <2>2, WriteStepRemovals DEF Lease!Next, Lease!Remove, leases
<1>r. (\A n \in Node : ~ReceiveDelete(w, n)) /\ relays' # relays => UNCHANGED Removals
  BY WriteStepRemovals
<1>3. CASE ExecUpsert(w) /\ relays' # relays
  <2>1. DOMAIN relays' = DOMAIN relays \cup {writes[w].node}
    BY <1>3 DEF ExecUpsert, UpsertRelay
  <2> QED
    BY <1>3, <1>r, <1>e, <2>1, UpsertRelayRows, RefreshRenews DEF ExecUpsert
<1>4. CASE ExecHeartbeat(w) /\ relays' # relays
  <2>1. /\ writes[w].node \in DOMAIN relays /\ writes[w].pc = "exec" /\ UNCHANGED now
        /\ relays' = UpdateRelayHeartbeat(relays, writes[w].node, writes[w].avail, writes[w].at)
    BY <1>4 DEF ExecHeartbeat
  <2>2. DOMAIN relays' = DOMAIN relays \cup {writes[w].node}
    BY <2>1 DEF UpdateRelayHeartbeat
  <2> QED
    BY <1>t, <1>4, <1>r, <1>e, <2>1, <2>2, UpdateRelayHeartbeatRows, RefreshRenews
<1>5. CASE ExecFullHeartbeat(w) /\ relays' # relays
  <2>1. /\ writes[w].node \in DOMAIN relays /\ writes[w].pc = "exec" /\ UNCHANGED now
        /\ relays' = UpdateRelayFull(relays, writes[w].node, writes[w].endpoint,
                                     writes[w].avail, writes[w].at)
    BY <1>5 DEF ExecFullHeartbeat
  <2>2. DOMAIN relays' = DOMAIN relays \cup {writes[w].node}
    BY <2>1 DEF UpdateRelayFull
  <2> QED
    BY <1>t, <1>5, <1>r, <1>e, <2>1, <2>2, UpdateRelayFullRows, RefreshRenews
<1>6. UNCHANGED now
  BY DEF WriteStep, ReceiveWrite, ReceiveRegister, ReceiveFullHeartbeat, ReceiveHeartbeat,
         ReceiveDelete, LookUpRelay, ReadClock, ExecUpsert, ExecHeartbeat, ExecFullHeartbeat,
         WriteFails, Invalidate
<1>7. \/ UNCHANGED relays \/ ExecUpsert(w) \/ ExecHeartbeat(w) \/ ExecFullHeartbeat(w)
      \/ \E n \in Node : ReceiveDelete(w, n)
  BY DEF WriteStep, ReceiveWrite, ReceiveRegister, ReceiveFullHeartbeat, ReceiveHeartbeat,
         LookUpRelay, ReadClock, WriteFails, Invalidate
<1> QED
  BY <1>1, <1>2, <1>3, <1>4, <1>5, <1>6, <1>7

LEMMA SweepStepSimulates ==
  ASSUME TypeOK, LeaseInv, SweepStep
  PROVE  [Lease!Next]_Lease!vars
<1>t. /\ now \in Nat /\ sweep.at \in Nat /\ sweep.at <= now /\ RelayTTL \in Nat
      /\ DOMAIN relays \subseteq Node
      /\ \A n \in DOMAIN relays : relays[n] \in Relay /\ relays[n].lastSeen \in Nat
  BY ParameterAssumption DEF TypeOK, LeaseInv, IsRelayTable, Relay
<1>r. UNCHANGED Removals
  BY DEF SweepStep, StartSweep, SweepMark, SweepEvict, SweepFails, Removals
<1>1. CASE UNCHANGED <<now, relays>>
  BY <1>1, <1>r DEF Lease!vars, leases
<1>2. CASE SweepMark
  <2> DEFINE cutoff == sweep.at - RelayTTL
  <2>s. PICK S \in SUBSET Node :
          S = {n \in DOMAIN relays : relays[n].status = "active" /\ relays[n].lastSeen < cutoff}
    BY <1>t
  <2>1. UNCHANGED now /\ relays' = MarkUnreachable(relays, cutoff)
    BY <1>2 DEF SweepMark
  <2>2. \A n \in S : leases[n].seen < now - RelayTTL
    BY <1>t, <2>s DEF leases
  <2>3. leases' = [n \in DOMAIN leases |->
                     IF n \in S THEN [seen |-> leases[n].seen, live |-> FALSE] ELSE leases[n]]
    <3>1. DOMAIN relays' = DOMAIN relays
      BY <2>1 DEF MarkUnreachable
    <3>2. ASSUME NEW n \in S
          PROVE  [seen |-> relays'[n].lastSeen, live |-> relays'[n].status = "active"]
                   = [seen |-> leases[n].seen, live |-> FALSE]
      <4>1. relays'[n].lastSeen = relays[n].lastSeen /\ relays'[n].status = "unreachable"
        BY <1>t, <2>1, <2>s DEF MarkUnreachable, Relay
      <4> QED
        BY <2>s, <4>1 DEF leases
    <3>3. ASSUME NEW n \in DOMAIN relays \ S
          PROVE  relays'[n] = relays[n]
      BY <2>1, <2>s DEF MarkUnreachable
    <3> QED
      BY <2>s, <3>1, <3>2, <3>3 DEF leases
  <2>4. Lease!Suspend(S)
    BY <1>r, <2>s, <2>1, <2>2, <2>3 DEF Lease!Suspend, leases
  <2> QED
    BY <1>t, <2>4 DEF Lease!Next
<1>3. CASE SweepEvict
  <2> DEFINE cutoff == sweep.at - 2 * RelayTTL
  <2>s. PICK S \in SUBSET Node : S = {n \in DOMAIN relays : Expired(relays[n], cutoff)}
    BY <1>t
  <2>1. UNCHANGED now /\ relays' = EvictExpired(relays, cutoff)
    BY <1>3 DEF SweepEvict
  <2>2. \A n \in S : ~leases[n].live /\ leases[n].seen < now - 2 * RelayTTL
    <3>1. \A n \in S : n \in DOMAIN relays /\ relays[n].status # "active"
                      /\ relays[n].lastSeen < now - 2 * RelayTTL
      BY <1>t, <2>s DEF Expired
    <3> QED
      BY <3>1 DEF leases
  <2>3. leases' = [n \in DOMAIN leases \ S |-> leases[n]]
    BY <2>s, <2>1 DEF leases, EvictExpired
  <2>4. Lease!Drop(S)
    BY <1>r, <2>s, <2>1, <2>2, <2>3 DEF Lease!Drop, leases
  <2> QED
    BY <1>t, <2>4 DEF Lease!Next
<1> QED
  BY <1>1, <1>2, <1>3 DEF SweepStep, StartSweep, SweepFails

LEMMA StepSimulates == TypeOK /\ LeaseInv /\ [Next]_vars => [Lease!Next]_Lease!vars
<1> SUFFICES ASSUME TypeOK, LeaseInv, [Next]_vars PROVE [Lease!Next]_Lease!vars
  OBVIOUS
<1>1. ASSUME NEW w \in Writer, WriteStep(w) PROVE [Lease!Next]_Lease!vars
  BY <1>1, WriteStepSimulates
<1>2. CASE SweepStep
  BY <1>2, SweepStepSimulates
<1>3. CASE Tick
  BY <1>3 DEF Tick, Lease!Next, Lease!Tick, leases, Removals
<1>4. CASE UNCHANGED <<now, relays, writes>>
  BY <1>4 DEF Lease!vars, leases, Removals
<1>5. ASSUME NEW r \in Reader, ReadStep(r) PROVE UNCHANGED <<now, relays, writes>>
  BY <1>5 DEF ReadStep, ReceiveList, ReadCutoff, CountRows, SelectRows, ReadFails, Respond
<1>6. CASE Restart
  <2>1. Removals' = {}
    BY <1>6 DEF Restart, Removals, IdleWrite
  <2> QED
    BY <1>6, <2>1 DEF Restart, Lease!Next, Lease!Removed, leases
<1> QED
  BY <1>1, <1>2, <1>3, <1>4, <1>5, <1>6 DEF Next, Elsewhere, vars

\* The concurrent registry implements RelayLease: with one refresh of a relay
\* in flight at a time no lease goes back in time, no relay that was heard of
\* is suspended or dropped, however writes, sweeps and restarts interleave.
THEOREM RegistryImplementsLease ==
  ASSUME SerialRefresh
  PROVE  Spec => ImplementsLease
<1>1. Init => TypeOK /\ LeaseInv
  BY InitType, InitLease
<1>2. TypeOK /\ LeaseInv /\ [Next]_vars => TypeOK' /\ LeaseInv'
  BY StepType, StepLease
<1>3. Init => Lease!Init
  BY DEF Init, Lease!Init, leases, Removals, IdleWrite
<1> QED
  BY <1>1, <1>2, <1>3, StepSimulates, PTL DEF Spec, ImplementsLease, Lease!Spec

=============================================================================
