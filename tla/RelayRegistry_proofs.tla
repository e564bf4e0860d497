------------------------ MODULE RelayRegistry_proofs ------------------------
(***************************************************************************)
(* Theorems about the relay registry: its type invariant, and the two      *)
(* properties a peer relies on, for any number of relays, requests, clock  *)
(* readings and any values of the settings.                                *)
(***************************************************************************)
EXTENDS RelayRegistry, RelayTable_proofs

(***************************************************************************)
(* The slots of the requests.                                              *)
(***************************************************************************)

\* An empty listing is a listing, and idle slots are well formed.
LEMMA EmptyListingType == IsListing(EmptyListing)
  BY DEF IsListing, EmptyListing

LEMMA EmptyCacheType == CacheOK(EmptyCache)
  BY EmptyListingType DEF CacheOK, EmptyCache

LEMMA IdleWriteType == WriteOK(IdleWrite)
  BY DEF WriteOK, IdleWrite, Write, WritePcs, Ops, Refreshes

LEMMA IdleReadType == ReadOK(IdleRead)
  BY EmptyListingType DEF ReadOK, IdleRead, ReadPcs, NoFilter

\* Writing a well formed request to a slot keeps all the slots well formed.
LEMMA WriteSlot ==
  ASSUME WritesOK, NEW w \in Writer, NEW q, WriteOK(q), writes' = [writes EXCEPT ![w] = q]
  PROVE  WritesOK'
  BY DEF WritesOK

LEMMA ReadSlot ==
  ASSUME ReadsOK, NEW r \in Reader, NEW q, ReadOK(q), reads' = [reads EXCEPT ![r] = q]
  PROVE  ReadsOK'
  BY DEF ReadsOK

\* A request that goes to its last phase stays well formed.
LEMMA ToInvalidate ==
  ASSUME NEW q, WriteOK(q), q.pc = "exec"
  PROVE  WriteOK([q EXCEPT !.pc = "invalidate"])
  BY DEF WriteOK, Write, WritePcs, Ops, Refreshes, IdleWrite

\* Answering a write request empties its slot.
LEMMA FinishType ==
  ASSUME WritesOK, NEW w \in Writer, NEW code, Finish(w, code)
  PROVE  WritesOK'
  BY WriteSlot, IdleWriteType DEF Finish

(***************************************************************************)
(* The type invariant.                                                     *)
(***************************************************************************)

LEMMA InitType == Init => TypeOK
<1> SUFFICES ASSUME Init PROVE TypeOK
  OBVIOUS
<1>1. IsRelayTable(relays)
  BY EmptyTableType DEF Init
<1>2. CacheOK(cache)
  BY EmptyCacheType DEF Init
<1>3. WritesOK
  BY IdleWriteType DEF Init, WritesOK
<1>4. ReadsOK
  BY IdleReadType DEF Init, ReadsOK
<1> QED
  BY ParameterAssumption, <1>1, <1>2, <1>3, <1>4 DEF Init, TypeOK, IdleSweep

\* The arrival of a write request leaves the shapes alone.
LEMMA ReceiveWriteType ==
  ASSUME TypeOK, NEW w \in Writer, ReceiveWrite(w)
  PROVE  TypeOK'
<1> USE DEF TypeOK
<1> PICK n \in Node :
        \/ \E e \in Endpoint, a \in Avail :
              \/ \E p \in Profile : ReceiveRegister(w, n, e, a, p)
              \/ \E admin \in BOOLEAN : ReceiveFullHeartbeat(w, n, e, a, admin)
        \/ \E a \in Avail \cup {Unset} : ReceiveHeartbeat(w, n, a)
        \/ ReceiveDelete(w, n)
  BY DEF ReceiveWrite
<1>1. ASSUME NEW e \in Endpoint, NEW a \in Avail, NEW p \in Profile,
             ReceiveRegister(w, n, e, a, p)
      PROVE  TypeOK'
  <2> DEFINE q == [pc |-> "clock", op |-> "POST", node |-> n, endpoint |-> e,
                   avail |-> a, profile |-> p, at |-> 0]
  <2>1. WriteOK(q)
    BY DEF WriteOK, Write, WritePcs, Ops, Refreshes
  <2>2. writes' = writes \/ writes' = [writes EXCEPT ![w] = q]
    BY <1>1 DEF ReceiveRegister, Refuse
  <2>3. WritesOK'
    <3> HIDE DEF q
    <3> QED BY <2>1, <2>2, WriteSlot DEF WritesOK
  <2> QED
    BY <1>1, <2>3 DEF ReceiveRegister, ReadsOK
<1>2. ASSUME NEW e \in Endpoint, NEW a \in Avail, NEW admin \in BOOLEAN,
             ReceiveFullHeartbeat(w, n, e, a, admin)
      PROVE  TypeOK'
  <2> DEFINE q == [pc |-> "lookup", op |-> "PUTv1", node |-> n, endpoint |-> e,
                   avail |-> a, profile |-> Unset, at |-> 0]
  <2>1. WriteOK(q)
    BY DEF WriteOK, Write, WritePcs, Ops, Refreshes
  <2>2. writes' = writes \/ writes' = [writes EXCEPT ![w] = q]
    BY <1>2 DEF ReceiveFullHeartbeat, Refuse
  <2>3. WritesOK'
    <3> HIDE DEF q
    <3> QED BY <2>1, <2>2, WriteSlot DEF WritesOK
  <2> QED
    BY <1>2, <2>3 DEF ReceiveFullHeartbeat, ReadsOK
<1>3. ASSUME NEW a \in Avail \cup {Unset}, ReceiveHeartbeat(w, n, a)
      PROVE  TypeOK'
  <2> DEFINE q == [pc |-> "exec", op |-> "PUT", node |-> n, endpoint |-> Unset,
                   avail |-> a, profile |-> Unset, at |-> now]
  <2>1. WriteOK(q)
    BY DEF WriteOK, Write, WritePcs, Ops, Refreshes
  <2>2. writes' = [writes EXCEPT ![w] = q]
    BY <1>3 DEF ReceiveHeartbeat
  <2>3. WritesOK'
    <3> HIDE DEF q
    <3> QED BY <2>1, <2>2, WriteSlot
  <2> QED
    BY <1>3, <2>3 DEF ReceiveHeartbeat, ReadsOK
<1>4. CASE ReceiveDelete(w, n)
  <2> DEFINE q == [IdleWrite EXCEPT !.pc = "invalidate", !.op = "DELETE", !.node = n]
  <2>1. WriteOK(q)
    BY DEF WriteOK, Write, WritePcs, Ops, Refreshes, IdleWrite
  <2>2. writes' = writes \/ writes' = [writes EXCEPT ![w] = q]
    BY <1>4 DEF ReceiveDelete, Refuse
  <2>3. WritesOK'
    <3> HIDE DEF q
    <3> QED BY <2>1, <2>2, WriteSlot DEF WritesOK
  <2>4. IsRelayTable(relays')
    BY <1>4, DeleteRelayType DEF ReceiveDelete
  <2> QED
    BY <1>4, <2>3, <2>4 DEF ReceiveDelete, ReadsOK
<1> QED
  BY <1>1, <1>2, <1>3, <1>4

\* So does every later step of a write request.
LEMMA WriteStepType ==
  ASSUME TypeOK, NEW w \in Writer, WriteStep(w)
  PROVE  TypeOK'
<1> USE DEF TypeOK
<1>w. WriteOK(writes[w])
  BY DEF WritesOK
<1>1. CASE ReceiveWrite(w)
  BY <1>1, ReceiveWriteType
<1>2. CASE LookUpRelay(w)
  <2> DEFINE q == [writes[w] EXCEPT !.pc = "clock", !.profile = relays[writes[w].node].profile]
  <2>1. CASE writes[w].node \notin DOMAIN relays
    BY <1>2, <2>1, FinishType DEF LookUpRelay, ReadsOK
  <2>2. CASE writes[w].node \in DOMAIN relays
    <3>1. relays[writes[w].node].profile \in Profile
      BY <2>2 DEF IsRelayTable, Relay
    <3>2. WriteOK(q)
      BY <1>2, <1>w, <3>1 DEF LookUpRelay, WriteOK, Write, WritePcs, Ops, Refreshes, IdleWrite
    <3>3. writes' = [writes EXCEPT ![w] = q]
      BY <1>2, <2>2 DEF LookUpRelay
    <3>4. WritesOK'
      <4> HIDE DEF q
      <4> QED BY <3>2, <3>3, WriteSlot
    <3> QED
      BY <1>2, <3>4 DEF LookUpRelay, ReadsOK
  <2> QED
    BY <2>1, <2>2
<1>3. CASE ReadClock(w)
  <2> DEFINE q == [writes[w] EXCEPT !.pc = "exec", !.at = now]
  <2>1. WriteOK(q)
    BY <1>3, <1>w DEF ReadClock, WriteOK, Write, WritePcs, Ops, Refreshes, IdleWrite
  <2>2. writes' = [writes EXCEPT ![w] = q]
    BY <1>3 DEF ReadClock
  <2>3. WritesOK'
    <3> HIDE DEF q
    <3> QED BY <2>1, <2>2, WriteSlot
  <2> QED
    BY <1>3, <2>3 DEF ReadClock, ReadsOK
<1> DEFINE q == [writes[w] EXCEPT !.pc = "invalidate"]
<1>inv. ASSUME writes[w].pc = "exec", WritePc(w, "invalidate")
        PROVE  WritesOK'
  <2>1. WriteOK(q)
    BY <1>w, <1>inv, ToInvalidate
  <2>2. writes' = [writes EXCEPT ![w] = q]
    BY <1>inv DEF WritePc
  <2> HIDE DEF q
  <2> QED BY <2>1, <2>2, WriteSlot
<1>4. CASE ExecUpsert(w)
  <2>1. WritesOK'
    BY <1>4, <1>inv DEF ExecUpsert
  <2>2. IsRelayTable(relays')
    <3>1. /\ writes[w].node \in Node /\ writes[w].endpoint \in Endpoint
          /\ writes[w].avail \in Avail /\ writes[w].profile \in Profile /\ writes[w].at \in Nat
      BY <1>4, <1>w DEF ExecUpsert, WriteOK, Write
    <3>2. PICK created \in Nat :
            relays' = UpsertRelay(relays, writes[w].node, writes[w].endpoint, writes[w].avail,
                                  writes[w].profile, writes[w].at, created)
      BY <1>4, <3>1 DEF ExecUpsert
    <3> QED BY <3>1, <3>2, UpsertRelayType
  <2> QED
    BY <1>4, <2>1, <2>2 DEF ExecUpsert, ReadsOK
<1>5. CASE ExecHeartbeat(w)
  <2>1. CASE writes[w].node \notin DOMAIN relays
    BY <1>5, <2>1, FinishType DEF ExecHeartbeat, ReadsOK
  <2>2. CASE writes[w].node \in DOMAIN relays
    <3>1. WritesOK'
      BY <1>5, <1>inv, <2>2 DEF ExecHeartbeat
    <3>2. writes[w].avail \in Avail \cup {Unset} /\ writes[w].at \in Nat
      BY <1>w DEF WriteOK, Write
    <3>3. IsRelayTable(relays')
      BY <1>5, <2>2, <3>2, UpdateRelayHeartbeatType DEF ExecHeartbeat
    <3> QED
      BY <1>5, <3>1, <3>3 DEF ExecHeartbeat, ReadsOK
  <2> QED
    BY <2>1, <2>2
<1>6. CASE ExecFullHeartbeat(w)
  <2>1. CASE writes[w].node \notin DOMAIN relays
    BY <1>6, <2>1, FinishType DEF ExecFullHeartbeat, ReadsOK
  <2>2. CASE writes[w].node \in DOMAIN relays
    <3>1. WritesOK'
      BY <1>6, <1>inv, <2>2 DEF ExecFullHeartbeat
    <3>2. writes[w].endpoint \in Endpoint /\ writes[w].avail \in Avail /\ writes[w].at \in Nat
      BY <1>6, <1>w DEF ExecFullHeartbeat, WriteOK, Write
    <3>3. IsRelayTable(relays')
      BY <1>6, <2>2, <3>2, UpdateRelayFullType DEF ExecFullHeartbeat
    <3> QED
      BY <1>6, <3>1, <3>3 DEF ExecFullHeartbeat, ReadsOK
  <2> QED
    BY <2>1, <2>2
<1>7. CASE WriteFails(w)
  BY <1>7, FinishType DEF WriteFails, ReadsOK
<1>8. CASE Invalidate(w)
  BY <1>8, FinishType DEF Invalidate, ReadsOK, CacheOK
<1> QED
  BY <1>1, <1>2, <1>3, <1>4, <1>5, <1>6, <1>7, <1>8 DEF WriteStep

\* A step of a GET that fills neither the cache nor anything but its own slot.
LEMMA ReadFrame ==
  ASSUME TypeOK, ReadsOK', UNCHANGED <<now, nodes, relays, cache, writes, sweep>>
  PROVE  TypeOK'
  BY DEF TypeOK, WritesOK

\* So does every step of a GET.
LEMMA ReadStepType ==
  ASSUME TypeOK, NEW r \in Reader, ReadStep(r)
  PROVE  TypeOK'
<1> USE DEF TypeOK
<1>r. ReadOK(reads[r])
  BY DEF ReadsOK
<1>1. ASSUME NEW f \in Filters \cup {NoFilter}, ReceiveList(r, f)
      PROVE  TypeOK'
  <2> DEFINE q == [IdleRead EXCEPT !.pc = "clock", !.filter = f, !.start = now]
  <2>1. f \in [since: Nat, minAvail: Nat]
    BY ParameterAssumption DEF NoFilter
  <2>2. ReadOK(q)
    BY <2>1, IdleReadType DEF ReadOK, ReadPcs
  <2>3. reads' = reads \/ reads' = [reads EXCEPT ![r] = q]
    BY <1>1 DEF ReceiveList
  <2>4. ReadsOK'
    <3> HIDE DEF q
    <3> QED BY <2>2, <2>3, ReadSlot DEF ReadsOK
  <2> QED
    BY <1>1, <2>4, ReadFrame DEF ReceiveList
<1>2. CASE ReadCutoff(r)
  <2> DEFINE q == [reads[r] EXCEPT !.pc = "count", !.cutoff = now - RelayTTL]
  <2>1. now - RelayTTL \in Int
    BY ParameterAssumption
  <2>2. ReadOK(q)
    BY <1>r, <2>1 DEF ReadOK, ReadPcs
  <2>3. reads' = [reads EXCEPT ![r] = q]
    BY <1>2 DEF ReadCutoff
  <2>4. ReadsOK'
    <3> HIDE DEF q
    <3> QED BY <2>2, <2>3, ReadSlot
  <2> QED
    BY <1>2, <2>4, ReadFrame DEF ReadCutoff
<1>3. CASE CountRows(r)
  <2> DEFINE count == Cardinality(Eligible(relays, reads[r].cutoff,
                                           reads[r].filter.since, reads[r].filter.minAvail))
             q == [reads[r] EXCEPT !.pc = "select", !.total = count]
  <2>1. count \in Nat
    BY EligibleCount
  <2>2. reads' = [reads EXCEPT ![r] = q]
    BY <1>3 DEF CountRows
  <2> HIDE DEF count
  <2>3. ReadOK(q)
    BY <1>r, <2>1 DEF ReadOK, ReadPcs
  <2>4. ReadsOK'
    <3> HIDE DEF q
    <3> QED BY <2>2, <2>3, ReadSlot
  <2> QED
    BY <1>3, <2>4, ReadFrame DEF CountRows
<1>4. CASE SelectRows(r)
  <2>1. PICK list \in Listings(relays, reads[r].cutoff, reads[r].filter.since,
                               reads[r].filter.minAvail, MaxRelays) :
           reads' = [reads EXCEPT ![r].pc = "respond", ![r].list = list]
    BY <1>4 DEF SelectRows
  <2> DEFINE q == [reads[r] EXCEPT !.pc = "respond", !.list = list]
  <2>2. IsListing(list)
    BY ListingsFresh DEF IsListing, IsRelayTable, Relay
  <2>3. ReadOK(q)
    BY <1>r, <2>2 DEF ReadOK, ReadPcs
  <2>4. reads' = [reads EXCEPT ![r] = q]
    BY <2>1
  <2>5. ReadsOK'
    <3> HIDE DEF q
    <3> QED BY <2>3, <2>4, ReadSlot
  <2> QED
    BY <1>4, <2>5, ReadFrame DEF SelectRows
<1>5. CASE ReadFails(r)
  <2>1. ReadsOK'
    BY <1>5, IdleReadType, ReadSlot DEF ReadFails
  <2> QED
    BY <1>5, <2>1, ReadFrame DEF ReadFails
<1>6. CASE Respond(r)
  <2>1. ReadsOK'
    BY <1>6, IdleReadType, ReadSlot DEF Respond
  <2>2. CacheOK(cache')
    <3>1. CASE reads[r].filter = NoFilter
      <4>1. IsListing(reads[r].list) /\ reads[r].total \in Nat
        BY <1>r DEF ReadOK
      <4>2. cache' = [hasCached |-> TRUE, cachedAt |-> now,
                      list |-> reads[r].list, total |-> reads[r].total]
        BY <1>6, <3>1 DEF Respond, CacheSet
      <4> QED BY <4>1, <4>2 DEF CacheOK
    <3>2. CASE reads[r].filter # NoFilter
      BY <1>6, <3>2 DEF Respond
    <3> QED BY <3>1, <3>2
  <2> QED
    BY <1>6, <2>1, <2>2 DEF Respond, WritesOK
<1> QED
  BY <1>1, <1>2, <1>3, <1>4, <1>5, <1>6 DEF ReadStep

\* So does every step of the clean-up.
LEMMA SweepStepType ==
  ASSUME TypeOK, SweepStep
  PROVE  TypeOK'
<1> USE DEF TypeOK
<1>1. IsRelayTable(relays')
  BY MarkUnreachableType, EvictExpiredType DEF SweepStep, StartSweep, SweepMark, SweepEvict, SweepFails
<1>2. sweep' \in [pc: {"idle", "mark", "evict"}, at: Nat]
  BY DEF SweepStep, StartSweep, SweepMark, SweepEvict, SweepFails, IdleSweep
<1> QED
  BY <1>1, <1>2 DEF SweepStep, StartSweep, SweepMark, SweepEvict, SweepFails,
                    WritesOK, ReadsOK

LEMMA RestartType ==
  ASSUME TypeOK, Restart
  PROVE  TypeOK'
<1>1. WritesOK' /\ ReadsOK' /\ CacheOK(cache')
  BY IdleWriteType, IdleReadType, EmptyCacheType DEF Restart, WritesOK, ReadsOK
<1> QED
  BY <1>1 DEF Restart, TypeOK, IdleSweep

LEMMA StepType == TypeOK /\ [Next]_vars => TypeOK'
<1> SUFFICES ASSUME TypeOK, [Next]_vars PROVE TypeOK'
  OBVIOUS
<1>1. ASSUME NEW w \in Writer, WriteStep(w) PROVE TypeOK'
  BY <1>1, WriteStepType
<1>2. ASSUME NEW r \in Reader, ReadStep(r) PROVE TypeOK'
  BY <1>2, ReadStepType
<1>3. CASE SweepStep
  BY <1>3, SweepStepType
<1>4. CASE Tick
  BY <1>4 DEF Tick, TypeOK, WritesOK, ReadsOK
<1>5. CASE Restart
  BY <1>5, RestartType
<1>6. CASE Elsewhere
  BY <1>6, ParameterAssumption DEF Elsewhere, TypeOK, WritesOK, ReadsOK
<1>7. CASE UNCHANGED vars
  BY <1>7 DEF vars, TypeOK, WritesOK, ReadsOK
<1> QED
  BY <1>1, <1>2, <1>3, <1>4, <1>5, <1>6, <1>7 DEF Next

\* Every variable keeps its shape: the table rows, what a request holds in each
\* phase (so that ExecUpsert and ExecFullHeartbeat always have the fields they
\* write), the listing in the cache.
THEOREM RegistryTypeOK == Spec => []TypeOK
  BY InitType, StepType, PTL DEF Spec

(***************************************************************************)
(* The age of what a peer is served.  A listing is as old as the cut-off   *)
(* of the request that made it, which is not much older than the request:  *)
(* that is what a request holds, and what it leaves in the cache.          *)
(***************************************************************************)

ReadAge(q) ==
    q.pc # "idle" =>
        /\ q.start <= now /\ now - q.start <= MaxLatency
        /\ q.pc \in {"count", "select", "respond"} => q.cutoff >= q.start - RelayTTL
        /\ q.pc = "respond" => \A n \in DOMAIN q.list : q.list[n] >= q.cutoff

CacheAge ==
    cache.hasCached =>
        /\ cache.cachedAt <= now
        /\ \A n \in DOMAIN cache.list :
              cache.list[n] >= cache.cachedAt - (RelayTTL + MaxLatency)

AgeInv == CacheAge /\ (\A r \in Reader : ReadAge(reads[r])) /\ ServedStaleness

LEMMA InitAge == Init => AgeInv
  BY DEF Init, AgeInv, CacheAge, ReadAge, EmptyCache, IdleRead, ServedStaleness, IsList, NoReply

\* A step that answers no listing leaves ServedStaleness true.
LEMMA NoListing ==
  ASSUME ~IsList' PROVE ServedStaleness'
  BY DEF ServedStaleness

\* A write request answers no listing and can only drop the cache entry.
LEMMA WriteStepAge ==
  ASSUME TypeOK, AgeInv, NEW w \in Writer, WriteStep(w)
  PROVE  AgeInv'
<1>1. UNCHANGED <<now, reads>> /\ cache.cachedAt' = cache.cachedAt
      /\ cache.list' = cache.list /\ (cache.hasCached' => cache.hasCached)
  BY DEF TypeOK, CacheOK, WriteStep, ReceiveWrite, ReceiveRegister, ReceiveFullHeartbeat,
         ReceiveHeartbeat, ReceiveDelete, LookUpRelay, ReadClock, ExecUpsert, ExecHeartbeat,
         ExecFullHeartbeat, WriteFails, Invalidate
<1>2. writes[w].op # "GET"
  BY DEF TypeOK, WritesOK, WriteOK, Write, Ops, Refreshes
<1>3. reply' = NoReply \/ \E op, n, code : op # "GET" /\ reply' = Answer(op, n, code)
  <2>1. CASE ReceiveWrite(w)
    <3>1. reply' = NoReply \/ \E op \in {"POST", "PUTv1", "DELETE"}, n \in Node, code \in {401, 404, 500} :
                                 Refuse(op, n, code)
      BY <2>1 DEF ReceiveWrite, ReceiveRegister, ReceiveFullHeartbeat, ReceiveHeartbeat,
                  ReceiveDelete
    <3> QED BY <3>1 DEF Refuse
  <2>2. CASE ~ReceiveWrite(w)
    <3>1. reply' = NoReply \/ \E code : Finish(w, code)
      BY <2>2 DEF WriteStep, LookUpRelay, ReadClock, ExecUpsert, ExecHeartbeat,
                  ExecFullHeartbeat, WriteFails, Invalidate
    <3> QED BY <1>2, <3>1 DEF Finish
  <2> QED BY <2>1, <2>2
<1>4. ServedStaleness'
  BY <1>3, NoListing DEF IsList, NoReply, Answer
<1> QED
  BY <1>1, <1>4 DEF AgeInv, CacheAge, ReadAge

\* A GET that is young enough after its own step leaves all of them so.
LEMMA ReadSlotAge ==
  ASSUME ReadsOK, \A s \in Reader : ReadAge(reads[s]), NEW r \in Reader, NEW q, ReadAge(q),
         now' = now, reads' = [reads EXCEPT ![r] = q]
  PROVE  \A s \in Reader : ReadAge(reads[s])'
  BY DEF ReadsOK, ReadAge

LEMMA ReadStepAge ==
  ASSUME TypeOK, AgeInv, NEW r \in Reader, ReadStep(r)
  PROVE  AgeInv'
<1> USE DEF AgeInv
<1>t. /\ now \in Nat /\ RelayTTL \in Nat /\ CacheTTL \in Nat /\ MaxLatency \in Nat
      /\ CacheOK(cache) /\ ReadOK(reads[r])
      /\ ReadsOK
  BY ParameterAssumption DEF TypeOK, ReadsOK
<1>a. ReadAge(reads[r])
  OBVIOUS
<1>1. ASSUME NEW f \in Filters \cup {NoFilter}, ReceiveList(r, f)
      PROVE  AgeInv'
  <2>1. CASE f = NoFilter /\ CacheHit
    <3>1. reply' = ListAnswer(cache.list, cache.total, TRUE) /\ UNCHANGED <<now, cache, reads>>
      BY <1>1, <2>1 DEF ReceiveList
    <3>2. cache.cachedAt \in Nat /\ IsListing(cache.list)
      BY <1>t DEF CacheOK
    <3>3. ASSUME NEW n \in DOMAIN cache.list
          PROVE  cache.list[n] >= now - (RelayTTL + CacheTTL + MaxLatency)
      <4>1. cache.list[n] \in Nat
        BY <3>2 DEF IsListing
      <4>2. /\ now - cache.cachedAt <= CacheTTL
            /\ cache.list[n] >= cache.cachedAt - (RelayTTL + MaxLatency)
        BY <2>1 DEF CacheHit, CacheAge
      <4> QED BY <1>t, <3>2, <4>1, <4>2
    <3>4. ServedStaleness'
      BY <3>1, <3>3 DEF ServedStaleness, ListAnswer
    <3> QED BY <3>1, <3>4 DEF CacheAge, ReadAge
  <2>2. CASE ~(f = NoFilter /\ CacheHit)
    <3> DEFINE q == [IdleRead EXCEPT !.pc = "clock", !.filter = f, !.start = now]
    <3>1. /\ reads' = [reads EXCEPT ![r] = q] /\ UNCHANGED <<now, cache>>
          /\ reply' = NoReply
      BY <1>1, <2>2 DEF ReceiveList
    <3>2. q.pc = "clock" /\ q.start = now
      BY DEF IdleRead
    <3>3. ReadAge(q)
      BY <1>t, <3>1, <3>2 DEF ReadAge
    <3> HIDE DEF q
    <3>4. \A s \in Reader : ReadAge(reads[s])'
      BY <1>t, <3>1, <3>3, ReadSlotAge
    <3>5. ServedStaleness'
      BY <3>1, NoListing DEF IsList, NoReply
    <3> QED BY <3>1, <3>4, <3>5 DEF CacheAge
  <2> QED BY <2>1, <2>2
<1>2. CASE ReadCutoff(r)
  <2> DEFINE q == [reads[r] EXCEPT !.pc = "count", !.cutoff = now - RelayTTL]
  <2>1. /\ reads' = [reads EXCEPT ![r] = q] /\ UNCHANGED <<now, cache>>
        /\ reply' = NoReply /\ reads[r].pc = "clock"
    BY <1>2 DEF ReadCutoff
  <2>2. q.pc = "count" /\ q.start = reads[r].start /\ q.cutoff = now - RelayTTL
        /\ q.start \in Nat
    BY <1>t DEF ReadOK
  <2> HIDE DEF q
  <2>3. ReadAge(q)
    BY <1>t, <1>a, <2>1, <2>2 DEF ReadAge
  <2>4. \A s \in Reader : ReadAge(reads[s])'
    BY <1>t, <2>1, <2>3, ReadSlotAge
  <2>5. ServedStaleness'
    BY <2>1, NoListing DEF IsList, NoReply
  <2> QED BY <2>1, <2>4, <2>5 DEF CacheAge
<1>3. CASE CountRows(r)
  <2> DEFINE count == Cardinality(Eligible(relays, reads[r].cutoff,
                                           reads[r].filter.since, reads[r].filter.minAvail))
             q == [reads[r] EXCEPT !.pc = "select", !.total = count]
  <2>1. /\ reads' = [reads EXCEPT ![r] = q] /\ UNCHANGED <<now, cache>>
        /\ reply' = NoReply /\ reads[r].pc = "count"
    BY <1>3 DEF CountRows
  <2> HIDE DEF count
  <2>2. q.pc = "select" /\ q.start = reads[r].start /\ q.cutoff = reads[r].cutoff
    BY <1>t DEF ReadOK
  <2> HIDE DEF q
  <2>3. ReadAge(q)
    BY <1>t, <1>a, <2>1, <2>2 DEF ReadAge
  <2>4. \A s \in Reader : ReadAge(reads[s])'
    BY <1>t, <2>1, <2>3, ReadSlotAge
  <2>5. ServedStaleness'
    BY <2>1, NoListing DEF IsList, NoReply
  <2> QED BY <2>1, <2>4, <2>5 DEF CacheAge
<1>4. CASE SelectRows(r)
  <2>1. PICK list \in Listings(relays, reads[r].cutoff, reads[r].filter.since,
                               reads[r].filter.minAvail, MaxRelays) :
           reads' = [reads EXCEPT ![r].pc = "respond", ![r].list = list]
    BY <1>4 DEF SelectRows
  <2> DEFINE q == [reads[r] EXCEPT !.pc = "respond", !.list = list]
  <2>2. /\ reads' = [reads EXCEPT ![r] = q] /\ UNCHANGED <<now, cache>>
        /\ reply' = NoReply /\ reads[r].pc = "select"
    BY <1>4, <2>1 DEF SelectRows
  <2>3. q.pc = "respond" /\ q.start = reads[r].start /\ q.cutoff = reads[r].cutoff
        /\ q.list = list
    BY <1>t DEF ReadOK
  <2> HIDE DEF q
  <2>4. \A n \in DOMAIN list : list[n] >= q.cutoff
    BY <2>3, ListingsFresh DEF TypeOK
  <2>5. ReadAge(q)
    BY <1>t, <1>a, <2>2, <2>3, <2>4 DEF ReadAge
  <2>6. \A s \in Reader : ReadAge(reads[s])'
    BY <1>t, <2>2, <2>5, ReadSlotAge
  <2>7. ServedStaleness'
    BY <2>2, NoListing DEF IsList, NoReply
  <2> QED BY <2>2, <2>6, <2>7 DEF CacheAge
<1>5. CASE ReadFails(r)
  <2>1. \A s \in Reader : ReadAge(reads[s])'
    BY <1>t, <1>5 DEF ReadFails, ReadsOK, ReadAge, IdleRead
  <2>2. ServedStaleness'
    BY <1>5, NoListing DEF ReadFails, IsList, Answer
  <2> QED BY <1>5, <2>1, <2>2 DEF ReadFails, CacheAge
<1>6. CASE Respond(r)
  <2>1. \A s \in Reader : ReadAge(reads[s])'
    BY <1>t, <1>6 DEF Respond, ReadsOK, ReadAge, IdleRead
  <2>2. /\ reads[r].start \in Nat /\ reads[r].cutoff \in Int /\ IsListing(reads[r].list)
    BY <1>t DEF ReadOK
  <2>3. ASSUME NEW n \in DOMAIN reads[r].list
        PROVE  /\ reads[r].list[n] >= now - (RelayTTL + MaxLatency)
               /\ reads[r].list[n] >= now - (RelayTTL + CacheTTL + MaxLatency)
    <3>1. reads[r].list[n] \in Nat
      BY <2>2 DEF IsListing
    <3>2. /\ now - reads[r].start <= MaxLatency
          /\ reads[r].cutoff >= reads[r].start - RelayTTL
          /\ reads[r].list[n] >= reads[r].cutoff
      BY <1>6, <1>a DEF Respond, ReadAge
    <3> QED BY <1>t, <2>2, <3>1, <3>2
  <2>4. now' = now /\ reply' = ListAnswer(reads[r].list, reads[r].total, FALSE)
    BY <1>6 DEF Respond
  <2>5. ServedStaleness'
    BY <2>3, <2>4 DEF ServedStaleness, ListAnswer
  <2>6. CacheAge'
    <3>1. CASE reads[r].filter = NoFilter
      <4>1. cache' = [hasCached |-> TRUE, cachedAt |-> now,
                      list |-> reads[r].list, total |-> reads[r].total]
        BY <1>6, <3>1 DEF Respond, CacheSet
      <4> QED BY <1>t, <2>3, <2>4, <4>1 DEF CacheAge
    <3>2. CASE reads[r].filter # NoFilter
      BY <1>6, <2>4, <3>2 DEF Respond, CacheAge
    <3> QED BY <3>1, <3>2
  <2> QED BY <2>1, <2>5, <2>6
<1> QED
  BY <1>1, <1>2, <1>3, <1>4, <1>5, <1>6 DEF ReadStep

LEMMA StepAge == TypeOK /\ AgeInv /\ [Next]_vars => AgeInv'
<1> SUFFICES ASSUME TypeOK, AgeInv, [Next]_vars PROVE AgeInv'
  OBVIOUS
<1>1. ASSUME NEW w \in Writer, WriteStep(w) PROVE AgeInv'
  BY <1>1, WriteStepAge
<1>2. ASSUME NEW r \in Reader, ReadStep(r) PROVE AgeInv'
  BY <1>2, ReadStepAge
<1>3. CASE SweepStep
  <2>1. UNCHANGED <<now, cache, reads>> /\ reply' = NoReply
    BY <1>3 DEF SweepStep, StartSweep, SweepMark, SweepEvict, SweepFails
  <2> QED BY <2>1 DEF AgeInv, CacheAge, ReadAge, ServedStaleness, IsList, NoReply
<1>4. CASE Tick
  <2>1. /\ now' = now + 1 /\ UNCHANGED <<cache, reads>> /\ reply' = NoReply
        /\ now \in Nat /\ MaxLatency \in Nat /\ cache.cachedAt \in Nat
        /\ \A r \in Reader : reads[r].start \in Nat
    BY <1>4, ParameterAssumption DEF Tick, TypeOK, ReadsOK, ReadOK, CacheOK
  <2>2. CacheAge'
    BY <2>1 DEF AgeInv, CacheAge
  <2>3. \A r \in Reader : ReadAge(reads[r])'
    BY <1>4, <2>1 DEF Tick, AgeInv, ReadAge
  <2>4. ServedStaleness'
    BY <2>1, NoListing DEF IsList, NoReply
  <2> QED BY <2>2, <2>3, <2>4 DEF AgeInv
<1>5. CASE Restart
  BY <1>5 DEF Restart, AgeInv, CacheAge, ReadAge, EmptyCache, IdleRead,
              ServedStaleness, IsList, NoReply
<1>6. CASE Elsewhere
  BY <1>6 DEF Elsewhere, AgeInv, CacheAge, ReadAge, ServedStaleness, IsList, NoReply
<1>7. CASE UNCHANGED vars
  BY <1>7 DEF vars, AgeInv, CacheAge, ReadAge, ServedStaleness, IsList
<1> QED
  BY <1>1, <1>2, <1>3, <1>4, <1>5, <1>6, <1>7 DEF Next

\* However a GET /relays is answered, from the cache or from the table, and
\* whatever overlaps it, no relay in the answer has been silent for longer than
\* RelayTTL + CacheTTL + MaxLatency.
THEOREM StalenessBounded == Spec => []ServedStaleness
<1>1. Init => TypeOK /\ AgeInv
  BY InitType, InitAge
<1>2. TypeOK /\ AgeInv /\ [Next]_vars => TypeOK' /\ AgeInv'
  BY StepType, StepAge
<1>3. AgeInv => ServedStaleness
  BY DEF AgeInv
<1> QED
  BY <1>1, <1>2, <1>3, PTL DEF Spec

(***************************************************************************)
(* Online and listed.  A suspended relay is one that was silent for        *)
(* RelayTTL when the clock of the sweep was read, and is so ever since: a  *)
(* row is suspended only by SweepMark and every write makes it active.     *)
(***************************************************************************)

SuspendedAreSilent ==
    \A n \in DOMAIN relays :
        relays[n].status = "unreachable" => relays[n].lastSeen < now - RelayTTL

SilenceInv == SuspendedAreSilent /\ sweep.at <= now

LEMMA InitSilence == Init => SilenceInv
  BY DEF Init, SilenceInv, SuspendedAreSilent, IdleSweep

\* Every row a write request leaves behind was there before, or is active.
LEMMA WriteStepRows ==
  ASSUME TypeOK, NEW w \in Writer, WriteStep(w), NEW m \in DOMAIN relays'
  PROVE  relays'[m].status = "active" \/ (m \in DOMAIN relays /\ relays'[m] = relays[m])
<1>t. IsRelayTable(relays)
  BY DEF TypeOK
<1>1. CASE UNCHANGED relays
  BY <1>1
<1>2. CASE \E n \in Node : ReceiveDelete(w, n)
  BY <1>2, DeleteRelayRows DEF ReceiveDelete
<1>3. CASE ExecUpsert(w)
  BY <1>3, UpsertRelayRows DEF ExecUpsert
<1>4. CASE ExecHeartbeat(w)
  BY <1>t, <1>4, UpdateRelayHeartbeatRows DEF ExecHeartbeat
<1>5. CASE ExecFullHeartbeat(w)
  BY <1>t, <1>5, UpdateRelayFullRows DEF ExecFullHeartbeat
<1> QED
  BY <1>1, <1>2, <1>3, <1>4, <1>5
  DEF WriteStep, ReceiveWrite, ReceiveRegister, ReceiveFullHeartbeat, ReceiveHeartbeat,
      LookUpRelay, ReadClock, WriteFails, Invalidate

LEMMA StepSilence == TypeOK /\ SilenceInv /\ [Next]_vars => SilenceInv'
<1> SUFFICES ASSUME TypeOK, SilenceInv, [Next]_vars PROVE SilenceInv'
  OBVIOUS
<1>t. /\ now \in Nat /\ RelayTTL \in Nat /\ sweep.at \in Nat
      /\ \A n \in DOMAIN relays : relays[n].lastSeen \in Nat
  BY ParameterAssumption DEF TypeOK, IsRelayTable, Relay
<1>1. ASSUME NEW w \in Writer, WriteStep(w) PROVE SilenceInv'
  <2>1. UNCHANGED <<now, sweep>>
    BY <1>1 DEF WriteStep, ReceiveWrite, ReceiveRegister, ReceiveFullHeartbeat,
                ReceiveHeartbeat, ReceiveDelete, LookUpRelay, ReadClock, ExecUpsert,
                ExecHeartbeat, ExecFullHeartbeat, WriteFails, Invalidate
  <2> QED
    BY <1>1, <2>1, WriteStepRows DEF SilenceInv, SuspendedAreSilent
<1>2. ASSUME NEW r \in Reader, ReadStep(r) PROVE SilenceInv'
  <2>1. UNCHANGED <<now, relays, sweep>>
    BY <1>2 DEF ReadStep, ReceiveList, ReadCutoff, CountRows, SelectRows, ReadFails, Respond
  <2> QED
    BY <2>1 DEF SilenceInv, SuspendedAreSilent
<1>3. CASE SweepStep
  <2>1. CASE StartSweep
    BY <1>t, <2>1 DEF StartSweep, SilenceInv, SuspendedAreSilent
  <2>2. CASE SweepMark
    <3>1. UNCHANGED now /\ sweep'.at = sweep.at
      BY <2>2 DEF SweepMark, TypeOK
    <3>2. ASSUME NEW n \in DOMAIN relays', relays'[n].status = "unreachable"
          PROVE  relays'[n].lastSeen < now - RelayTTL
      <4>1. n \in DOMAIN relays /\ relays[n] \in Relay
        BY <2>2 DEF SweepMark, MarkUnreachable, TypeOK, IsRelayTable
      <4>2. CASE relays[n].status = "active" /\ relays[n].lastSeen < sweep.at - RelayTTL
        <5>1. relays'[n].lastSeen = relays[n].lastSeen
          BY <2>2, <4>1, <4>2 DEF SweepMark, MarkUnreachable, Relay
        <5> QED
          BY <1>t, <4>1, <4>2, <5>1 DEF SilenceInv
      <4>3. CASE ~(relays[n].status = "active" /\ relays[n].lastSeen < sweep.at - RelayTTL)
        <5>1. relays'[n] = relays[n]
          BY <2>2, <4>1, <4>3 DEF SweepMark, MarkUnreachable
        <5> QED
          BY <3>2, <4>1, <5>1 DEF SilenceInv, SuspendedAreSilent
      <4> QED
        BY <4>2, <4>3
    <3> QED
      BY <3>1, <3>2 DEF SilenceInv, SuspendedAreSilent
  <2>3. CASE SweepEvict
    BY <1>t, <2>3 DEF SweepEvict, EvictExpired, IdleSweep, SilenceInv, SuspendedAreSilent
  <2>4. CASE SweepFails
    BY <1>t, <2>4 DEF SweepFails, IdleSweep, SilenceInv, SuspendedAreSilent
  <2> QED
    BY <1>3, <2>1, <2>2, <2>3, <2>4 DEF SweepStep
<1>4. CASE Tick
  BY <1>t, <1>4 DEF Tick, SilenceInv, SuspendedAreSilent
<1>5. CASE Restart
  BY <1>t, <1>5 DEF Restart, IdleSweep, SilenceInv, SuspendedAreSilent
<1>6. CASE Elsewhere \/ UNCHANGED vars
  BY <1>6 DEF Elsewhere, vars, SilenceInv, SuspendedAreSilent
<1> QED
  BY <1>1, <1>2, <1>3, <1>4, <1>5, <1>6 DEF Next

\* A relay the node status endpoint reports online is one an unfiltered listing
\* made now would include, when the online threshold is at most the relay TTL.
THEOREM OnlineRelaysListed == Spec => []OnlineIsListed
<1>1. Init => TypeOK /\ SilenceInv
  BY InitType, InitSilence
<1>2. TypeOK /\ SilenceInv /\ [Next]_vars => TypeOK' /\ SilenceInv'
  BY StepType, StepSilence
<1>3. TypeOK /\ SilenceInv => OnlineIsListed
  <2> SUFFICES ASSUME TypeOK, SilenceInv, OnlineThreshold <= RelayTTL,
                      NEW n \in Node, IsNodeOnline(n)
               PROVE  IsFresh(relays[n], now - RelayTTL)
    BY DEF OnlineIsListed
  <2>1. n \in DOMAIN relays /\ relays[n] \in Relay
    BY DEF IsNodeOnline, TypeOK, IsRelayTable
  <2>2. relays[n].lastSeen \in Nat /\ relays[n].status \in RelayStatus
    BY <2>1 DEF Relay
  <2>3. relays[n].lastSeen >= now - RelayTTL
    BY <2>2, ParameterAssumption DEF IsNodeOnline, TypeOK
  <2>4. relays[n].status = "active"
    BY <2>1, <2>2, <2>3, ParameterAssumption
    DEF SilenceInv, SuspendedAreSilent, RelayStatus, TypeOK
  <2> QED
    BY <2>3, <2>4 DEF IsFresh
<1> QED
  BY <1>1, <1>2, <1>3, PTL DEF Spec

(***************************************************************************)
(* What a registration wrote stays.                                        *)
(***************************************************************************)

LEMMA WriteStepKeeps ==
  ASSUME TypeOK, NEW w \in Writer, WriteStep(w)
  PROVE  KeepsRegistration
<1>t. /\ relays = [n \in DOMAIN relays |-> relays[n]]
      /\ \A n \in DOMAIN relays : relays[n] \in Relay
  BY DEF TypeOK, IsRelayTable
<1>1. CASE UNCHANGED relays
  BY <1>1 DEF KeepsRegistration
<1>2. CASE \E n \in Node : ReceiveDelete(w, n)
  BY <1>2, DeleteRelayRows DEF ReceiveDelete, KeepsRegistration
<1>3. CASE ExecUpsert(w)
  BY <1>3 DEF ExecUpsert, UpsertRelay, KeepsRegistration
<1>4. CASE ExecHeartbeat(w)
  <2>1. ASSUME NEW n \in DOMAIN relays \cap DOMAIN relays'
        PROVE  relays'[n].created = relays[n].created /\ relays'[n].profile = relays[n].profile
    BY <1>4, UpdateRelayHeartbeatKeeps DEF TypeOK, ExecHeartbeat
  <2> QED
    BY <2>1 DEF KeepsRegistration
<1>5. CASE ExecFullHeartbeat(w)
  <2>1. ASSUME NEW n \in DOMAIN relays \cap DOMAIN relays'
        PROVE  relays'[n].created = relays[n].created /\ relays'[n].profile = relays[n].profile
    BY <1>5, UpdateRelayFullKeeps DEF TypeOK, ExecFullHeartbeat
  <2> QED
    BY <2>1 DEF KeepsRegistration
<1> QED
  BY <1>1, <1>2, <1>3, <1>4, <1>5
  DEF WriteStep, ReceiveWrite, ReceiveRegister, ReceiveFullHeartbeat, ReceiveHeartbeat,
      LookUpRelay, ReadClock, WriteFails, Invalidate

LEMMA SweepStepKeeps ==
  ASSUME TypeOK, SweepStep
  PROVE  KeepsRegistration
<1>1. ASSUME NEW n \in DOMAIN relays \cap DOMAIN relays'
      PROVE  relays'[n].created = relays[n].created /\ relays'[n].profile = relays[n].profile
  BY DEF TypeOK, IsRelayTable, Relay, SweepStep, StartSweep, SweepMark, SweepEvict, SweepFails,
         MarkUnreachable, EvictExpired
<1> QED
  BY <1>1 DEF KeepsRegistration

\* No step but the statement of a registration changes what a registration
\* wrote, and none the created_at of a relay that stays registered.
THEOREM RegistrationsKept == Spec => RegistrationKept
<1>1. TypeOK /\ [Next]_vars => [KeepsRegistration]_vars
  <2> SUFFICES ASSUME TypeOK, [Next]_vars PROVE [KeepsRegistration]_vars
    OBVIOUS
  <2>1. ASSUME NEW w \in Writer, WriteStep(w) PROVE KeepsRegistration
    BY <2>1, WriteStepKeeps
  <2>2. CASE SweepStep
    BY <2>2, SweepStepKeeps
  <2>3. ASSUME UNCHANGED relays PROVE KeepsRegistration
    BY <2>3 DEF KeepsRegistration
  <2>4. ASSUME NEW r \in Reader, ReadStep(r) PROVE UNCHANGED relays
    BY <2>4 DEF ReadStep, ReceiveList, ReadCutoff, CountRows, SelectRows, ReadFails, Respond
  <2> QED
    BY <2>1, <2>2, <2>3, <2>4 DEF Next, Tick, Restart, Elsewhere
<1> QED
  BY <1>1, RegistryTypeOK, PTL DEF Spec, RegistrationKept

=============================================================================
