------------------------ MODULE RelayConsistency_proofs ------------------------
(***************************************************************************)
(* The cached listing is coherent with the table, for any numbers of       *)
(* relays, requests and concurrent fills, and any limit on a response.     *)
(*                                                                         *)
(* A listing is as stored when it is selected (ListingAsStored).  What the *)
(* clock and the clean-up do afterwards keeps it so for every relay, and   *)
(* a write for every relay but its own (StepSurvives), whose node is       *)
(* Written: from then on it is in `overtaken' of the readers that hold a   *)
(* listing, and in Pending until the write has cleared the cache.          *)
(***************************************************************************)
EXTENDS RelayConsistency, RelayRegistry_proofs

(***************************************************************************)
(* Listings and tables.                                                    *)
(***************************************************************************)

\* A row that stays, unless it becomes active, stays as it is listed.
LEMMA AsStoredLater ==
  ASSUME NEW t1, NEW t2, NEW list, NEW n, NEW i \in Nat, NEW j \in Nat, i <= j,
         n \in DOMAIN t1 <=> n \in DOMAIN t2,
         n \in DOMAIN t1 => /\ t1[n].lastSeen \in Nat /\ t2[n].lastSeen = t1[n].lastSeen
                            /\ t2[n].status = "active" => t1[n].status = "active",
         n \in DOMAIN list => list[n] \in Nat,
         AsStored(t1, i, list, n)
  PROVE  AsStored(t2, j, list, n)
<1>1. RelayTTL \in Nat
  BY ParameterAssumption
<1>2. CASE n \in DOMAIN list
  BY <1>1, <1>2 DEF AsStored
<1>3. CASE n \notin DOMAIN list
  <2>1. n \in DOMAIN t1 /\ IsFresh(t2[n], j - RelayTTL) => IsFresh(t1[n], i - RelayTTL)
    BY <1>1 DEF IsFresh
  <2> HIDE DEF IsFresh
  <2> QED
    BY <1>3, <2>1 DEF AsStored
<1> QED
  BY <1>2, <1>3

\* So does one that is removed after twice the TTL.
LEMMA AsStoredEvicted ==
  ASSUME NEW t1, NEW t2, NEW list, NEW n, NEW j \in Nat, NEW i,
         n \in DOMAIN t1, n \notin DOMAIN t2,
         t1[n].lastSeen < j - 2 * RelayTTL,
         AsStored(t1, i, list, n)
  PROVE  AsStored(t2, j, list, n)
  BY DEF AsStored

\* A listing made with a cut-off at most RelayTTL old is as stored: when it
\* leaves out an eligible row, the page is full of rows seen no earlier.
LEMMA ListingAsStored ==
  ASSUME NEW table, IsRelayTable(table), NEW time \in Nat, NEW cutoff \in Int,
         cutoff <= time - RelayTTL,
         NEW list \in Listings(table, cutoff, 0, 0, MaxRelays), NEW n \in Node
  PROVE  AsStored(table, time, list, n)
<1> DEFINE rows == Eligible(table, cutoff, 0, 0)
<1>t. RelayTTL \in Nat /\ MaxRelays \in Nat
  BY ParameterAssumption
<1>1. PICK page \in SUBSET rows :
        /\ list = [m \in page |-> table[m].lastSeen]
        /\ Cardinality(page) = IF Cardinality(rows) <= MaxRelays
                               THEN Cardinality(rows) ELSE MaxRelays
        /\ \A k \in page, m \in rows \ page : table[k].lastSeen >= table[m].lastSeen
  BY DEF Listings
<1>2. rows \subseteq Node /\ page \subseteq DOMAIN table /\ DOMAIN list = page
  BY <1>1 DEF Eligible, IsRelayTable
<1>3. CASE n \in page
  BY <1>1, <1>2, <1>3 DEF AsStored
<1>4. CASE n \in DOMAIN table /\ n \notin rows
  <2>1. table[n] \in Relay
    BY <1>4 DEF IsRelayTable
  <2>2. table[n].lastSeen \in Nat /\ table[n].avail \in Nat
    BY <2>1, AvailAssumption DEF Relay
  <2>3. ~IsFresh(table[n], cutoff)
    BY <1>4, <2>2 DEF Eligible
  <2>4. ~IsFresh(table[n], time - RelayTTL)
    BY <1>t, <2>2, <2>3 DEF IsFresh
  <2> QED
    BY <1>1, <1>2, <1>4, <2>4 DEF AsStored
<1>5. CASE n \in rows \ page
  <2>1. IsFiniteSet(rows) /\ IsFiniteSet(page)
    BY <1>1, <1>2, NodeFinite, FS_Subset
  <2>2. Cardinality(page) # Cardinality(rows)
    BY <1>1, <1>5, <2>1, FS_Subset
  <2>3. Cardinality(page) = MaxRelays
    BY <1>1, <2>2
  <2>4. \A m \in DOMAIN list : list[m] >= table[n].lastSeen
    BY <1>1, <1>2, <1>5
  <2> HIDE DEF rows
  <2> QED
    BY <1>2, <1>5, <2>3, <2>4 DEF AsStored
<1>6. CASE n \notin DOMAIN table
  BY <1>2, <1>6 DEF AsStored
<1> QED
  BY <1>3, <1>4, <1>5, <1>6

(***************************************************************************)
(* Steps of the registry.                                                  *)
(***************************************************************************)

SameRow(n) ==
    /\ n \in DOMAIN relays' <=> n \in DOMAIN relays
    /\ n \in DOMAIN relays => relays'[n] = relays[n]

\* A write touches the row of its own node alone and then waits to clear the
\* cache; the slot of a write that waits for that changes only by doing so.
LEMMA WriteStepRow ==
  ASSUME TypeOK, NEW w \in Writer, WriteStep(w)
  PROVE  /\ \A n \in Node : n \in Written \/ SameRow(n)
         /\ \A v \in Writer \ {w} : writes'[v] = writes[v]
         /\ cache'.hasCached => cache' = cache /\ writes[w].pc # "invalidate"
         /\ UNCHANGED <<now, reads>>
<1>t. /\ IsRelayTable(relays) /\ writes = [v \in Writer |-> writes[v]] /\ WriteOK(writes[w])
      /\ writes[w].pc = "exec" => writes[w].node \in Node
  BY DEF TypeOK, WritesOK, WriteOK
<1>1. /\ \A v \in Writer \ {w} : writes'[v] = writes[v]
      /\ cache'.hasCached => cache' = cache /\ writes[w].pc # "invalidate"
      /\ UNCHANGED <<now, reads>>
  <2>1. /\ \A v \in Writer \ {w} : writes'[v] = writes[v]
        /\ UNCHANGED <<now, reads>>
    BY <1>t DEF WriteStep, ReceiveWrite, ReceiveRegister, ReceiveFullHeartbeat, ReceiveHeartbeat,
                ReceiveDelete, Refuse, LookUpRelay, ReadClock, ExecUpsert, ExecHeartbeat,
                ExecFullHeartbeat, WriteFails, Invalidate, Finish, WritePc
  <2>2. CASE Invalidate(w)
    <3>1. cache'.hasCached = FALSE
      BY <2>2 DEF Invalidate, TypeOK, CacheOK
    <3> QED
      BY <2>1, <3>1
  <2>3. CASE ~Invalidate(w)
    BY <2>1, <2>3
    DEF WriteStep, ReceiveWrite, ReceiveRegister, ReceiveFullHeartbeat, ReceiveHeartbeat,
        ReceiveDelete, LookUpRelay, ReadClock, ExecUpsert, ExecHeartbeat,
        ExecFullHeartbeat, WriteFails
  <2> QED
    BY <2>2, <2>3
<1>w. ASSUME WritePc(w, "invalidate"), writes[w].pc = "exec" PROVE writes[w].node \in Written
  <2>1. writes'[w].pc = "invalidate" /\ writes'[w].node = writes[w].node
    BY <1>t, <1>w DEF WritePc, WriteOK, Write
  <2> QED
    BY <1>w, <2>1 DEF Written
<1>2. CASE UNCHANGED relays
  BY <1>1, <1>2 DEF SameRow
<1>3. ASSUME NEW n \in Node, ReceiveDelete(w, n), relays' # relays
      PROVE  \A m \in Node : m \in Written \/ SameRow(m)
  <2>1. /\ relays' = DeleteRelay(relays, n) /\ writes[w].pc = "idle"
        /\ writes' = [writes EXCEPT ![w] =
              [IdleWrite EXCEPT !.pc = "invalidate", !.op = "DELETE", !.node = n]]
    BY <1>3 DEF ReceiveDelete
  <2>2. writes'[w].pc = "invalidate" /\ writes'[w].node = n
    BY <1>t, <2>1 DEF IdleWrite
  <2>3. n \in Written
    BY <2>1, <2>2 DEF Written
  <2> QED
    BY <2>1, <2>3 DEF SameRow, DeleteRelay
<1>4. CASE ExecUpsert(w)
  <2>1. writes[w].node \in Written
    BY <1>4, <1>w DEF ExecUpsert
  <2>2. \A m \in Node : m = writes[w].node \/ SameRow(m)
    BY <1>4 DEF ExecUpsert, UpsertRelay, SameRow
  <2> QED
    BY <1>1, <2>1, <2>2
<1>5. CASE ExecHeartbeat(w) /\ relays' # relays
  <2>1. writes[w].node \in Written
    BY <1>5, <1>w DEF ExecHeartbeat
  <2>2. \A m \in Node : m = writes[w].node \/ SameRow(m)
    BY <1>5 DEF ExecHeartbeat, UpdateRelayHeartbeat, SameRow
  <2> QED
    BY <1>1, <2>1, <2>2
<1>6. CASE ExecFullHeartbeat(w) /\ relays' # relays
  <2>1. writes[w].node \in Written
    BY <1>6, <1>w DEF ExecFullHeartbeat
  <2>2. \A m \in Node : m = writes[w].node \/ SameRow(m)
    BY <1>6 DEF ExecFullHeartbeat, UpdateRelayFull, SameRow
  <2> QED
    BY <1>1, <2>1, <2>2
<1>7. \/ UNCHANGED relays \/ ExecUpsert(w) \/ ExecHeartbeat(w) \/ ExecFullHeartbeat(w)
      \/ \E n \in Node : ReceiveDelete(w, n)
  BY DEF WriteStep, ReceiveWrite, ReceiveRegister, ReceiveFullHeartbeat, ReceiveHeartbeat,
         LookUpRelay, ReadClock, WriteFails, Invalidate
<1> QED
  BY <1>1, <1>2, <1>3, <1>4, <1>5, <1>6, <1>7

\* The clock does not go back.
LEMMA ClockForward ==
  ASSUME TypeOK, Next
  PROVE  now' \in Nat /\ now' >= now
<1>t. now \in Nat
  BY DEF TypeOK
<1>1. ASSUME NEW w \in Writer, WriteStep(w) PROVE UNCHANGED now
  BY <1>1, WriteStepRow
<1>2. ASSUME NEW r \in Reader, ReadStep(r) PROVE UNCHANGED now
  BY <1>2 DEF ReadStep, ReceiveList, ReadCutoff, CountRows, SelectRows, ReadFails, Respond
<1>3. ASSUME SweepStep \/ Restart \/ Elsewhere PROVE UNCHANGED now
  BY <1>3 DEF SweepStep, StartSweep, SweepMark, SweepEvict, SweepFails, Restart, Elsewhere
<1>4. ASSUME Tick PROVE now' = now + 1
  BY <1>4 DEF Tick
<1> QED
  BY <1>t, <1>1, <1>2, <1>3, <1>4 DEF Next

\* A listing that is as stored for n stays so in every step but a write of n.
Survives(n) ==
    \A list : IsListing(list) /\ AsStored(relays, now, list, n) => AsStored(relays', now', list, n)

LEMMA StepSurvives ==
  ASSUME TypeOK, SilenceInv, Next, NEW n \in Node
  PROVE  n \in Written \/ Survives(n)
<1>t. /\ now \in Nat /\ RelayTTL \in Nat /\ sweep.at \in Nat /\ sweep.at <= now
      /\ n \in DOMAIN relays => relays[n] \in Relay /\ relays[n].lastSeen \in Nat
  BY ParameterAssumption DEF TypeOK, IsRelayTable, Relay, SilenceInv
<1>l. \A list : IsListing(list) /\ n \in DOMAIN list => list[n] \in Nat
  BY DEF IsListing
<1>s. ASSUME SameRow(n), now' \in Nat, now' >= now PROVE Survives(n)
  BY <1>t, <1>l, <1>s, AsStoredLater DEF SameRow, Survives
<1>1. ASSUME NEW w \in Writer, WriteStep(w) PROVE (n \in Written \/ Survives(n)) /\ UNCHANGED now
  <2>1. (n \in Written \/ SameRow(n)) /\ UNCHANGED now
    BY <1>1, WriteStepRow
  <2> QED
    BY <1>t, <1>s, <2>1
<1>2. ASSUME UNCHANGED relays, now' \in Nat, now' >= now PROVE Survives(n)
  BY <1>s, <1>2 DEF SameRow
<1>3. CASE SweepMark
  <2>1. UNCHANGED now /\ relays' = MarkUnreachable(relays, sweep.at - RelayTTL)
    BY <1>3 DEF SweepMark
  <2>2. n \in DOMAIN relays <=> n \in DOMAIN relays'
    BY <2>1 DEF MarkUnreachable
  <2>3. n \in DOMAIN relays =>
          /\ relays'[n].lastSeen = relays[n].lastSeen
          /\ relays'[n].status = "active" => relays[n].status = "active"
    BY <1>t, <2>1 DEF MarkUnreachable, Relay
  <2>4. Survives(n)
    BY <1>t, <1>l, <2>1, <2>2, <2>3, AsStoredLater DEF Survives
  <2> QED
    BY <1>t, <2>1, <2>4
<1>4. CASE SweepEvict
  <2>1. UNCHANGED now /\ relays' = EvictExpired(relays, sweep.at - 2 * RelayTTL)
    BY <1>4 DEF SweepEvict
  <2>2. SameRow(n) \/ (n \in DOMAIN relays /\ n \notin DOMAIN relays'
                        /\ relays[n].lastSeen < sweep.at - 2 * RelayTTL)
    BY <2>1 DEF EvictExpired, Expired, SameRow
  <2>3. CASE SameRow(n)
    BY <1>t, <1>s, <2>1, <2>3
  <2>4. CASE n \in DOMAIN relays /\ n \notin DOMAIN relays'
             /\ relays[n].lastSeen < sweep.at - 2 * RelayTTL
    <3>1. relays[n].lastSeen < now' - 2 * RelayTTL
      BY <1>t, <2>1, <2>4
    <3>2. Survives(n)
      BY <1>t, <2>1, <2>4, <3>1, AsStoredEvicted DEF Survives
    <3> QED
      BY <1>t, <2>1, <3>2
  <2> QED
    BY <2>2, <2>3, <2>4
<1>5. CASE Tick
  <2>1. UNCHANGED relays /\ now' = now + 1
    BY <1>5 DEF Tick
  <2> QED
    BY <1>t, <1>2, <2>1
<1>6. ASSUME \/ \E r \in Reader : ReadStep(r)
             \/ StartSweep \/ SweepFails \/ Restart \/ Elsewhere
      PROVE  Survives(n) /\ UNCHANGED now
  <2>1. UNCHANGED <<now, relays>>
    BY <1>6 DEF ReadStep, ReceiveList, ReadCutoff, CountRows, SelectRows, ReadFails, Respond,
                StartSweep, SweepFails, Restart, Elsewhere
  <2> QED
    BY <1>t, <1>2, <2>1
<1> QED
  BY <1>t, <1>1, <1>3, <1>4, <1>5, <1>6 DEF Next, SweepStep

(***************************************************************************)
(* The invariant.                                                          *)
(***************************************************************************)

\* What a GET holds: a cut-off that is at least RelayTTL old by now, and then a
\* listing that is as stored for every node not written since.
ReadCoherent(r) ==
    /\ reads[r].pc \in {"count", "select"} => reads[r].cutoff <= now - RelayTTL
    /\ HasSelected(r) /\ reads[r].filter = NoFilter =>
          \A n \in Node \ overtaken[r] : AsStored(relays, now, reads[r].list, n)

CoherenceInv ==
    /\ TypeOK /\ SilenceInv
    /\ \A r \in Reader : ReadCoherent(r)
    /\ CacheCoherent

LEMMA InitCoherence == HInit => CoherenceInv
<1> SUFFICES ASSUME HInit PROVE CoherenceInv
  OBVIOUS
<1>1. Init
  BY DEF HInit
<1>2. \A r \in Reader : reads[r].pc = "idle"
  BY <1>1 DEF Init, IdleRead
<1>3. ~cache.hasCached
  BY <1>1 DEF Init, EmptyCache
<1> QED
  BY <1>1, <1>2, <1>3, InitType, InitSilence
  DEF CoherenceInv, ReadCoherent, HasSelected, CacheCoherent

\* A reader that keeps its listing keeps it coherent.
LEMMA ReaderKept ==
  ASSUME CoherenceInv, HNext, NEW r \in Reader, reads'[r] = reads[r]
  PROVE  ReadCoherent(r)'
<1>t. /\ now \in Nat /\ now' \in Nat /\ now' >= now /\ RelayTTL \in Nat
  BY ClockForward, ParameterAssumption DEF CoherenceInv, HNext, TypeOK
<1>s. \A n \in Node : n \in Written \/ Survives(n)
  BY StepSurvives DEF CoherenceInv, HNext
<1>r. ReadOK(reads[r]) /\ IsListing(reads[r].list)
  BY DEF CoherenceInv, TypeOK, ReadsOK, ReadOK
<1>1. reads'[r].pc \in {"count", "select"} => reads'[r].cutoff <= now' - RelayTTL
  <2>1. reads[r].cutoff \in Int
    BY <1>r DEF ReadOK
  <2> QED
    BY <1>t, <2>1 DEF CoherenceInv, ReadCoherent
<1>2. ASSUME HasSelected(r)', reads'[r].filter = NoFilter, NEW n \in Node \ overtaken'[r]
      PROVE  AsStored(relays', now', reads'[r].list, n)
  <2>1. overtaken'[r] = overtaken[r] \cup Written
    BY <1>2 DEF HNext, Record
  <2>2. AsStored(relays, now, reads[r].list, n)
    BY <1>2, <2>1 DEF CoherenceInv, ReadCoherent, HasSelected
  <2> QED
    BY <1>s, <1>r, <2>1, <2>2, <1>2 DEF Survives
<1> QED
  BY <1>1, <1>2 DEF ReadCoherent

LEMMA StepReaders ==
  ASSUME CoherenceInv, HNext, NEW r \in Reader
  PROVE  ReadCoherent(r)'
<1>t. /\ now \in Nat /\ RelayTTL \in Nat /\ IsRelayTable(relays)
      /\ reads = [q \in Reader |-> reads[q]] /\ ReadOK(reads[r])
  BY ParameterAssumption DEF CoherenceInv, TypeOK, ReadsOK
<1>k. ASSUME reads'[r] = reads[r] PROVE ReadCoherent(r)'
  BY <1>k, ReaderKept
<1>i. ASSUME reads'[r].pc \in {"idle", "clock"} PROVE ReadCoherent(r)'
  BY <1>i DEF ReadCoherent, HasSelected
<1>1. ASSUME NEW w \in Writer, WriteStep(w) PROVE ReadCoherent(r)'
  BY <1>1, <1>k, WriteStepRow DEF CoherenceInv
<1>2. ASSUME NEW q \in Reader, ReadStep(q), q # r PROVE ReadCoherent(r)'
  <2>1. reads'[r] = reads[r]
    BY <1>t, <1>2 DEF ReadStep, ReceiveList, ReadCutoff, CountRows, SelectRows, ReadFails, Respond
  <2> QED
    BY <1>k, <2>1
<1>3. ASSUME NEW f, ReceiveList(r, f) PROVE ReadCoherent(r)'
  <2>1. reads'[r] = reads[r] \/ reads'[r].pc = "clock"
    BY <1>t, <1>3 DEF ReceiveList, IdleRead
  <2> QED
    BY <1>k, <1>i, <2>1
<1>4. CASE ReadCutoff(r)
  <2>1. reads'[r].pc = "count" /\ reads'[r].cutoff = now - RelayTTL /\ UNCHANGED now
    BY <1>t, <1>4 DEF ReadCutoff, ReadOK
  <2> QED
    BY <1>t, <2>1 DEF ReadCoherent, HasSelected
<1>5. CASE CountRows(r)
  <2>1. /\ reads[r].pc = "count" /\ reads'[r].pc = "select"
        /\ reads'[r].cutoff = reads[r].cutoff /\ UNCHANGED now
    BY <1>t, <1>5 DEF CountRows, ReadOK
  <2> QED
    BY <1>t, <2>1 DEF CoherenceInv, ReadCoherent, HasSelected
<1>6. CASE SelectRows(r)
  <2>1. PICK list \in Listings(relays, reads[r].cutoff, reads[r].filter.since,
                               reads[r].filter.minAvail, MaxRelays) :
          reads' = [reads EXCEPT ![r].pc = "respond", ![r].list = list]
    BY <1>6 DEF SelectRows
  <2>2. /\ reads[r].pc = "select" /\ UNCHANGED <<now, relays>>
        /\ reads'[r].pc = "respond" /\ reads'[r].list = list
        /\ reads'[r].filter = reads[r].filter /\ reads[r].cutoff \in Int
    BY <1>t, <1>6, <2>1 DEF SelectRows, ReadOK
  <2>3. reads[r].cutoff <= now - RelayTTL
    BY <2>2 DEF CoherenceInv, ReadCoherent
  <2>4. ASSUME reads[r].filter = NoFilter, NEW n \in Node
        PROVE  AsStored(relays, now, list, n)
    BY <1>t, <2>1, <2>2, <2>3, <2>4, ListingAsStored DEF NoFilter
  <2> QED
    BY <2>2, <2>4 DEF ReadCoherent
<1>7. CASE ReadFails(r) \/ Respond(r)
  <2>1. reads'[r] = IdleRead
    BY <1>t, <1>7 DEF ReadFails, Respond
  <2> QED
    BY <1>i, <2>1 DEF IdleRead
<1>8. CASE SweepStep \/ Tick \/ Elsewhere
  <2>1. UNCHANGED reads
    BY <1>8 DEF SweepStep, StartSweep, SweepMark, SweepEvict, SweepFails, Tick, Elsewhere
  <2> QED
    BY <1>k, <2>1
<1>9. CASE Restart
  <2>1. reads'[r].pc = "idle"
    BY <1>9 DEF Restart, IdleRead
  <2> QED
    BY <1>i, <2>1
<1>10. ASSUME ReadStep(r) PROVE ReadCoherent(r)'
  BY <1>10, <1>3, <1>4, <1>5, <1>6, <1>7 DEF ReadStep
<1> QED
  BY <1>1, <1>2, <1>8, <1>9, <1>10 DEF HNext, Next

\* While the cache keeps its listing, the nodes that need not be as listed are
\* no fewer than before, and those written are among them.
LEMMA CacheKept ==
  ASSUME CoherenceInv, HNext, cache'.hasCached, cache' = cache,
         Pending \cup Written \subseteq Pending'
  PROVE  CacheCoherent'
<1>1. poisoned' = poisoned
  BY DEF HNext, Record
<1>2. IsListing(cache.list)
  BY DEF CoherenceInv, TypeOK, CacheOK
<1>3. ASSUME NEW n \in Node \ (poisoned' \cup Pending')
      PROVE  AsStored(relays', now', cache'.list, n)
  <2>1. n \notin Written /\ AsStored(relays, now, cache.list, n)
    BY <1>1, <1>3 DEF CoherenceInv, CacheCoherent
  <2>2. Survives(n)
    BY <1>3, <2>1, StepSurvives DEF CoherenceInv, HNext
  <2> QED
    BY <1>2, <2>1, <2>2 DEF Survives
<1> QED
  BY <1>3 DEF CacheCoherent

LEMMA StepCache ==
  ASSUME CoherenceInv, HNext
  PROVE  CacheCoherent'
<1>p. ASSUME UNCHANGED writes PROVE Pending' = Pending /\ Written = {}
  BY <1>p DEF Pending, Written
<1>k. ASSUME UNCHANGED <<writes, cache>> PROVE CacheCoherent'
  <2>1. CASE cache'.hasCached
    BY <1>k, <1>p, <2>1, CacheKept
  <2>2. CASE ~cache'.hasCached
    BY <2>2 DEF CacheCoherent
  <2> QED
    BY <2>1, <2>2
<1>1. ASSUME NEW w \in Writer, WriteStep(w) PROVE CacheCoherent'
  <2>1. CASE ~cache'.hasCached
    BY <2>1 DEF CacheCoherent
  <2>2. CASE cache'.hasCached
    <3>1. /\ \A v \in Writer \ {w} : writes'[v] = writes[v]
          /\ cache' = cache /\ writes[w].pc # "invalidate"
      BY <1>1, <2>2, WriteStepRow DEF CoherenceInv
    <3>2. Pending \cup Written \subseteq Pending'
      BY <3>1 DEF Pending, Written
    <3> QED
      BY <2>2, <3>1, <3>2, CacheKept
  <2> QED
    BY <2>1, <2>2
<1>2. ASSUME NEW r \in Reader, Respond(r), reads[r].filter = NoFilter PROVE CacheCoherent'
  <2>1. /\ HasSelected(r) /\ reads'[r].pc = "idle" /\ cache'.hasCached
        /\ cache'.list = reads[r].list /\ UNCHANGED <<now, relays, writes>>
    BY <1>2 DEF Respond, CacheSet, HasSelected, IdleRead, CoherenceInv, TypeOK, ReadsOK
  <2>2. CASE cache' = cache
    BY <1>k, <2>1, <2>2
  <2>3. CASE cache' # cache
    <3>1. poisoned' = UNION {overtaken[q] : q \in Storing}
      BY <2>1, <2>3 DEF HNext, Record
    <3>2. r \in Storing
      BY <1>2, <2>1 DEF Storing, HasSelected
    <3>3. overtaken[r] \subseteq poisoned'
      BY <3>1, <3>2
    <3>4. \A n \in Node \ overtaken[r] : AsStored(relays, now, reads[r].list, n)
      BY <1>2, <2>1 DEF CoherenceInv, ReadCoherent
    <3> QED
      BY <2>1, <3>3, <3>4 DEF CacheCoherent
  <2> QED
    BY <2>2, <2>3
<1>3. ASSUME NEW r \in Reader, ReadStep(r), ~(Respond(r) /\ reads[r].filter = NoFilter)
      PROVE  CacheCoherent'
  <2>1. UNCHANGED <<writes, cache>>
    BY <1>3 DEF ReadStep, ReceiveList, ReadCutoff, CountRows, SelectRows, ReadFails, Respond
  <2> QED
    BY <1>k, <2>1
<1>4. CASE SweepStep \/ Tick \/ Elsewhere
  <2>1. UNCHANGED <<writes, cache>>
    BY <1>4 DEF SweepStep, StartSweep, SweepMark, SweepEvict, SweepFails, Tick, Elsewhere
  <2> QED
    BY <1>k, <2>1
<1>5. CASE Restart
  <2>1. ~cache'.hasCached
    BY <1>5 DEF Restart, EmptyCache
  <2> QED
    BY <2>1 DEF CacheCoherent
<1> QED
  BY <1>1, <1>2, <1>3, <1>4, <1>5 DEF HNext, Next

LEMMA StepCoherence == CoherenceInv /\ [HNext]_allVars => CoherenceInv'
<1> SUFFICES ASSUME CoherenceInv, [HNext]_allVars PROVE CoherenceInv'
  OBVIOUS
<1>1. CASE HNext
  <2>1. TypeOK' /\ SilenceInv'
    BY <1>1, StepType, StepSilence DEF CoherenceInv, HNext
  <2> QED
    BY <1>1, <2>1, StepReaders, StepCache DEF CoherenceInv
<1>2. CASE UNCHANGED allVars
  <2>1. UNCHANGED vars /\ UNCHANGED history
    BY <1>2 DEF allVars
  <2>2. TypeOK' /\ SilenceInv'
    BY <2>1, StepType, StepSilence DEF CoherenceInv
  <2>3. \A r \in Reader : ReadCoherent(r)'
    BY <2>1 DEF CoherenceInv, ReadCoherent, HasSelected, vars, history
  <2>4. CacheCoherent'
    BY <2>1 DEF CoherenceInv, CacheCoherent, Pending, vars, history
  <2> QED
    BY <2>2, <2>3, <2>4 DEF CoherenceInv
<1> QED
  BY <1>1, <1>2

\* The listing that GET /relays serves from the cache differs from the table
\* only for relays whose write is not answered yet, or was overtaken by the fill
\* of the cache, whatever reads, writes, sweeps and restarts overlap.
THEOREM CachesCohere == HSpec => []CacheCoherent
<1>1. CoherenceInv => CacheCoherent
  BY DEF CoherenceInv
<1> QED
  BY <1>1, InitCoherence, StepCoherence, PTL DEF HSpec

=============================================================================
