-------------------------- MODULE RelayTable_proofs --------------------------
(***************************************************************************)
(* What the statements on the table `relays' preserve and guarantee, for   *)
(* every table: the lemmas the proofs about the registry rest on.          *)
(***************************************************************************)
EXTENDS RelayTable, FiniteSetTheorems, TLAPS

\* The empty table is a table.
LEMMA EmptyTableType == IsRelayTable([n \in {} |-> 0])
  BY DEF IsRelayTable

\* INSERT ... ON CONFLICT leaves a table behind (UpsertRelay).
LEMMA UpsertRelayType ==
  ASSUME NEW relays, IsRelayTable(relays), NEW n \in Node, NEW e \in Endpoint,
         NEW a \in Avail, NEW p \in Profile, NEW t \in Nat, NEW c \in Nat
  PROVE  IsRelayTable(UpsertRelay(relays, n, e, a, p, t, c))
  BY DEF IsRelayTable, UpsertRelay, Relay, RelayStatus

\* So does a partial heartbeat, with or without a storage value.
LEMMA UpdateRelayHeartbeatType ==
  ASSUME NEW relays, IsRelayTable(relays), NEW n \in DOMAIN relays,
         NEW a \in Avail \cup {Unset}, NEW t \in Nat
  PROVE  IsRelayTable(UpdateRelayHeartbeat(relays, n, a, t))
<1> DEFINE avail == IF a = Unset THEN relays[n].avail ELSE a
           row == [relays[n] EXCEPT !.lastSeen = t, !.status = "active", !.avail = avail]
<1>1. relays[n] \in Relay
  BY DEF IsRelayTable
<1>2. avail \in Avail
  BY <1>1 DEF Relay
<1>3. row \in Relay
  <2> HIDE DEF avail
  <2> QED BY <1>1, <1>2 DEF Relay, RelayStatus
<1>4. UpdateRelayHeartbeat(relays, n, a, t) = [relays EXCEPT ![n] = row]
  BY DEF UpdateRelayHeartbeat
<1> HIDE DEF row
<1> QED
  BY <1>3, <1>4 DEF IsRelayTable

\* So does a full heartbeat.
LEMMA UpdateRelayFullType ==
  ASSUME NEW relays, IsRelayTable(relays), NEW n \in DOMAIN relays,
         NEW e \in Endpoint, NEW a \in Avail, NEW t \in Nat
  PROVE  IsRelayTable(UpdateRelayFull(relays, n, e, a, t))
  BY DEF IsRelayTable, UpdateRelayFull, Relay, RelayStatus

\* So do the removal of a relay and the two statements of the clean-up.
LEMMA DeleteRelayType ==
  ASSUME NEW relays, IsRelayTable(relays), NEW n
  PROVE  IsRelayTable(DeleteRelay(relays, n))
  BY DEF IsRelayTable, DeleteRelay

LEMMA MarkUnreachableType ==
  ASSUME NEW relays, IsRelayTable(relays), NEW cutoff
  PROVE  IsRelayTable(MarkUnreachable(relays, cutoff))
  BY DEF IsRelayTable, MarkUnreachable, Relay, RelayStatus

LEMMA EvictExpiredType ==
  ASSUME NEW relays, IsRelayTable(relays), NEW cutoff
  PROVE  IsRelayTable(EvictExpired(relays, cutoff))
  BY DEF IsRelayTable, EvictExpired

\* COUNT returns a natural number.
LEMMA EligibleCount ==
  ASSUME NEW relays, IsRelayTable(relays), NEW cutoff, NEW since, NEW minAvail
  PROVE  Cardinality(Eligible(relays, cutoff, since, minAvail)) \in Nat
<1>1. Eligible(relays, cutoff, since, minAvail) \subseteq Node
  BY DEF Eligible, IsRelayTable
<1>2. IsFiniteSet(Eligible(relays, cutoff, since, minAvail))
  BY <1>1, NodeFinite, FS_Subset
<1> QED
  BY <1>2, FS_CardinalityType

\* A listing holds the last_seen_at of registered relays, none of them older
\* than the cut-off (the WHERE clause of ListActiveRelays).
LEMMA ListingsFresh ==
  ASSUME NEW relays, IsRelayTable(relays), NEW cutoff, NEW since, NEW minAvail, NEW limit,
         NEW list \in Listings(relays, cutoff, since, minAvail, limit)
  PROVE  /\ list = [n \in DOMAIN list |-> list[n]]
         /\ DOMAIN list \subseteq DOMAIN relays
         /\ \A n \in DOMAIN list : list[n] = relays[n].lastSeen /\ list[n] >= cutoff
<1>1. PICK page \in SUBSET Eligible(relays, cutoff, since, minAvail) :
         list = [n \in page |-> relays[n].lastSeen]
  BY DEF Listings
<1>2. \A n \in page : n \in DOMAIN relays /\ relays[n].lastSeen >= cutoff
  BY <1>1 DEF Eligible, IsFresh
<1> QED
  BY <1>1, <1>2

\* A write of a request handler leaves a row alone or makes it active with the
\* clock reading it brought; removal leaves every other row alone.
LEMMA UpsertRelayRows ==
  ASSUME NEW relays, NEW n, NEW e, NEW a, NEW p, NEW t, NEW c,
         NEW m \in DOMAIN UpsertRelay(relays, n, e, a, p, t, c)
  PROVE  LET row == UpsertRelay(relays, n, e, a, p, t, c)[m] IN
         \/ m = n /\ row.status = "active" /\ row.lastSeen = t
         \/ m \in DOMAIN relays /\ m # n /\ row = relays[m]
  BY DEF UpsertRelay

LEMMA UpdateRelayHeartbeatRows ==
  ASSUME NEW relays, IsRelayTable(relays), NEW n \in DOMAIN relays, NEW a, NEW t,
         NEW m \in DOMAIN UpdateRelayHeartbeat(relays, n, a, t)
  PROVE  LET row == UpdateRelayHeartbeat(relays, n, a, t)[m] IN
         \/ m = n /\ row.status = "active" /\ row.lastSeen = t
         \/ m \in DOMAIN relays /\ m # n /\ row = relays[m]
  BY DEF UpdateRelayHeartbeat, IsRelayTable, Relay

LEMMA UpdateRelayFullRows ==
  ASSUME NEW relays, IsRelayTable(relays), NEW n \in DOMAIN relays, NEW e, NEW a, NEW t,
         NEW m \in DOMAIN UpdateRelayFull(relays, n, e, a, t)
  PROVE  LET row == UpdateRelayFull(relays, n, e, a, t)[m] IN
         \/ m = n /\ row.status = "active" /\ row.lastSeen = t
         \/ m \in DOMAIN relays /\ m # n /\ row = relays[m]
  BY DEF UpdateRelayFull, IsRelayTable, Relay

LEMMA DeleteRelayRows ==
  ASSUME NEW relays, NEW n, NEW m \in DOMAIN DeleteRelay(relays, n)
  PROVE  m \in DOMAIN relays /\ DeleteRelay(relays, n)[m] = relays[m]
  BY DEF DeleteRelay

\* Heartbeats write neither created_at nor the profile of any row.
LEMMA UpdateRelayHeartbeatKeeps ==
  ASSUME NEW relays, IsRelayTable(relays), NEW n \in DOMAIN relays, NEW a, NEW t,
         NEW m \in DOMAIN relays
  PROVE  LET row == UpdateRelayHeartbeat(relays, n, a, t)[m] IN
         row.created = relays[m].created /\ row.profile = relays[m].profile
<1> DEFINE avail == IF a = Unset THEN relays[n].avail ELSE a
<1>1. relays[m] \in Relay
  BY DEF IsRelayTable
<1>2. UpdateRelayHeartbeat(relays, n, a, t)
        = [relays EXCEPT ![n] = [relays[n] EXCEPT !.lastSeen = t, !.status = "active",
                                                  !.avail = avail]]
  BY DEF UpdateRelayHeartbeat
<1> HIDE DEF avail
<1> QED
  BY <1>1, <1>2 DEF Relay

LEMMA UpdateRelayFullKeeps ==
  ASSUME NEW relays, IsRelayTable(relays), NEW n \in DOMAIN relays, NEW e, NEW a, NEW t,
         NEW m \in DOMAIN relays
  PROVE  LET row == UpdateRelayFull(relays, n, e, a, t)[m] IN
         row.created = relays[m].created /\ row.profile = relays[m].profile
<1>1. relays[m] \in Relay
  BY DEF IsRelayTable
<1> QED
  BY <1>1 DEF UpdateRelayFull, Relay

=============================================================================
