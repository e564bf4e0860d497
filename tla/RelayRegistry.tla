---------------------------- MODULE RelayRegistry ----------------------------
(***************************************************************************)
(* The relay registry: the handlers of internal/api/relays.go, the cache   *)
(* of GET /relays, and the CleanupStaleRelays call of the background job,  *)
(* all running concurrently over the table `relays'.                       *)
(*                                                                         *)
(* Every request runs in its own goroutine.  A Writer serves POST /relays, *)
(* PUT /relays/{id}, PUT /v1/relays/{id} and DELETE /relays/{id}; a Reader *)
(* serves GET /relays.  A step of a request ends where other requests can  *)
(* observe or overtake it: at a database statement, at a reading of the    *)
(* clock that is used later, at an access to the cache.  The clock may     *)
(* advance between any two steps.                                          *)
(***************************************************************************)
EXTENDS RelayTable

CONSTANTS
    Writer, Reader,       \* request slots
    RelayTTL,             \* registry.relay_ttl_seconds
    CacheTTL,             \* registry.discovery_cache_ttl_seconds
    MaxRelays,            \* registry.max_relays_per_response
    OnlineThreshold,      \* registry.online_threshold_seconds
    Registered,           \* the sets of nodes that may be there to be found
    Filters,              \* the [since, minAvail] filters of GET requests
    Methods,              \* the write methods clients use
    SerialRefresh,        \* no two refreshes of one relay are in flight at once
    MaxLatency,           \* longest time a GET takes from arrival to answer
    MaxTime               \* bound on the clock

NoFilter == [since |-> 0, minAvail |-> 0]
Refreshes == {"POST", "PUT", "PUTv1"}

ASSUME ParameterAssumption ==
    /\ RelayTTL \in Nat \ {0} /\ CacheTTL \in Nat \ {0}
    /\ MaxRelays \in Nat \ {0} /\ OnlineThreshold \in Nat \ {0}
    /\ MaxLatency \in Nat /\ MaxTime \in Nat
    /\ SerialRefresh \in BOOLEAN
    /\ Registered \subseteq SUBSET Node
    /\ Methods \subseteq Refreshes \cup {"DELETE"}
    /\ Filters \subseteq [since: Nat, minAvail: Nat]

VARIABLES
    now,        \* the wall clock
    nodes,      \* ids of the nodes that GetNodeByID finds
    relays,     \* the table
    cache,      \* the RelayCache
    writes,     \* the state of each Writer
    reads,      \* the state of each Reader
    sweep,      \* the state of the CleanupStaleRelays call
    reply       \* the response sent by the last step, if it sent one

vars == <<now, nodes, relays, cache, writes, reads, sweep, reply>>

(***************************************************************************)
(* The shapes of the state.  Unset stands for a field that the request at  *)
(* hand does not have.                                                     *)
(***************************************************************************)

IsListing(list) == \E shown \in SUBSET Node : list \in [shown -> Nat]

EmptyListing == [n \in {} |-> 0]

EmptyCache == [hasCached |-> FALSE, cachedAt |-> 0, list |-> EmptyListing, total |-> 0]

IdleWrite == [pc |-> "idle", op |-> "none", node |-> Unset, endpoint |-> Unset,
              avail |-> Unset, profile |-> Unset, at |-> 0]

IdleRead == [pc |-> "idle", filter |-> NoFilter, start |-> 0, cutoff |-> 0,
             total |-> 0, list |-> EmptyListing]

IdleSweep == [pc |-> "idle", at |-> 0]

NoReply == [op |-> "none"]
Answer(op, n, code) == [op |-> op, node |-> n, code |-> code]
ListAnswer(list, total, hit) ==
    [op |-> "GET", code |-> 200, list |-> list, total |-> total, hit |-> hit]

Init ==
    /\ now = 0
    /\ nodes \in Registered
    /\ relays = [n \in {} |-> 0]
    /\ cache = EmptyCache
    /\ writes = [w \in Writer |-> IdleWrite]
    /\ reads = [r \in Reader |-> IdleRead]
    /\ sweep = IdleSweep
    /\ reply = NoReply

(***************************************************************************)
(* The write requests.  Each goes from "idle" through some of "lookup",    *)
(* "clock", "exec" and "invalidate", and is answered when it is idle again.*)
(***************************************************************************)

\* A client that never has two refreshes of a relay in flight (SerialRefresh)
\* sends the next one only when the last one was answered.
MaySend(op, n) ==
    /\ op \in Methods
    /\ SerialRefresh => \A w \in Writer : ~(writes[w].op \in Refreshes /\ writes[w].node = n)

WritePc(w, pc) == writes' = [writes EXCEPT ![w].pc = pc]

Finish(w, code) ==
    /\ writes' = [writes EXCEPT ![w] = IdleWrite]
    /\ reply' = Answer(writes[w].op, writes[w].node, code)

\* A request that is answered as soon as it arrives: no slot is kept busy.
Refuse(op, n, code) == reply' = Answer(op, n, code) /\ UNCHANGED writes

\* Faulty variant: registers a relay without looking its node up.
ReceiveRegister_NoLookup(w, n, e, a, p) ==
    /\ writes[w].pc = "idle" /\ MaySend("POST", n)
    /\ writes' = [writes EXCEPT ![w] =
          [pc |-> "clock", op |-> "POST", node |-> n, endpoint |-> e,
           avail |-> a, profile |-> p, at |-> 0]]
    /\ reply' = NoReply
    /\ UNCHANGED <<now, nodes, relays, cache, reads, sweep>>

\* POST /relays up to the lookup of the node, which may fail.
ReceiveRegister(w, n, e, a, p) ==
    /\ writes[w].pc = "idle" /\ MaySend("POST", n)
    /\ \/ /\ n \notin nodes
          /\ Refuse("POST", n, 404)
       \/ Refuse("POST", n, 500)
       \/ /\ n \in nodes
          /\ writes' = [writes EXCEPT ![w] =
                [pc |-> "clock", op |-> "POST", node |-> n, endpoint |-> e,
                 avail |-> a, profile |-> p, at |-> 0]]
          /\ reply' = NoReply
    /\ UNCHANGED <<now, nodes, relays, cache, reads, sweep>>

\* PUT /relays/{id} up to the reading of the clock in UpdateRelayHeartbeat.
ReceiveHeartbeat(w, n, a) ==
    /\ writes[w].pc = "idle" /\ MaySend("PUT", n)
    /\ writes' = [writes EXCEPT ![w] =
          [pc |-> "exec", op |-> "PUT", node |-> n, endpoint |-> Unset,
           avail |-> a, profile |-> Unset, at |-> now]]
    /\ reply' = NoReply
    /\ UNCHANGED <<now, nodes, relays, cache, reads, sweep>>

\* PUT /v1/relays/{id} up to the ownership check: the admin key passes for
\* every id, a node's own key only when its lookup finds the node.
ReceiveFullHeartbeat(w, n, e, a, admin) ==
    /\ writes[w].pc = "idle" /\ MaySend("PUTv1", n)
    /\ \/ /\ ~admin
          /\ Refuse("PUTv1", n, 401)
       \/ /\ admin \/ n \in nodes
          /\ writes' = [writes EXCEPT ![w] =
                [pc |-> "lookup", op |-> "PUTv1", node |-> n, endpoint |-> e,
                 avail |-> a, profile |-> Unset, at |-> 0]]
          /\ reply' = NoReply
    /\ UNCHANGED <<now, nodes, relays, cache, reads, sweep>>

\* DELETE /relays/{id} up to its DELETE statement, which may fail.
ReceiveDelete(w, n) ==
    /\ writes[w].pc = "idle" /\ MaySend("DELETE", n)
    /\ \/ /\ \/ n \notin DOMAIN relays /\ Refuse("DELETE", n, 404)
             \/ Refuse("DELETE", n, 500)
          /\ UNCHANGED relays
       \/ /\ n \in DOMAIN relays
          /\ relays' = DeleteRelay(relays, n)
          /\ writes' = [writes EXCEPT ![w] =
                [IdleWrite EXCEPT !.pc = "invalidate", !.op = "DELETE", !.node = n]]
          /\ reply' = NoReply
    /\ UNCHANGED <<now, nodes, cache, reads, sweep>>

\* The full heartbeat reads the row it is going to update: the request holds
\* the row's profile from here on.
LookUpRelay(w) ==
    LET n == writes[w].node IN
    /\ writes[w].pc = "lookup"
    /\ \/ /\ n \notin DOMAIN relays
          /\ Finish(w, 404)
       \/ /\ n \in DOMAIN relays
          /\ writes' = [writes EXCEPT ![w].pc = "clock",
                                      ![w].profile = relays[n].profile]
          /\ reply' = NoReply
    /\ UNCHANGED <<now, nodes, relays, cache, reads, sweep>>

\* The time.Now() that will be written to last_seen_at.
ReadClock(w) ==
    /\ writes[w].pc = "clock"
    /\ writes' = [writes EXCEPT ![w].pc = "exec", ![w].at = now]
    /\ reply' = NoReply
    /\ UNCHANGED <<now, nodes, relays, cache, reads, sweep>>

\* UpsertRelay reads the clock again, for created_at, before its statement.
ExecUpsert(w) ==
    LET q == writes[w] IN
    /\ q.pc = "exec" /\ q.op = "POST"
    /\ \E created \in q.at..now :
          relays' = UpsertRelay(relays, q.node, q.endpoint, q.avail, q.profile, q.at, created)
    /\ WritePc(w, "invalidate")
    /\ reply' = NoReply
    /\ UNCHANGED <<now, nodes, cache, reads, sweep>>

ExecHeartbeat(w) ==
    LET q == writes[w] IN
    /\ q.pc = "exec" /\ q.op = "PUT"
    /\ \/ /\ q.node \notin DOMAIN relays
          /\ Finish(w, 404)
          /\ UNCHANGED relays
       \/ /\ q.node \in DOMAIN relays
          /\ relays' = UpdateRelayHeartbeat(relays, q.node, q.avail, q.at)
          /\ WritePc(w, "invalidate")
          /\ reply' = NoReply
    /\ UNCHANGED <<now, nodes, cache, reads, sweep>>

\* Faulty variant: writes the whole row that was read back.
ExecFullHeartbeat_WholeRow(w) ==
    LET q == writes[w] IN
    /\ q.pc = "exec" /\ q.op = "PUTv1"
    /\ \/ /\ q.node \notin DOMAIN relays
          /\ Finish(w, 500)
          /\ UNCHANGED relays
       \/ /\ q.node \in DOMAIN relays
          /\ relays' = UpsertRelay(relays, q.node, q.endpoint, q.avail, q.profile, q.at, now)
          /\ WritePc(w, "invalidate")
          /\ reply' = NoReply
    /\ UNCHANGED <<now, nodes, cache, reads, sweep>>

\* A row that is gone by now is an error like any other to this handler.
ExecFullHeartbeat(w) ==
    LET q == writes[w] IN
    /\ q.pc = "exec" /\ q.op = "PUTv1"
    /\ \/ /\ q.node \notin DOMAIN relays
          /\ Finish(w, 500)
          /\ UNCHANGED relays
       \/ /\ q.node \in DOMAIN relays
          /\ relays' = UpdateRelayFull(relays, q.node, q.endpoint, q.avail, q.at)
          /\ WritePc(w, "invalidate")
          /\ reply' = NoReply
    /\ UNCHANGED <<now, nodes, cache, reads, sweep>>

\* The database fails a statement, or the client is gone and its context with
\* it: the statement has no effect and the handler answers 500.
WriteFails(w) ==
    /\ writes[w].pc \in {"lookup", "exec"}
    /\ Finish(w, 500)
    /\ UNCHANGED <<now, nodes, relays, cache, reads, sweep>>

SuccessCode(op) == CASE op = "POST" -> 201 [] op = "PUTv1" -> 200 [] OTHER -> 204

\* Faulty variant: the cache is not invalidated.
Invalidate_Forgotten(w) ==
    /\ writes[w].pc = "invalidate"
    /\ Finish(w, SuccessCode(writes[w].op))
    /\ UNCHANGED <<now, nodes, relays, cache, reads, sweep>>

\* RelayCache.Invalidate and the response.
Invalidate(w) ==
    /\ writes[w].pc = "invalidate"
    /\ cache' = [cache EXCEPT !.hasCached = FALSE]
    /\ Finish(w, SuccessCode(writes[w].op))
    /\ UNCHANGED <<now, nodes, relays, reads, sweep>>

(***************************************************************************)
(* GET /relays.                                                            *)
(***************************************************************************)

\* Faulty variant: an entry never grows old.
CacheHit_NoTTL == cache.hasCached

\* RelayCache.Get
CacheHit == cache.hasCached /\ now - cache.cachedAt <= CacheTTL

\* RelayCache.Set
CacheSet(list, total) ==
    cache' = [hasCached |-> TRUE, cachedAt |-> now, list |-> list, total |-> total]

ReceiveList(r, f) ==
    /\ reads[r].pc = "idle"
    /\ \/ /\ f = NoFilter /\ CacheHit
          /\ reply' = ListAnswer(cache.list, cache.total, TRUE)
          /\ UNCHANGED reads
       \/ /\ ~(f = NoFilter /\ CacheHit)
          /\ reads' = [reads EXCEPT ![r] =
                [IdleRead EXCEPT !.pc = "clock", !.filter = f, !.start = now]]
          /\ reply' = NoReply
    /\ UNCHANGED <<now, nodes, relays, cache, writes, sweep>>

\* ListActiveRelays: the cut-off, then COUNT, then SELECT, each on its own.
ReadCutoff(r) ==
    /\ reads[r].pc = "clock"
    /\ reads' = [reads EXCEPT ![r].pc = "count", ![r].cutoff = now - RelayTTL]
    /\ reply' = NoReply
    /\ UNCHANGED <<now, nodes, relays, cache, writes, sweep>>

CountRows(r) ==
    LET q == reads[r] IN
    /\ q.pc = "count"
    /\ reads' = [reads EXCEPT ![r].pc = "select",
          ![r].total = Cardinality(Eligible(relays, q.cutoff, q.filter.since, q.filter.minAvail))]
    /\ reply' = NoReply
    /\ UNCHANGED <<now, nodes, relays, cache, writes, sweep>>

SelectRows(r) ==
    LET q == reads[r] IN
    /\ q.pc = "select"
    /\ \E list \in Listings(relays, q.cutoff, q.filter.since, q.filter.minAvail, MaxRelays) :
          reads' = [reads EXCEPT ![r].pc = "respond", ![r].list = list]
    /\ reply' = NoReply
    /\ UNCHANGED <<now, nodes, relays, cache, writes, sweep>>

ReadFails(r) ==
    /\ reads[r].pc \in {"count", "select"}
    /\ reads' = [reads EXCEPT ![r] = IdleRead]
    /\ reply' = Answer("GET", Unset, 500)
    /\ UNCHANGED <<now, nodes, relays, cache, writes, sweep>>

\* Faulty variant: a filtered listing is cached like a full one.
Respond_CacheFiltered(r) ==
    LET q == reads[r] IN
    /\ q.pc = "respond"
    /\ CacheSet(q.list, q.total)
    /\ reads' = [reads EXCEPT ![r] = IdleRead]
    /\ reply' = ListAnswer(q.list, q.total, FALSE)
    /\ UNCHANGED <<now, nodes, relays, writes, sweep>>

Respond(r) ==
    LET q == reads[r] IN
    /\ q.pc = "respond"
    /\ IF q.filter = NoFilter THEN CacheSet(q.list, q.total) ELSE UNCHANGED cache
    /\ reads' = [reads EXCEPT ![r] = IdleRead]
    /\ reply' = ListAnswer(q.list, q.total, FALSE)
    /\ UNCHANGED <<now, nodes, relays, writes, sweep>>

(***************************************************************************)
(* CleanupStaleRelays, called by the one goroutine of the job runner: the  *)
(* two statements share one reading of the clock and no transaction.       *)
(***************************************************************************)

StartSweep ==
    /\ sweep.pc = "idle"
    /\ sweep' = [pc |-> "mark", at |-> now]
    /\ reply' = NoReply
    /\ UNCHANGED <<now, nodes, relays, cache, writes, reads>>

SweepMark ==
    /\ sweep.pc = "mark"
    /\ relays' = MarkUnreachable(relays, sweep.at - RelayTTL)
    /\ sweep' = [sweep EXCEPT !.pc = "evict"]
    /\ reply' = NoReply
    /\ UNCHANGED <<now, nodes, cache, writes, reads>>

SweepEvict ==
    /\ sweep.pc = "evict"
    /\ relays' = EvictExpired(relays, sweep.at - 2 * RelayTTL)
    /\ sweep' = IdleSweep
    /\ reply' = NoReply
    /\ UNCHANGED <<now, nodes, cache, writes, reads>>

\* A statement fails or times out: the rest is left to the next tick.
SweepFails ==
    /\ sweep.pc \in {"mark", "evict"}
    /\ sweep' = IdleSweep
    /\ reply' = NoReply
    /\ UNCHANGED <<now, nodes, relays, cache, writes, reads>>

(***************************************************************************)
(* The environment.                                                        *)
(***************************************************************************)

\* The clock advances unless a GET would exceed MaxLatency.  MaxTime bounds it.
Tick ==
    /\ now < MaxTime
    /\ \A r \in Reader : reads[r].pc # "idle" => now - reads[r].start < MaxLatency
    /\ now' = now + 1
    /\ reply' = NoReply
    /\ UNCHANGED <<nodes, relays, cache, writes, reads, sweep>>

\* The process dies and is started again: the table is all that is kept.
Restart ==
    /\ cache' = EmptyCache
    /\ writes' = [w \in Writer |-> IdleWrite]
    /\ reads' = [r \in Reader |-> IdleRead]
    /\ sweep' = IdleSweep
    /\ reply' = NoReply
    /\ UNCHANGED <<now, nodes, relays>>

\* A step of the rest of the server, in which nodes may be registered or
\* deleted (RegisterNodeHandler, DeleteNodeHandler): lookups find others.
Elsewhere ==
    /\ nodes' \in Registered
    /\ reply' = NoReply
    /\ UNCHANGED <<now, relays, cache, writes, reads, sweep>>

(***************************************************************************)
(* The specification.                                                      *)
(***************************************************************************)

ReceiveWrite(w) ==
    \E n \in Node :
        \/ \E e \in Endpoint, a \in Avail :
              \/ \E p \in Profile : ReceiveRegister(w, n, e, a, p)
              \/ \E admin \in BOOLEAN : ReceiveFullHeartbeat(w, n, e, a, admin)
        \/ \E a \in Avail \cup {Unset} : ReceiveHeartbeat(w, n, a)
        \/ ReceiveDelete(w, n)

WriteStep(w) ==
    \/ ReceiveWrite(w)
    \/ LookUpRelay(w) \/ ReadClock(w)
    \/ ExecUpsert(w) \/ ExecHeartbeat(w) \/ ExecFullHeartbeat(w)
    \/ WriteFails(w) \/ Invalidate(w)

ReadStep(r) ==
    \/ \E f \in Filters \cup {NoFilter} : ReceiveList(r, f)
    \/ ReadCutoff(r) \/ CountRows(r) \/ SelectRows(r)
    \/ ReadFails(r) \/ Respond(r)

SweepStep == StartSweep \/ SweepMark \/ SweepEvict \/ SweepFails

Next ==
    \/ \E w \in Writer : WriteStep(w)
    \/ \E r \in Reader : ReadStep(r)
    \/ SweepStep
    \/ Tick
    \/ Restart
    \/ Elsewhere

Spec == Init /\ [][Next]_vars

\* The runner's ticker starts a sweep again and again, and not every attempt
\* at a statement fails.
FairSpec == Spec /\ WF_vars(StartSweep) /\ SF_vars(SweepMark) /\ SF_vars(SweepEvict)

(***************************************************************************)
(* Properties.                                                             *)
(***************************************************************************)

WritePcs == {"idle", "lookup", "clock", "exec", "invalidate"}
ReadPcs == {"idle", "clock", "count", "select", "respond"}
Ops == Refreshes \cup {"DELETE", "none"}

Write == [pc: WritePcs, op: Ops, node: Node \cup {Unset}, endpoint: Endpoint \cup {Unset},
          avail: Avail \cup {Unset}, profile: Profile \cup {Unset}, at: Nat]

\* What the fields of a request hold while it waits for its statement.
WriteOK(q) ==
    /\ q \in Write
    /\ q.pc = "idle" => q = IdleWrite
    /\ q.pc # "idle" => q.node \in Node /\ q.op \in Ops \ {"none"}
    /\ q.pc = "lookup" => q.op = "PUTv1"
    /\ q.pc = "clock" => q.op \in {"POST", "PUTv1"}
    /\ q.pc = "exec" => q.op \in Refreshes
    /\ q.op \in {"POST", "PUTv1"} => q.endpoint \in Endpoint /\ q.avail \in Avail
    /\ q.op = "POST" => q.profile \in Profile

ReadOK(q) ==
    /\ IsListing(q.list)
    /\ q \in [pc: ReadPcs, filter: [since: Nat, minAvail: Nat], start: Nat,
              cutoff: Int, total: Nat, list: {q.list}]

CacheOK(c) ==
    /\ IsListing(c.list)
    /\ c \in [hasCached: BOOLEAN, cachedAt: Nat, list: {c.list}, total: Nat]

WritesOK ==
    /\ writes = [w \in Writer |-> writes[w]]
    /\ \A w \in Writer : WriteOK(writes[w])

ReadsOK ==
    /\ reads = [r \in Reader |-> reads[r]]
    /\ \A r \in Reader : ReadOK(reads[r])

\* Every variable has its shape: the rows of the table, the fields each
\* request carries in each of its phases, the cached listing.
TypeOK ==
    /\ now \in Nat
    /\ nodes \subseteq Node
    /\ IsRelayTable(relays)
    /\ CacheOK(cache)
    /\ WritesOK
    /\ ReadsOK
    /\ sweep \in [pc: {"idle", "mark", "evict"}, at: Nat]

IsList == reply.op = "GET" /\ reply.code = 200

\* What a peer can rely on when it discovers relays: however the request was
\* answered, and whatever overlapped it, every relay in the response was heard
\* of within RelayTTL plus the life of a cache entry plus the latency of the
\* request that filled it (GetRelaysHandler with RelayCache.Get and Set).
ServedStaleness ==
    IsList => \A n \in DOMAIN reply.list :
                 reply.list[n] >= now - (RelayTTL + CacheTTL + MaxLatency)

\* IsNodeOnline, the is_online of GET /v1/nodes/{id}/status.
IsNodeOnline(n) ==
    n \in DOMAIN relays /\ relays[n].lastSeen >= now - OnlineThreshold

\* The two views of liveness agree: a relay reported online by the node status
\* endpoint is one that an unfiltered listing made now would include, whatever
\* sweep and heartbeat are half done (CleanupStaleRelays against
\* UpdateRelayHeartbeat, UpdateRelayFull, UpsertRelay), provided the online
\* threshold does not exceed the relay TTL.
OnlineIsListed ==
    OnlineThreshold <= RelayTTL =>
        \A n \in Node : IsNodeOnline(n) => IsFresh(relays[n], now - RelayTTL)

\* Rows keep their created_at, and change their profile only when the statement
\* of a registration that carries it runs.
KeepsRegistration ==
    \A n \in DOMAIN relays \cap DOMAIN relays' :
        /\ relays'[n].created = relays[n].created
        /\ relays'[n].profile # relays[n].profile =>
              \E w \in Writer : /\ writes[w].pc = "exec" /\ writes[w].op = "POST"
                                /\ writes[w].node = n
                                /\ writes[w].profile = relays'[n].profile

\* No heartbeat, sweep or overlapping request undoes a registration: while a
\* relay stays registered its created_at never changes, and its replication
\* factor and capabilities change only when a registration commits, so that a
\* full heartbeat that read the row before a registration does not write the
\* old values back (UpdateRelayFull's SET list, UpsertRelay's ON CONFLICT).
RegistrationKept == [][KeepsRegistration]_vars

\* The table as leases: see RelayLease.
leases == [n \in DOMAIN relays |-> [seen |-> relays[n].lastSeen,
                                   live |-> relays[n].status = "active"]]

\* The slots that still have to answer a DELETE that took a row away.
Removals == {n \in Node : \E w \in Writer : writes[w].op = "DELETE" /\ writes[w].node = n}

Lease == INSTANCE RelayLease WITH lease <- leases, removing <- Removals

\* The concurrent registry implements RelayLease when clients do not overlap
\* refreshes of one relay: last_seen_at never goes back, a refreshed relay is
\* active, only relays silent for RelayTTL are suspended and only those silent
\* for twice that are deleted by the job, although CleanupStaleRelays works
\* with a clock reading that is old by the time its statements run.
ImplementsLease == Lease!Spec

\* A relay that has fallen silent is removed by the job, also when sweeps fail
\* or the process restarts now and then, unless it is heard of again.
Silent(n) == n \in DOMAIN relays /\ relays[n].lastSeen < now - 2 * RelayTTL
SilentRelaysEvicted == \A n \in Node : Silent(n) ~> ~Silent(n)

=============================================================================
