----------------------------- MODULE RelayTable -----------------------------
(***************************************************************************)
(* The table `relays' of internal/store/sqlite.go and the SQL statements   *)
(* that read and write it, as operators on a table.  A table is a function *)
(* whose domain is the set of node ids that have a row (node_id is the     *)
(* primary key).  Each statement is atomic in SQLite; what may happen      *)
(* between two statements, or between reading the clock and running the    *)
(* statement, is the business of the modules that use these operators.     *)
(*                                                                         *)
(* The columns are grouped by who writes them:                             *)
(*   endpoint  url, fingerprint, storage_reserved_gb, version, uptime_secs *)
(*   avail     storage_available_gb                                        *)
(*   profile   replication_factor, capabilities                            *)
(* updated_at, and last_seen (always written with last_seen_at), carry     *)
(* nothing the program reads and are left out.                             *)
(***************************************************************************)
EXTENDS Integers, FiniteSets

CONSTANTS
    Node,        \* node ids
    Endpoint,    \* values of the endpoint columns
    Avail,       \* values of storage_available_gb
    Profile,     \* values of the registration-only columns
    Unset        \* the nil *uint64 of UpdateRelayHeartbeat

ASSUME NodeFinite == IsFiniteSet(Node)
ASSUME AvailAssumption == Avail \subseteq Nat /\ Unset \notin Avail

RelayStatus == {"active", "unreachable"}

Relay == [endpoint: Endpoint, avail: Avail, profile: Profile,
          status: RelayStatus, lastSeen: Nat, created: Nat]

(* The states the table can be in. *)
IsRelayTable(relays) ==
    /\ relays = [n \in DOMAIN relays |-> relays[n]]
    /\ DOMAIN relays \subseteq Node
    /\ \A n \in DOMAIN relays : relays[n] \in Relay

(***************************************************************************)
(* Writes of the request handlers.  `t' is the time.Now() the Go function  *)
(* captured before it ran the statement; `c' is the one UpsertRelay takes  *)
(* itself, later than its caller's `t'.                                    *)
(***************************************************************************)

\* INSERT ... ON CONFLICT(node_id) DO UPDATE: every column but created_at.
UpsertRelay(relays, n, e, a, p, t, c) ==
    [m \in DOMAIN relays \cup {n} |->
        IF m = n
        THEN [endpoint |-> e, avail |-> a, profile |-> p, status |-> "active",
              lastSeen |-> t,
              created |-> IF n \in DOMAIN relays THEN relays[n].created ELSE c]
        ELSE relays[m]]

\* Faulty variant: writes the avail of a request that carried none.
UpdateRelayHeartbeat_NoNilTest(relays, n, a, t) ==
    [relays EXCEPT ![n] = [@ EXCEPT !.lastSeen = t, !.status = "active", !.avail = a]]

\* A partial heartbeat; avail is written only when the request carried it.
UpdateRelayHeartbeat(relays, n, a, t) ==
    [relays EXCEPT ![n] = [@ EXCEPT !.lastSeen = t,
                                    !.status = "active",
                                    !.avail = IF a = Unset THEN relays[n].avail ELSE a]]

\* A full heartbeat: the columns in the SET list, never the profile.
UpdateRelayFull(relays, n, e, a, t) ==
    [relays EXCEPT ![n] = [@ EXCEPT !.endpoint = e,
                                    !.avail = a,
                                    !.status = "active",
                                    !.lastSeen = t]]

DeleteRelay(relays, n) == [m \in DOMAIN relays \ {n} |-> relays[m]]

(***************************************************************************)
(* The two statements of CleanupStaleRelays.                               *)
(***************************************************************************)

\* Faulty variant: the boundary belongs to the stale side.
MarkUnreachable_OffByOne(relays, cutoff) ==
    [n \in DOMAIN relays |->
        IF relays[n].status = "active" /\ relays[n].lastSeen <= cutoff
        THEN [relays[n] EXCEPT !.status = "unreachable"]
        ELSE relays[n]]

MarkUnreachable(relays, cutoff) ==
    [n \in DOMAIN relays |->
        IF relays[n].status = "active" /\ relays[n].lastSeen < cutoff
        THEN [relays[n] EXCEPT !.status = "unreachable"]
        ELSE relays[n]]

\* Faulty variants: the age alone decides; the wrong status constant.
Expired_AnyStatus(relay, cutoff) == relay.lastSeen < cutoff
Expired_WrongStatus(relay, cutoff) == relay.status = "inactive" /\ relay.lastSeen < cutoff

Expired(relay, cutoff) == relay.status = "unreachable" /\ relay.lastSeen < cutoff

EvictExpired(relays, cutoff) ==
    [n \in {m \in DOMAIN relays : ~Expired(relays[m], cutoff)} |-> relays[n]]

(***************************************************************************)
(* Reads.                                                                  *)
(***************************************************************************)

\* The WHERE clause of CountActiveRelays and of an unfiltered listing.
IsFresh(relay, cutoff) == relay.status = "active" /\ relay.lastSeen >= cutoff

\* The WHERE clause of ListActiveRelays: since = 0 and minAvail = 0 are "no
\* filter", as the nil pointer and the zero of the Go function are.
Eligible(relays, cutoff, since, minAvail) ==
    {n \in DOMAIN relays : /\ IsFresh(relays[n], cutoff)
                           /\ relays[n].lastSeen >= since
                           /\ relays[n].avail >= minAvail}

\* Faulty variant: LIMIT without ORDER BY.
Listings_Unordered(relays, cutoff, since, minAvail, limit) ==
    LET rows == Eligible(relays, cutoff, since, minAvail)
        IsPage(page) ==
            Cardinality(page) = IF Cardinality(rows) <= limit
                                THEN Cardinality(rows) ELSE limit
    IN  {[n \in page |-> relays[n].lastSeen] : page \in {s \in SUBSET rows : IsPage(s)}}

\* ORDER BY last_seen_at DESC LIMIT limit over the eligible rows: the sets of
\* nodes SQLite may return, rows with equal last_seen_at coming in any order.
\* A listing is the function from the chosen nodes to their last_seen_at.
Listings(relays, cutoff, since, minAvail, limit) ==
    LET rows == Eligible(relays, cutoff, since, minAvail)
        IsPage(page) ==
            /\ Cardinality(page) = IF Cardinality(rows) <= limit
                                   THEN Cardinality(rows) ELSE limit
            /\ \A n \in page, m \in rows \ page :
                  relays[n].lastSeen >= relays[m].lastSeen
    IN  {[n \in page |-> relays[n].lastSeen] : page \in {s \in SUBSET rows : IsPage(s)}}

=============================================================================
