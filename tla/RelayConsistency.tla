-------------------------- MODULE RelayConsistency --------------------------
(***************************************************************************)
(* How far the cached answer to GET /relays may differ from the table.     *)
(*                                                                         *)
(* RelayCache.Invalidate only clears what is cached at that moment: a GET  *)
(* that ran its SELECT before the write and calls RelayCache.Set after the *)
(* write's Invalidate publishes the old listing again.  Three history      *)
(* variables, which no action of RelayRegistry reads, follow this:         *)
(*   overtaken[r]  the nodes written since the SELECT of Reader r          *)
(*   poisoned      the nodes for which the cached listing was overtaken    *)
(*                 before it was stored                                    *)
(*   gone          the nodes whose DELETE was answered 204 and which no    *)
(*                 registration has brought back                           *)
(***************************************************************************)
EXTENDS RelayRegistry

VARIABLES overtaken, poisoned, gone

history == <<overtaken, poisoned, gone>>
allVars == <<vars, history>>

HInit ==
    /\ Init
    /\ overtaken = [r \in Reader |-> {}]
    /\ poisoned = {}
    /\ gone = {}

\* The nodes whose row a request writes in this step.
Written == {writes'[w].node : w \in {v \in Writer : /\ writes[v].pc # "invalidate"
                                                    /\ writes'[v].pc = "invalidate"}}

\* The nodes whose row a request has written without having cleared the cache.
Pending == {writes[w].node : w \in {v \in Writer : writes[v].pc = "invalidate"}}

HasSelected(r) == reads[r].pc = "respond"

\* The readers that store their listing in this step.
Storing == {r \in Reader : HasSelected(r) /\ ~HasSelected(r)' /\ cache'.hasCached
                           /\ reads[r].filter = NoFilter}

Record ==
    /\ overtaken' = [r \in Reader |->
          IF HasSelected(r)' THEN overtaken[r] \cup Written ELSE {}]
    /\ poisoned' = IF ~cache'.hasCached THEN {}
                   ELSE IF cache' # cache THEN UNION {overtaken[r] : r \in Storing}
                   ELSE poisoned
    /\ gone' = (gone \cup {n \in Node \ DOMAIN relays' : reply' = Answer("DELETE", n, 204)})
               \ DOMAIN relays'

HNext == Next /\ Record

HSpec == HInit /\ [][HNext]_allVars

(***************************************************************************)
(* Properties.                                                             *)
(***************************************************************************)

\* A listing has what the table has for n: its entry is the row's last_seen_at,
\* or the row was evicted by the job after twice the TTL; a relay it leaves out
\* should not be listed, or the page is full of later-seen ones.
AsStored(table, time, list, n) ==
    IF n \in DOMAIN list
    THEN IF n \in DOMAIN table
         THEN table[n].lastSeen = list[n]
         ELSE list[n] < time - 2 * RelayTTL
    ELSE \/ n \notin DOMAIN table
         \/ ~IsFresh(table[n], time - RelayTTL)
         \/ /\ Cardinality(DOMAIN list) = MaxRelays
            /\ \A m \in DOMAIN list : list[m] >= table[n].lastSeen

\* What RelayCache.Invalidate achieves: a cached listing differs from the table
\* only for a relay whose write is not answered yet, or one that was written
\* between the SELECT of the GET that filled the cache and its Set.
CacheCoherent ==
    cache.hasCached =>
        \A n \in Node \ (poisoned \cup Pending) : AsStored(relays, now, cache.list, n)

\* internal/api/relays_test.go: after DELETE /relays/{id} was answered 204 a
\* GET /relays does not return the relay.  A cache hit is one step, so a hit
\* in `reply' was asked for after the deletion was answered.
DeletedStaysGone == IsList /\ reply.hit => DOMAIN reply.list \cap gone = {}

=============================================================================
