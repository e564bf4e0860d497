--------------------------- MODULE MCServerProcess ---------------------------
(***************************************************************************)
(* Instances of ServerProcess for TLC.  A tick is 10 s: the time limit of  *)
(* an attempt is 1, the pause before the second 1 (1 s, rounded up), the   *)
(* read and write timeouts 2 (15 s), the drain 3 (30 s).                   *)
(***************************************************************************)
EXTENDS ServerProcess

CONSTANTS
    absent, garbled, noConfig, noAddr, noKey, operatorKey, defaultAddr, port9, badAddr, s1, s2

MCHostPort == {defaultAddr, port9}

\* A database that is not there yet, and three of earlier versions: without a
\* column an index needs, and without columns of each default when there are rows.
NoDatabase == [tables |-> {}, columns |-> {}, filled |-> {}]
Without(gaps, filled) ==
    [tables |-> {"nodes", "relays"}, columns |-> Schema \ gaps, filled |-> filled]

OldIndexless == Without({<<"nodes", "status">>}, {})
OldRows == Without({<<"relays", "updated_at">>, <<"relays", "uptime_secs">>}, {"nodes", "relays"})
OldSeen == Without({<<"relays", "last_seen_at">>}, {"relays"})

\* What an operator wrote: a Headscale provider, with the API's URL or without;
\* no timeouts at all and no authentication; a rate limit of nothing.
Headscale ==
    [key |-> operatorKey, provider |-> "headscale", enabled |-> TRUE,
     credentials |-> {"headscale"}, headscale_api_url |-> "url"]
NoURL ==
    [bind |-> port9, key |-> noKey, provider |-> "headscale", enabled |-> TRUE,
     credentials |-> {"headscale"}, headscale_url |-> "url"]
NoDeadlines == [listen |-> port9, read |-> 0, write |-> 0, auth |-> FALSE]
NoRequests == [bind |-> port9, key |-> operatorKey, rpm |-> 0]

MCInstallations ==
    {[file |-> absent, db |-> NoDatabase],
     [file |-> Headscale, db |-> OldIndexless],
     [file |-> NoURL, db |-> NoDatabase],
     [file |-> NoDeadlines, db |-> OldRows],
     [file |-> NoRequests, db |-> OldSeen]}

MCFlagSets ==
    {Nothing, [bind |-> port9, key |-> operatorKey], [bind |-> badAddr],
     [provider |-> "tailscale"]}

MCEnvSets == {Nothing, [bind |-> port9, headscale_url |-> "other"]}

=============================================================================
