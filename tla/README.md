# A verification of coord-server

`coord-server` is the coordination server of the goy network: nodes register
with it and receive a VPN key, relays advertise themselves and send heartbeats,
and peers ask it which relays are alive. It is one Go process over one SQLite
file. This directory holds TLA+ models of its core, the instances on which TLC
checks them, and theorems that TLAPS proves for every value of the parameters.

Paths below are relative to the repository root.

## 1. The system

| component | source | state | operations |
|---|---|---|---|
| node store | `internal/store/sqlite.go` | table `nodes` | create, find by id or by key hash, soft-delete, deactivate, count by status |
| relay store | `internal/store/sqlite.go` | table `relays` | upsert, heartbeat, full heartbeat, delete, list, mark and evict |
| node handlers | `internal/api/nodes.go` | none of their own between requests | register, read, status, delete |
| relay handlers | `internal/api/relays.go` | `RelayCache`, one entry for the unfiltered listing | `POST`, `PUT`, `PUT /v1`, `DELETE`, `GET` of relays |
| job runner | `internal/jobs/runner.go` | three tickers, one goroutine | `CleanupStaleRelays`, `CleanupInactiveNodes`, gauges |
| rate limiter | `internal/middleware/ratelimit.go` | one token bucket per address | `Allow`, idle clean-up |
| VPN providers | `internal/vpn` | an HTTP client, two counters | create a pre-auth key with one retry, health, status |
| configuration | `internal/config` | `config.toml` | resolve flags, environment, file and defaults; write the file; validate |
| schema migration | `internal/store/sqlite.go` `Init` | the schema | DDL, some of whose errors are ignored |
| lifecycle | `cmd/server/main.go` | the process | start-up, serving, signal, drain, close |
| authentication, validation | `internal/middleware/auth.go`, `internal/api/auth.go`, `internal/api/validation.go` | none | accept or refuse one request |
| logging, metrics, banner, health | various | gauges and counters | observation |

How they interact. Every HTTP request runs in its own goroutine, through the
middlewares (rate limit, then authentication) to a handler. Handlers share the
database, the relay cache and the configuration. The runner's goroutine shares
the database with them and never touches the cache. No handler and no job uses a
transaction over more than one statement, foreign keys are not enforced, and
nothing but SQLite orders two requests. A node's row and its relay's row are
related only by the lookups that handlers make before they write. The process as
a whole lives between two things that outlast it, `config.toml` and the
database: a start resolves the one, writing it when it is missing, and migrates
the other; a registration asks the VPN provider for a key while its client
waits; a signal stops the runner, drains the server for at most 30 s and closes
the database under whatever is still at work.

What is hard here is therefore not any one statement but what happens between
two of them: a lookup and the write that relies on it, a clock reading and the
statement that stores it, a `SELECT` and the `Set` that publishes it, the two
statements of a sweep, a write and the `Invalidate` that follows it; requests
and jobs overlap in each of those gaps, any statement can fail (locked database,
cancelled context), and the process can die with only the tables left.

What makes each component correct:

* **relay registry** - a relay that was heard of is active and listed, one that is
  silent is suspended and later evicted, nothing else makes it vanish; a
  heartbeat never undoes a registration; the two views of liveness (listing and
  `is_online`) agree; what the cache serves is bounded in age and is coherent
  with the table up to named races.
* **node registry** - one auth key is one node, for ever; deletion is final;
  registration is idempotent.
* **both** - a relay belongs to a node that was registered; a deleted node gets no
  relay but from a registration that was under way.
* **rate limiter** - an address is admitted no more than burst and rate allow; a
  client that waits as it is told is admitted.
* **configuration** - a restart without flags runs with what the first run wrote.
* **migration** - whatever database a start finds, and whatever it crashed on before,
  jobs and handlers run on the full schema, up to columns whose `ALTER` met a busy
  database just now or is one that SQLite refuses.
* **VPN providers** - the retry costs at most a second key, and the counters tell so.
* **lifecycle** - a shutdown ends, and cuts off no request that could still be answered.

`PROJECT.json` lists every hazard at the line where it bites.

## 2. The modules

| module | models | state |
|---|---|---|
| `RelayTable` | table `relays` and its statements as operators | - |
| `RelayRegistry` | `internal/api/relays.go`, `RelayCache`, `CleanupStaleRelays` | `now nodes relays cache writes reads sweep reply` |
| `RelayLease` | abstract: what a registered relay is promised | `now lease removing` |
| `RelayConsistency` | `RelayRegistry` with history variables about the cache | `+ overtaken poisoned gone` |
| `NodeTable` | table `nodes` and its statements | - |
| `NodeRegistry` | registration, deletion, deactivation job, node gauges | `now nodes calls cleanup gauge reply` |
| `NodeDirectory` | abstract: what the node registry promises about keys, ids and answers | `directory retired pending confirming told` |
| `CoordServer` | both registries over one database, clock and runner | all of the above |
| `RateLimiter` | `internal/middleware/ratelimit.go` | `now buckets told` |
| `RateMeter` | abstract: what the limiter promises an address | `now debt` |
| `Configuration` | `internal/config`: `Resolve`, `WriteConfig`, `GenerateDefault`, `Validate` as operators | - |
| `SchemaMigration` | `migrate`: its statements, and which of them SQLite accepts | - |
| `VpnClient` | `CreatePreAuthKey` and `GetStatus` of both providers, and their counters | `call made generated errors` |
| `ServerProcess` | `cmd/server/main.go`, composing the three above with the requests in flight and the runner | `file db phase cfg flags ddl runner stopped open drain request`, two counters, two history variables |
| `MC*` | definitions for the instances below | - |
| `*_proofs` | lemmas and theorems | - |

**Steps.** A request occupies a slot (`Writer`, `Reader`, `Caller`) and its step
ends where another goroutine can observe or overtake it: at a statement, at a
reading of the clock that is used later, at an access to the cache. The phase of
the slot, `pc`, names what comes next. For a `Writer`:

| request | phases | code |
|---|---|---|
| `POST /relays` | receive and look the node up, `clock`, `exec`, `invalidate` | `RegisterRelayHandler`, `UpsertRelay` |
| `PUT /relays/{id}` | receive with its clock, `exec`, `invalidate` | `HeartbeatRelayHandler`, `UpdateRelayHeartbeat` |
| `PUT /v1/relays/{id}` | receive, `lookup`, `clock`, `exec`, `invalidate` | `PutV1RelayHeartbeatHandler`, `UpdateRelayFull` |
| `DELETE /relays/{id}` | one statement, `invalidate` | `DeleteRelayHandler` |

A `Reader` serves `GET /relays`: cache hit in one step, or `clock`, `count`,
`select`, `respond` (with `RelayCache.Set`). The sweep is `StartSweep` (its clock
reading), `SweepMark`, `SweepEvict`. A `Caller` registers a node: `LookUpKey`,
`CreateNode`, `SendResponse`. Every statement has its error path, as an action of
its own (`WriteFails`, `ReadFails`, `SweepFails`, `CreateFails`, `CleanupFails`) or as
a disjunct that answers 500 and changes nothing (`LookUpKey`, `DeleteNode`,
`ReceiveRegister`, `ReceiveDelete`; in the ownership check of
`ReceiveFullHeartbeat` a failing lookup is the refusal 401). A clock that is read
apart from its statement is a value of its own: the `created_at` of a node is any
time from its lookup to its insertion, that of a relay any time from the
handler's `last_seen_at` to the statement. `Restart` empties everything but the tables. `reply` holds the
response sent by the last step, for properties about responses; `CoordServer`
has one for each registry.

**Data.** Row columns that no decision reads are left out (name, mesh URL, version,
`updated_at`); the endpoint of a relay is one value, replication factor and
capabilities are one `profile`, free storage is a level that the filter compares. Node
ids, keys, endpoints and profiles are model values. `Unset` is a field the
request does not carry, `Never` the SQL `NULL`. Times are naturals; the
comparisons keep the code's strictness (`<` marks, `>=` lists).

**The registries as open systems.** Each registry is one part of the server, and its
specification says what the rest may do to it: `Elsewhere`. In `RelayRegistry` that is a
change of `nodes`, the ids that `GetNodeByID` finds, to any set in the
constant `Registered`, at any moment, also between a handler's lookup and its statement.
In `NodeRegistry` it is a step of a relay request or of the other job, which leaves the
table alone. So `CoordServer` is a composition in the plain sense: with
`nodes <- LiveNodes(nodes)` each of its steps is a step of the node registry and a step of the
relay registry, one of the two often being its `Elsewhere`, and what is proved of
a registry holds in the server. Both take the steps of one runner: a sweep runs
only when the node job is idle and the other way round, as in `Runner.Start`.

**Rate limiter.** `Allow` reads the clock and changes the bucket under one mutex,
so a request is one step with three outcomes, `Create`, `Spend` and `Deny`. Levels
count units of 1/(60 * `TicksPerSecond`) token, which makes every refill an
integer; the rounding of `float64` is left out. `told` is what the client knows: its last
refusal and the time `Retry-After` named.

**Process.** `ServerProcess` is one process that starts, runs and dies, over and over.
`Resolve` is main up to the validated configuration; with no `config.toml` it
goes on to `TruncateFile` and `FinishWrite`, because `os.WriteFile` empties the
file before it fills it and `Validate` comes after both. Each DDL statement is a
step (`MigrateStep`; `SkipAlter` is the ignored error), then `RunChecks`, `Listen`,
and on `Signal` either `DrainDone` or `DrainExpires`, `CloseStore`, `Exit`. `Die` is
possible in every phase: a crash, a refused `CREATE INDEX`, an address in use,
`--validate-config`. What survives is `file` and `db`. A request goes through the
phases `body`, `db`, `vpn`, `answer` of `RegisterNodeHandler`, the longest handler; its
`age` in ticks is what read and write deadlines are compared with, and `gone` is a
closed connection the server has noticed, which cancels the request's context.
`GET /v1/vpn/status` is the other request that reaches the provider (`status`); its
answer too may take the client's time limit. `Tick` passes only when all that is
short against it has been done, so that a deadline is neither early nor late.
Time passes for a handler while it waits for its client, for the provider, or for
the database: `busy_timeout` lets each statement wait 5 s, the pool of ten
connections lets it wait before that without any limit, and `waited` is that part
of its age. The writing of an answer takes no tick; the write timeout would end it.

A setting is a function from field names, and a field stands for those that
`Resolve` and `Validate` treat alike: `auth` is `require_auth`, `rpm` the requests
per minute as positive or not, `credentials` the set of providers whose API key (and
tailnet or user) is complete. A file that is cut short is garbled or is what parses of
it (`Cut`): its first fields, the last number perhaps without some digits. A schema is the set of columns added since
the first version; which statement SQLite accepts on it - a column is not added
twice, a default that is not constant is refused on a table with rows - is
modelled from its documented behaviour.

`VpnClient` has one call per slot. An attempt may fail after the provider made the key
(`lost = 1`): a timeout, a body cut short, a cancelled context. `made` counts the keys at
the provider, which the code cannot see, `generated` and `errors` the two metrics,
which it can.

**Faulty variants.** Operators named `X_Something` with the comment *Faulty
variant* are not part of the models. Each is a plausible slip in the code `X`
models (a dropped test, a wrong comparison, a forgotten call); put in the place
of `X` it makes the property listed with it in `PROJECT.json` ("mutants") fail,
which shows that the property depends on that code.

## 3. The runs

`tlc -workers 2 -config <cfg> <module>`. The runs marked *violated* state what a
doc or a test says, and TLC shows the code doing otherwise.

| run | module, cfg | what it shows |
|---|---|---|
| `relay_writes` | `MCRelayRegistry`, `RelayWrites.cfg` | `TypeOK`, `OnlineIsListed`, `RegistrationKept` with two overlapping writes of every kind on one relay, the sweep, failures, restarts |
| `relay_lease` | `MCRelayRegistry`, `RelayLease.cfg` | `ImplementsLease`: the registry implements `RelayLease`; `SilentRelaysEvicted`, under fairness |
| `relay_coherence` | `MCRelayConsistency`, `RelayCoherence.cfg` | `CacheCoherent`, `ServedStaleness`: filtered and unfiltered `GET` against writes and expiry |
| `relay_paging` | `MCRelayConsistency`, `RelayPaging.cfg` | `CacheCoherent` with two relays, two concurrent fills, and room for one relay in a response |
| `deleted_relay_listed` | `MCRelayConsistency`, `DeletedListed.cfg` | *violated* `DeletedStaysGone`: a `GET` that selected before a deletion caches the deleted relay after it |
| `node_identity` | `MCNodeRegistry`, `NodeIdentity.cfg` | `TypeOK`, `OneIdentityPerKey`, `DeletionIsFinal`; `ImplementsDirectory`: the registry implements `NodeDirectory` |
| `register_twice_500` | `MCNodeRegistry`, `RegisterTwice.cfg` | *violated* `RegistrationIsIdempotent`: the second of two overlapping registrations is answered 500 |
| `recent_node_inactive` | `MCNodeRegistry`, `RecentNode.cfg` | *violated* `RecentNodesStayActive`: `last_seen_at` is never set, so each node is made inactive by the next job run |
| `node_relay` | `MCCoordServer`, `NodeRelay.cfg` | `RelayOwnerKnown`; `LateRelaysRunOut`: the relays a deleted node still gets come from registrations admitted before, one from each |
| `deleted_node_relay` | `MCCoordServer`, `DeletedNodeRelay.cfg` | *violated* `DeletedNodesHaveNoRelay`: the relay of a node stays when the node is deleted |
| `rate_limiter` | `MCRateLimiter`, `RateLimiter.cfg` | `TypeOK`, `RetryAfterHonest`, `ImplementsMeter` |
| `server_process` | `MCServerProcess`, `ServerProcess.cfg` | `TypeOK`, `RestartsAlike`, `SchemaGapsExplained`, `DrainCutsOnlyDeadAnswers`, `KeysAccounted`, `WaitsBounded`, `DrainAdvances`, and `SignalEndsProcess` under fairness: two starts from five installations |

**Bounds, and why they are enough.** `MaxTime` bounds the clock. `RelayTTL` is 1,
so a relay can be evicted at time 3 (silent for more than twice the TTL) and
`MaxTime` 4 lets an eviction be followed by a new registration; where only two
times matter (`relay_paging`, `deleted_relay_listed`) it is 1. Two writers are
enough for every pairwise overlap on one row, since a write touches one row with
one statement; two nodes with `MaxRelays` 1 give the ordering and the cut of a
listing; two readers give two competing `Set`s. In `relay_lease` one relay is enough: the
statements of the sweep act on each row alone, and the theorem is for any number. In `node_identity` three ids and
two keys are enough for two registrations to collide and a third to follow a
deletion. `node_relay` has two writers (interchangeable, so with symmetry) for two
registrations of one relay under way when its node is deleted, no plain `PUT`, which
never looks at a node, and one tick: nothing in its properties is about time.
`deleted_node_relay` has three, so that the relay of the deleted node may also expire.
In `rate_limiter` the rates 40 and 80 a minute and half-second ticks
make a token take a number of ticks that is not a whole number of seconds, a
burst of 2 is exhausted and refilled within 8 ticks, and the idle limit of 3
ticks is exactly the time the faster rate needs. The theorems of section 4 remove
the bounds for most of these properties.

In `server_process` a tick is 10 s: an attempt takes 1, the pause of 1 s before the
second counts as 1 (rounded up), the read and write timeouts of 15 s are 2, the
drain of 30 s is 3. A request waits for one tick at most in its statements (`MaxWait`), and
ages are not told apart from 7 on (`MaxAge`): `WaitsBounded` allows 5 and that tick, so
that a longer wait would be seen. In `Cuts`, 0 fields are an empty file, 3 end within a
number, 5 before the fields about the provider. So a call that
times out twice outlasts the write timeout, and a body that never arrives meets the
read deadline within the drain, as with the real values. `MaxStarts` 2 gives a start that dies
and one that finds what it left; a third would find nothing that a second cannot,
since `file` and `db` are all that survives. `MaxRequests` 2 lets a second request
follow the first on its connection. There is one slot: requests act on each other
only through `AllIdle`, `MayWait` and the counters, two slots do not fit the time
of a run, and the theorems hold for any number. The five installations are no file and
no database; a Headscale provider over an old database without rows; one without an
API URL and no database; no timeouts and no authentication over a database with rows
that lacks a column with a constant default and one without; and a file that is not
valid over a database that lacks `relays.last_seen_at` and has rows, which is reached
once the operator generates another file. Deadlock is not checked: a process that is down and out of starts rests.

**Which nodes a relay request finds.** `relay_writes` and `relay_lease` have `Registered` as all sets of nodes
(`AnyNodes`), so nodes come and go between any two steps. The cache runs have `AllNodes`, every node registered throughout:
their matter is the listing, which never looks a node up, and with all nodes there more writes
succeed. The theorems hold for every `Registered`.

**Views and symmetry.** Slots, nodes and keys are interchangeable and no liveness is
checked with symmetry. `Relevant`, the view of the two large cache runs, leaves
out what no action and none of their invariants reads: the last reply unless it
is a listing, `created_at`, and `gone`.

**Assumptions that are not in the code.**

* `MaxLatency` bounds the time from the arrival of a `GET` to its answer and its
  `Set`. An answer later than the server's write timeout does not reach the client, but
  nothing in the code stops a stalled handler from filling the cache later still;
  `ServedStaleness` is stated relative to the bound.
* `SerialRefresh`: in `relay_lease` a client does not have two refreshes of one relay
  in flight. Without it `last_seen_at` can go back, because handlers take the
  time before the statement: two refreshes can commit in the opposite order. No
  text of the repository rules this out, so it is an assumption and not a finding;
  all other runs leave refreshes free to overlap.
* `OnlineIsListed` holds where the online threshold is at most the relay TTL;
  the defaults are 180 and 300 seconds, and validation does not compare them.
* `IdleAssumption`: the ten minutes after which an idle bucket is dropped fill a
  bucket, that is `burst <= 10 * rpm`. The defaults satisfy it; validation does
  not check it.
* `LimitAssumption` takes the two rates and the burst to be positive. Validation
  checks only `requests_per_minute`.

**Fairness.** `FairSpec` of `RelayRegistry` is used by `relay_lease` alone. Weak
fairness of `StartSweep` is the ticker of `Runner.Start`, which comes back for
ever. Strong fairness of the two statements says that not every attempt fails:
an attempt is enabled again with each sweep, and `SweepFails` may take it away
any number of times. Requests, ticks of the clock and restarts have no fairness:
clients may stop at any point.

`FairSpec` of `ServerProcess` has weak fairness of what runs by itself: the failure
of a read at its deadline (`ReadFails`), the end of a handler's statements
(`StatementsFail`; the busy timeout ends the wait for a lock, and that another statement
gives its connection back the wait for one), each step of a provider call and what
follows it, whose `http.Client` has a timeout, the steps of main, and time. It has none
for what the process waits for: a client that sends its body, the provider's
success, the runner's job, a signal.

## 4. The theorems

`tlapm <module>` checks each module to the last leaf.

| theorem | module | statement |
|---|---|---|
| `RegistryTypeOK` | `RelayRegistry_proofs` | `Spec => []TypeOK` |
| `StalenessBounded` | `RelayRegistry_proofs` | `Spec => []ServedStaleness` |
| `OnlineRelaysListed` | `RelayRegistry_proofs` | `Spec => []OnlineIsListed` |
| `RegistrationsKept` | `RelayRegistry_proofs` | `Spec => RegistrationKept` |
| `RegistryImplementsLease` | `RelayLease_proofs` | `SerialRefresh` gives `Spec => ImplementsLease` |
| `NodesTypeOK` | `NodeRegistry_proofs` | `Spec => []TypeOK` |
| `KeysIdentifyNodes` | `NodeRegistry_proofs` | `Spec => []OneIdentityPerKey` |
| `DeletedStayDeleted` | `NodeRegistry_proofs` | `Spec => DeletionIsFinal` |
| `LimiterTypeOK` | `RateLimiter_proofs` | `Spec => []TypeOK` |
| `RetryAfterIsHonest` | `RateLimiter_proofs` | `Spec => []RetryAfterHonest` |
| `LimiterImplementsMeter` | `RateLimiter_proofs` | `IdleAssumption` gives `Spec => ImplementsMeter` |
| `CachesCohere` | `RelayConsistency_proofs` | `HSpec => []CacheCoherent` |
| `RegistryImplementsDirectory` | `NodeRegistry_proofs` | `Spec => ImplementsDirectory` |
| `RelaysHaveOwners` | `CoordServer_proofs` | `Spec => []RelayOwnerKnown` |
| `LateRelaysEnd` | `CoordServer_proofs` | `Spec => LateRelaysRunOut` |
| `ServerKeepsIdentity` | `CoordServer_proofs` | `Spec` gives `[]N!OneIdentityPerKey`, `N!DeletionIsFinal`, `N!ImplementsDirectory` |
| `ServerServesRelays` | `CoordServer_proofs` | `Spec` gives `[]R!ServedStaleness`, `[]R!OnlineIsListed`, `R!RegistrationKept` |
| `ServerKeepsLeases` | `CoordServer_proofs` | `SerialRefresh` gives `Spec => R!ImplementsLease` |
| `TypeCorrect` | `ServerProcess_proofs` | `Spec => []TypeOK` |
| `RestartsKeepConfiguration` | `ServerProcess_proofs` | `Spec => []RestartsAlike` |
| `MigrationRepairs` | `ServerProcess_proofs` | `Spec => []SchemaGapsExplained` |
| `DrainCutsNoLiveAnswer` | `ServerProcess_proofs` | `Spec => []DrainCutsOnlyDeadAnswers` |
| `KeysAreAccounted` | `ServerProcess_proofs` | `Spec => []KeysAccounted` |
| `WaitsAreBounded` | `ServerProcess_proofs` | `Spec => []WaitsBounded` |
| `DrainsAdvance` | `ServerProcess_proofs` | `Spec => DrainAdvances` |

All rest on the named assumptions about the constants (`ParameterAssumption`,
`NodeFinite`, `NeverAssumption`, `LimitAssumption`, `ServerAssumption`, ...), which TLC evaluates in
the runs. The arguments:

* *Types.* `RelayTable_proofs` shows of each statement that it maps tables to tables.
  `WriteOK` says which fields a request carries in which phase; without it the
  statement of a request could not be shown to find its fields.
* *Staleness* (`AgeInv`). What a `Reader` carries was selected against a cutoff
  that is its own clock reading less `RelayTTL`, and the reading is at most
  `MaxLatency` old when it answers; what the cache holds was fresh within
  `RelayTTL + MaxLatency` at `cachedAt`. The property alone speaks only of the last
  reply and is not inductive.
* *Online is listed* (`SilenceInv`). A row that is not active has been silent for
  more than `RelayTTL`: the sweep marks against a cutoff that is at most
  the present one, and every refresh sets the row active. So a row within
  the threshold is active, and fresh.
* *Leases* (`LeaseInv`). Three parts: at most one refresh per relay in flight
  (`OneRefresh`), a refresh's clock reading is not older than the row it is going
  to write (`InOrder`), and the sweep's reading is not in the future. The
  refinement mapping takes a row to its `last_seen_at` and whether it is active, and keeps
  the `DELETE`s that are not answered yet, so that a relay the sweep took by mistake could
  not pass for one removed on request.
* *Identity.* A call that is about to answer names a row with its key; the UNIQUE
  constraint makes the row the only one. `Extends` says that no statement removes a row,
  changes a key or touches a deleted row, and gives both theorems.
* *Directory* (`AnnounceInv`). The mapping forgets statuses and takes the entries that are not announced
  from the calls in phase `respond` with code 201. For a response to be an `Announce`, it
  has to take its node out of `pending`, and so no other call may be about to announce the same one
  (`OneAnnouncement`): only `CreateNode` sets 201, with an id that has no row, and an announced id
  has one. `CodesSet` says that 200 and 201 are the only codes a call answers with.
* *Retry-After* (`PromiseInv`). Refilled from its last change to the promised
  time, the bucket of a refused client holds a token. This does not depend on
  the clock, and so survives ticks; `CeilingCovers` is the rounding, `ProductMonotone`
  the refill.
* *Meter.* The debt of an address is what its bucket lacks, counted as if it were
  refilled all along at the faster rate. A refill at either rate adds at most
  that (`RefillBounds`), a bucket old enough to be dropped owes nothing.
* *Cache* (`CoherenceInv`). `CacheCoherent` says nothing of a listing that is still held by its
  reader; the invariant does, for every node not in `overtaken` (`ReadCoherent`), and bounds
  the reader's cut-off by the present one. A listing is as stored when it is selected; the
  clock, the marking and the eviction keep it so, and a write keeps it so for all relays but
  its own (`StepSurvives`), which is in `Pending` until its `Invalidate` clears the cache.
* *Owners* (`OwnerInv`). A registration past its lookup names a node that has a row, and rows
  of nodes stay (`RowsKept`), so its insertion, the only one, names one too. What becomes
  of the relay of a deleted node follows from a case split over a step, with no further
  invariant: only `ExecUpsert` adds a relay, and it takes its request out of `Registrars`; only
  `ReceiveRegister` puts one in, and it finds no deleted node.
* *The whole server.* `ServerRunsNodes` and `ServerRunsRelays` show `Spec => N!Spec` and
  `Spec => R!Spec`, action by action, from the typing of the node table alone. The theorems of the registries
  are then instances: nothing about the registries is proved twice, and nothing about
  the rest of the server is assumed beyond what `Elsewhere` says.
* *Restarts* (`ConfigInv`). The file of a first run is `Written(written)`, and `written` is a
  complete configuration with a key. The lemma on `Written` then says that `FromFile` gives
  back `written`: a field that `omitempty` leaves out is a field whose zero is supplied
  again, by the defaults or because a written configuration never has it, and the
  environment finds every field marked. The invariant ties the two phases in which the
  file is being written to the configuration in memory.
* *Migration* (`SchemaInv`). Each statement before `ddl` has achieved its column, or it is an
  `ALTER` whose column is in `skipped` or refused, for its default, by the table as it is now
  (a table that has rows keeps having some). At the end every column of the schema has had its turn,
  and the accepted `CREATE INDEX` statements prove theirs to be there.
* *Drain* (`DrainInv`). Once draining, `age + drain >= DrainTimeout` for each request that is
  not idle: no request is accepted after the signal, so each has waited through
  the whole drain. At its end `age` is at least any write timeout within it.
* *Bounded waits* (`TimeInv`). `Remaining` is what a call in its phase may still take: two
  attempts and the pause, less what is behind it. In `body` the age is within the read
  deadline, in `db` within that and `waited`; from there on age and what remains never exceed
  the bound and `waited`. A tick in `db` adds one to both sides, any other takes one from what
  remains. `TypeOK` had the age up to `MaxAge` only.
* *Draining.* `StepsLeft` is a measure: every step of a handler lowers its own and raises no other,
  `Tick` lowers `drain`, and what else may happen, a job of the runner or a client that leaves, sets
  neither back. With the fairness of `FairSpec` this gives `SignalEndsProcess`; the theorem is its safety half.
* *Keys* (`ClientInv`). A call carries at most one lost key per attempt it has behind it, and is
  settled on at most two.

**Only model-checked.** `SilentRelaysEvicted` and `SignalEndsProcess`: liveness under
fairness is outside what TLAPS does. `DrainsAdvance` and `WaitsAreBounded` are the parts of the second that are safety.
Every other property of a passing run is a theorem.
The four statements that are violated are of course not
theorems.

## 5. Where code and texts disagree

The runs marked *violated* are listed in `PROJECT.json` under "findings" with the
text they contradict. Others were met while modelling and need no run to see:

* `PutV1RelayHeartbeatHandler` answers 500 when its relay disappears between its lookup and
  its update; `docs/api.md:570` says 404.
* `README.md:209` describes `coord_nodes_total` as the number of registered nodes by status.
  `refreshNodeGauges` sets the gauges of the statuses the `GROUP BY` returned
  (`internal/jobs/runner.go:159`), so one that no node has any more keeps its last value.
* `RegisterRelayHandler` accepts a node that the job has made inactive; the comment at
  `internal/api/relays.go:236` says that the node is verified to be active.
* `GetNodeStatusHandler` answers 404 for a registered node without a relay;
  `docs/api.md:246` describes an answer with `last_seen: null`.
* `docs/architecture.md:181` gives 24 hours as the default of
  `node_inactive_threshold_hours`; `cmd/server/main.go` passes the constant 48.
* `README.md:197` and `docs/api.md:167` say that a registration still succeeds when the VPN
  provider cannot be reached. When it does not answer, two attempts of 10 s and the pause
  exceed the default write timeout of 15 s: the node is stored, and its client gets no
  response. A Headscale provider set up by `headscale_url` in a file has no base URL
  at all: the client takes `headscale_api_url`, to which only the environment variable copies it.
* Environment variables are supported for compatibility (`README.md:89`), and the API key
  is to be set by one alone (`docs/api.md:19`). Without a file `Resolve` does not look at them;
  with one, `markAllFieldsAsSource` gives every field they could set a source first.
* The comment at `internal/store/sqlite.go:105` says that the `ALTER`s upgrade a previous
  schema. SQLite refuses a default of `datetime('now')` on a table with rows, and the error is
  ignored: a `relays` table with rows and without `last_seen_at` then fails at its index, at every
  start; one without `updated_at` is served, and each statement that names the column fails.
* The header that `WriteConfig` gives a file says to re-run with flags to update it
  (`internal/config/loader.go:81`); with a file there, flags hold for one start and nothing is written.
* The template says that an empty `admin_api_key` is generated on the first run
  (`internal/config/default_config.toml:12`); with a file it is generated at every start and not saved.
* `bind` is the documented address, but the server listens on `cfg.Server.Listen`, which
  `bind` in a file does not set.
* `--generate-config` replaces an existing file without a question.

## 6. Not modelled, and why

* `UpdateNode`, `TouchNode`, `ListNodes`, `MarkRelayUnreachable` have no caller in
  the server. The gauge of active relays only observes; that of nodes is in
  `NodeRegistry` (`SetGauges`), for the divergence of section 5.
* An error reported after a statement has committed (a context cancelled at that
  moment) is not told apart from a success or from a failure without effect.
* Authentication and validation decide about one request alone. The ownership check
  of `PUT /v1/relays` reads the node table and is part of `ReceiveFullHeartbeat`, where any
  request may carry either key.
* The choice of the client's address and of exempt paths in the rate limiter keeps
  no state. The default of `IsNodeOnline` for a threshold that is not positive is replaced
  by the assumption that it is positive.
* `Load` and the override functions of `internal/config/config.go` are the earlier form of `Resolve`
  and have no caller but tests. The mock provider has none either.
* In `ServerProcess` the operator generates a configuration only while the process is down, and
  what statements do to rows is left to the registries. Local steps, the writing of an answer
  among them, take less than a tick, and so does a call that is cut off. The runner's jobs are one step with no effect on what the process waits for. An interval of 0,
  on which `time.NewTicker` panics, is one of the causes of `Die`.
* Requests beyond their write deadline that are not cut (the answer is computed and lost)
  are not told apart from answered ones: the code does not see the difference.

## 7. Plan

Done, in this order, the most important behaviour first: `RelayTable`,
`RelayRegistry`, `RelayLease`, `RelayConsistency`, `NodeTable`, `NodeRegistry`,
`CoordServer`, `RateLimiter` with `RateMeter`, and their proof modules; then `Configuration`, `SchemaMigration`, `VpnClient`, and `ServerProcess`, which
composes them, with their proofs.

Then the proofs across modules: the registries as open systems, `CoordServer` as their composition,
`NodeDirectory`, the bounds of `ServerProcess`.

Next:

1. The coherence of total and listing when no write comes between `CountRows` and `SelectRows`.
2. How long a deleted node can still be listed, over both registries: from its last relay request, at
   most as long as `ServedStaleness` allows.
3. That a sweep which is not failed leaves no relay that was silent for twice the TTL before it started: the safety half of
   `SilentRelaysEvicted`.

The runs are kept to a dozen, one per question. New properties share a run through
a module that composes theirs, or take the place of one that a theorem answers for all
parameters.
