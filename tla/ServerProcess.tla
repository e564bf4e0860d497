---------------------------- MODULE ServerProcess ----------------------------
(***************************************************************************)
(* The life of the server process, cmd/server/main.go: it resolves its     *)
(* configuration, migrates the database, checks its components, serves,    *)
(* and on a signal drains and closes; it may die at any point and is       *)
(* started again, with other flags or the same.                            *)
(*                                                                         *)
(* While it serves, each Slot holds a connection with one request: a       *)
(* registration, whose handler does the most (it reads a body, runs its    *)
(* statements, asks the VPN provider for a key and answers), or a question *)
(* for the provider's status.  What the statements do is the matter of     *)
(* NodeRegistry and RelayRegistry; here it matters when they run and how   *)
(* long a handler waits for them.  Time passes in ticks (10 s in the       *)
(* instances), which everything that has a deadline or takes long counts   *)
(* down; local steps, the writing of an answer among them, are short       *)
(* against a tick.                                                         *)
(***************************************************************************)
EXTENDS Configuration, SchemaMigration, VpnClient, FiniteSets

CONSTANTS
    DrainTimeout,      \* time given to srv.Shutdown, in ticks
    Installations,     \* what there is at first: [file, db] records
    FlagSets,          \* the command lines in use
    EnvSets,           \* the environments in use
    NoConfig,          \* no configuration resolved
    Absent, Garbled,   \* config.toml is not there, or does not parse
    Cuts,              \* how many fields a file may have when its write is cut short
    MaxAge,            \* ages of requests are not told apart from here on
    MaxWait,           \* bound on the time a request spends in its statements
    MaxStarts,         \* bound on the starts of the process
    MaxRequests        \* bound on the requests accepted

ASSUME ProcessAssumption ==
    /\ DrainTimeout \in Nat \ {0} /\ MaxAge \in Nat /\ MaxAge >= DrainTimeout
    /\ MaxWait \in Nat /\ MaxStarts \in Nat /\ NoKey \notin 1..MaxStarts
    /\ Cuts \subseteq 0..Len(FileOrder)
    /\ \A i \in Installations : IsSchema(i.db)
    /\ \A env \in EnvSets : DOMAIN env \subseteq MarkedFields
    /\ \A given \in FlagSets :
          /\ DOMAIN given \subseteq {"bind", "key", "path", "provider", "level"}
          /\ "bind" \in DOMAIN given => given["bind"] # NoAddr

Nothing == [f \in {} |-> ""]

VARIABLES
    file,       \* what config.toml sets
    db,         \* the schema of the database
    phase,      \* where main() is
    cfg,        \* the configuration in force
    flags,      \* the command line of this start
    ddl,        \* index of the next statement of migrate
    runner,     \* the goroutine of the job runner
    stopped,    \* Runner.done is closed
    open,       \* the database handle is open
    drain,      \* time left to srv.Shutdown
    request,    \* the state of each request
    starts, accepted,           \* counters for the bounds
    skipped,    \* history: columns this start failed to add though SQLite would have
    written     \* history: the configuration of the run that wrote the file

disk == <<file, db, written>>
startVars == <<cfg, flags, ddl, skipped, starts>>
serving == <<runner, stopped, open, drain, request, accepted>>
vars == <<disk, phase, startVars, serving, clientVars>>

\* `waited' is the part of its age a request spent in its statements.
Request == [pc: {"idle", "body", "db", "vpn", "status", "answer"}, age: 0..MaxAge,
            waited: 0..MaxWait, gone: BOOLEAN]
NoRequest == [pc |-> "idle", age |-> 0, waited |-> 0, gone |-> FALSE]

Init ==
    /\ \E i \in Installations : file = i.file /\ db = i.db
    /\ written = NoConfig
    /\ phase = "down" /\ cfg = NoConfig /\ flags = Nothing
    /\ ddl = 1 /\ skipped = {} /\ starts = 0
    /\ runner = "off" /\ stopped = FALSE /\ open = FALSE /\ drain = 0
    /\ request = [s \in Slot |-> NoRequest] /\ accepted = 0
    /\ ClientInit

\* The process is gone, and with it all it had in memory.
Gone ==
    /\ phase' = "down" /\ cfg' = NoConfig /\ flags' = Nothing
    /\ ddl' = 1 /\ skipped' = {}
    /\ runner' = "off" /\ stopped' = FALSE /\ open' = FALSE /\ drain' = 0
    /\ request' = [s \in Slot |-> NoRequest]
    /\ call' = [s \in Slot |-> NoCall]
    /\ made' = 0 /\ generated' = 0 /\ errors' = 0
    /\ UNCHANGED <<starts, accepted>>

(***************************************************************************)
(* Start-up.                                                               *)
(***************************************************************************)

\* Resolve, except for the writing of a file.  `given' and `env' are the flags
\* and the environment of this start; when the configuration is invalid, or the
\* file does not parse, main() exits at once.
Resolve(given, env) ==
    LET fresh == starts + 1
        c == IF file = Absent THEN FirstRun(given, fresh)
             ELSE FromFile(file, env, given, fresh)
    IN
    /\ phase = "down" /\ starts < MaxStarts
    /\ starts' = fresh
    /\ IF file = Garbled \/ (file # Absent /\ ~Validate(c))
       THEN UNCHANGED <<cfg, flags, phase>>
       ELSE /\ cfg' = c
            /\ flags' = given
            /\ phase' = IF file = Absent THEN "writing" ELSE "migrating"
    /\ UNCHANGED <<disk, ddl, skipped, serving, clientVars>>

\* What a write of `settings' may leave that is not completed: os.WriteFile
\* empties the file before it fills it, and a part of it parses or does not.
Incomplete(settings) == {Garbled} \cup UNION {Cut(settings, k) : k \in Cuts}

\* os.WriteFile at work, until FinishWrite or the end of the process.
TruncateFile ==
    /\ phase = "writing"
    /\ file' \in Incomplete(Written(cfg))
    /\ written' = NoConfig
    /\ phase' = "truncated"
    /\ UNCHANGED <<db, startVars, serving, clientVars>>

\* The rest of WriteConfig, and Validate, which comes after it.
FinishWrite ==
    /\ phase = "truncated"
    /\ file' = Written(cfg)
    /\ written' = cfg
    /\ IF Validate(cfg)
       THEN phase' = "migrating" /\ UNCHANGED <<db, startVars, serving, clientVars>>
       ELSE Gone /\ UNCHANGED db

\* --generate-config replaces any file by the template and exits.
GenerateConfig ==
    /\ phase = "down" /\ file # Template
    /\ file' \in Incomplete(Template) \cup {Template}
    /\ written' = NoConfig
    /\ UNCHANGED <<db, phase, startVars, serving, clientVars>>

\* A statement of migrate that is accepted.
MigrateStep ==
    /\ phase = "migrating" /\ ddl <= Len(Statements)
    /\ Accepted(db, Statements[ddl])
    /\ db' = Executed(db, Statements[ddl])
    /\ ddl' = ddl + 1
    /\ UNCHANGED <<file, written, phase, cfg, flags, skipped, starts, serving, clientVars>>

\* A failed ALTER is ignored, whether SQLite refuses it or the database is busy
\* or out of reach at that moment; `skipped' notes the second.
SkipAlter ==
    /\ phase = "migrating" /\ ddl <= Len(Statements)
    /\ Statements[ddl].kind = "alter"
    /\ skipped' = IF Accepted(db, Statements[ddl])
                  THEN skipped \cup Statements[ddl].columns ELSE skipped
    /\ ddl' = ddl + 1
    /\ UNCHANGED <<disk, phase, cfg, flags, starts, serving, clientVars>>

\* RunChecks.  The provider's HealthCheck fails or not; it is asked only when
\* it is in use, and its failure is only shown.
RunChecks ==
    /\ phase = "migrating" /\ ddl > Len(Statements)
    /\ \E failed \in IF VpnInUse(cfg) THEN BOOLEAN ELSE {FALSE} : Probe(failed)
    /\ open' = TRUE
    /\ phase' = "listening"
    /\ UNCHANGED <<disk, startVars, runner, stopped, drain, request, accepted>>

\* The runner is started, then the listener.
Listen ==
    /\ phase = "listening"
    /\ runner' = "job"
    /\ phase' = "serving"
    /\ UNCHANGED <<disk, startVars, stopped, open, drain, request, accepted, clientVars>>

(***************************************************************************)
(* Serving.                                                                *)
(***************************************************************************)

SetPc(s, pc) == request' = [request EXCEPT ![s].pc = pc]

Keep == UNCHANGED <<file, written, phase, startVars, runner, stopped, open, drain>>

\* Faulty variant: the listener stays open during the drain.
Accepting_WhileDraining == phase \in {"serving", "draining"}

Accepting == phase = "serving"

Accept(s) ==
    /\ Accepting /\ request[s].pc = "idle" /\ accepted < MaxRequests
    /\ accepted' = accepted + 1
    /\ SetPc(s, "body")
    /\ Keep /\ UNCHANGED <<db, clientVars>>

ReadExpired(s) == cfg.read # 0 /\ request[s].age >= cfg.read

\* The body arrives before the read deadline, and is accepted or not.
ReadBody(s) ==
    /\ request[s].pc = "body" /\ ~ReadExpired(s)
    /\ \E pc \in {"db", "answer"} : SetPc(s, pc)
    /\ Keep /\ UNCHANGED <<db, accepted, clientVars>>

\* Reading the body fails, at the deadline or because the connection is gone.
ReadFails(s) ==
    /\ request[s].pc = "body" /\ (ReadExpired(s) \/ request[s].gone)
    /\ SetPc(s, "answer")
    /\ Keep /\ UNCHANGED <<db, accepted, clientVars>>

\* GET /v1/vpn/status, which has no body: the provider is asked.
GetVPNStatus(s) ==
    /\ request[s].pc = "body" /\ VpnInUse(cfg)
    /\ Ask(s)
    /\ SetPc(s, "status")
    /\ Keep /\ UNCHANGED <<db, accepted>>

\* Its answer, or what it means that there is none.
EndStatus(s) ==
    /\ request[s].pc = "status"
    /\ \E failed \in BOOLEAN :
          /\ ~failed => HasBaseURL(cfg) /\ ~request[s].gone
          /\ EndAsk(s, failed)
    /\ SetPc(s, "answer")
    /\ Keep /\ UNCHANGED <<db, accepted>>

\* The statements of the handler, on one of the tables; they name all columns.
RunStatements(s, table) ==
    /\ request[s].pc = "db" /\ ~request[s].gone
    /\ open /\ Columns(table) \subseteq db.columns
    /\ db' = [db EXCEPT !.filled = @ \cup {table}]
    /\ IF VpnInUse(cfg)
       THEN SetPc(s, "vpn") /\ Begin(s)
       ELSE SetPc(s, "answer") /\ UNCHANGED clientVars
    /\ Keep /\ UNCHANGED accepted

\* A statement fails: the handle is closed, a column is missing, the context
\* is cancelled, the database is busy.
StatementsFail(s) ==
    /\ request[s].pc = "db"
    /\ SetPc(s, "answer")
    /\ Keep /\ UNCHANGED <<db, accepted, clientVars>>

\* The provider can be reached only at a base URL, and by a request whose
\* context is not cancelled.
CallStep(s) ==
    /\ Running(s)
    /\ \/ HasBaseURL(cfg) /\ ~request[s].gone /\ Succeed(s)
       \/ \E lost \in IF HasBaseURL(cfg) THEN 0..1 ELSE {0} : FailTransiently(s, lost)
       \/ HasBaseURL(cfg) /\ \E lost \in 0..1 : FailForGood(s, lost)
       \/ Retry(s)
    /\ Keep /\ UNCHANGED <<db, request, accepted>>

\* Whatever came of the call, the registration is answered.
EndCall(s) ==
    /\ request[s].pc = "vpn" /\ call[s].pc = "done"
    /\ call' = [call EXCEPT ![s] = NoCall]
    /\ SetPc(s, "answer")
    /\ Keep /\ UNCHANGED <<db, accepted, made, generated, errors>>

Answer(s) ==
    /\ request[s].pc = "answer"
    /\ request' = [request EXCEPT ![s] = NoRequest]
    /\ Keep /\ UNCHANGED <<db, accepted, clientVars>>

\* The server notices that the client closed its connection; the request's
\* context is cancelled.
Disconnect(s) ==
    /\ request[s].pc # "idle" /\ ~request[s].gone
    /\ request' = [request EXCEPT ![s].gone = TRUE]
    /\ Keep /\ UNCHANGED <<db, accepted, clientVars>>

\* The runner's goroutine: a job starts on a tick; it ends, also when the
\* handle is closed; once Stop was called the select may still take a tick.
RunnerStep ==
    /\ \/ runner = "select" /\ runner' = "job"
       \/ runner = "job" /\ runner' = "select"
       \/ runner = "select" /\ stopped /\ runner' = "off"
    /\ UNCHANGED <<disk, phase, startVars, stopped, open, drain, request, accepted, clientVars>>

(***************************************************************************)
(* Shutdown and the end of the process.                                    *)
(***************************************************************************)

\* SIGTERM or SIGINT: Stop is called, then Shutdown closes the listener.
Signal ==
    /\ phase = "serving"
    /\ phase' = "draining" /\ stopped' = TRUE /\ drain' = DrainTimeout
    /\ UNCHANGED <<disk, startVars, runner, open, request, accepted, clientVars>>

AllIdle == \A s \in Slot : request[s].pc = "idle"

DrainDone ==
    /\ phase = "draining" /\ AllIdle
    /\ phase' = "closing"
    /\ UNCHANGED <<disk, startVars, serving, clientVars>>

\* Faulty variant: Shutdown is given a context without a deadline.
DrainIsOver_Never == FALSE

DrainIsOver == drain = 0

\* Shutdown fails at its deadline, and Close cuts all connections.
DrainExpires ==
    /\ phase = "draining" /\ DrainIsOver /\ ~AllIdle
    /\ phase' = "closing"
    /\ request' = [s \in Slot |->
          IF request[s].pc = "idle" THEN NoRequest ELSE [request[s] EXCEPT !.gone = TRUE]]
    /\ UNCHANGED <<disk, startVars, runner, stopped, open, drain, accepted, clientVars>>

\* st.Close; handlers and the runner may still be at work.
CloseStore ==
    /\ phase = "closing"
    /\ phase' = "closed" /\ open' = FALSE
    /\ UNCHANGED <<disk, startVars, runner, stopped, drain, request, accepted, clientVars>>

\* main() returns.
Exit ==
    /\ phase = "closed"
    /\ Gone
    /\ UNCHANGED disk

\* The process ends without a shutdown: it is killed, a start-up step fails (a
\* refused CREATE INDEX, a full disk, an address in use), the listener fails,
\* or all it was asked for was --validate-config.
Die ==
    /\ phase # "down"
    /\ Gone
    /\ UNCHANGED disk

\* A request grows older.  Its statements have no deadline of their own: each may
\* wait for the database for as long as busy_timeout says, and before that for
\* one of the connections of the pool.
Older(q) ==
    IF q.pc = "idle" \/ q.age = MaxAge THEN q
    ELSE [q EXCEPT !.age = @ + 1, !.waited = IF q.pc = "db" THEN @ + 1 ELSE @]

\* A tick passes when all that cannot take that long is done.
Tick ==
    /\ phase \in {"serving", "draining"}
    /\ phase = "draining" => drain > 0 /\ ~AllIdle
    /\ MayWait
    /\ \A s \in Slot :
          /\ request[s].pc \in {"idle", "body", "db"} \/ Running(s)
          /\ request[s].pc = "db" => request[s].waited < MaxWait
          /\ request[s].pc = "body" => ~ReadExpired(s) /\ ~request[s].gone
    /\ request' = [s \in Slot |-> Older(request[s])]
    /\ call' = Elapse
    /\ drain' = IF phase = "draining" THEN drain - 1 ELSE drain
    /\ UNCHANGED <<disk, phase, startVars, runner, stopped, open, accepted,
                   made, generated, errors>>

Step(s) ==
    \/ Accept(s) \/ ReadBody(s) \/ ReadFails(s) \/ GetVPNStatus(s) \/ EndStatus(s)
    \/ \E table \in db.tables : RunStatements(s, table)
    \/ StatementsFail(s) \/ CallStep(s) \/ EndCall(s) \/ Answer(s) \/ Disconnect(s)

Next ==
    \/ \E given \in FlagSets, env \in EnvSets : Resolve(given, env)
    \/ TruncateFile \/ FinishWrite \/ GenerateConfig
    \/ MigrateStep \/ SkipAlter \/ RunChecks \/ Listen
    \/ \E s \in Slot : Step(s)
    \/ RunnerStep
    \/ Signal \/ DrainDone \/ DrainExpires \/ CloseStore \/ Exit \/ Die
    \/ Tick

Spec == Init /\ [][Next]_vars

\* What runs does not stop by itself, and time passes.  Nothing is assumed of
\* the clients: a body need not arrive.  Nor of the runner, whose job may hang.
Fairness ==
    /\ \A s \in Slot :
          /\ WF_vars(ReadFails(s)) /\ WF_vars(StatementsFail(s)) /\ WF_vars(EndStatus(s))
          /\ WF_vars(CallStep(s)) /\ WF_vars(EndCall(s)) /\ WF_vars(Answer(s))
    /\ WF_vars(DrainDone) /\ WF_vars(DrainExpires)
    /\ WF_vars(CloseStore) /\ WF_vars(Exit)
    /\ WF_vars(Tick)

FairSpec == Spec /\ Fairness

(***************************************************************************)
(* Properties.                                                             *)
(***************************************************************************)

InForce == phase \in {"migrating", "listening", "serving", "draining", "closing", "closed"}

TypeOK ==
    /\ IsSchema(db)
    /\ phase \in {"down", "writing", "truncated", "migrating", "listening",
                  "serving", "draining", "closing", "closed"}
    /\ phase = "down" => cfg = NoConfig
    /\ InForce => Validate(cfg)
    /\ ddl \in 1..(Len(Statements) + 1) /\ skipped \subseteq Schema
    /\ runner \in {"off", "select", "job"} /\ stopped \in BOOLEAN /\ open \in BOOLEAN
    /\ drain \in 0..DrainTimeout
    /\ request \in [Slot -> Request]
    /\ \A s \in Slot :
          /\ request[s].pc = "status" <=> call[s].pc = "asked"
          /\ request[s].pc = "vpn" <=> call[s].pc \in {"attempt", "backoff", "done"}
    /\ ClientTypeOK

\* A configuration that was written on a first run is the one that every later
\* start without flags runs with, whatever the environment, and however often
\* the process died in between: what WriteConfig leaves out is what Resolve
\* supplies.
RestartsAlike ==
    InForce /\ written # NoConfig /\ flags = Nothing => cfg = written

\* While jobs and handlers run, a column of the schema is missing for one of two
\* reasons, and never one that an index needs: its ALTER met a database that was
\* busy or out of reach, in this very start, or its default is the time of the
\* insertion and the table has rows, an ALTER that SQLite refuses at each start
\* and the code does not notice.  Whatever else an earlier version, a crash or
\* an earlier start left behind is repaired (migrate).
SchemaGapsExplained ==
    runner # "off" =>
        /\ \A c \in Schema \ db.columns :
              c \in skipped \/ (c \in TimeOfInsertion /\ c[1] \in db.filled)
        /\ Indexed \subseteq db.columns

\* With a write timeout within the 30 s of the shutdown, only requests whose
\* answer could not have been delivered any more are cut off by it: when the
\* store is closed, a handler still at work is past its write deadline.
DrainCutsOnlyDeadAnswers ==
    phase \in {"closing", "closed"} /\ cfg.write \in 1..DrainTimeout =>
        \A s \in Slot : request[s].pc # "idle" => request[s].age >= cfg.write

\* Apart from the time it waits for the database, no handler holds its slot for
\* longer than the read deadline, two attempts at the provider and the pause
\* between them, whatever the client and the provider do (ReadTimeout of the
\* http.Server, Timeout of the http.Client, the loop of CreatePreAuthKey).  The
\* database is the one wait without a deadline: busy_timeout limits a statement,
\* nothing limits the wait for a connection.
WaitsBounded ==
    \A s \in Slot : request[s].pc # "idle" /\ cfg.read \in Nat \ {0} =>
        request[s].age <= cfg.read + 2 * AttemptTimeout + Backoff + request[s].waited

\* How many steps a handler has left at most.
StepsLeft(s) ==
    CASE request[s].pc = "body" -> 7
      [] request[s].pc = "db" -> 6
      [] request[s].pc = "vpn" /\ call[s].pc = "attempt" -> 7 - 2 * call[s].attempt
      [] request[s].pc = "vpn" /\ call[s].pc = "backoff" -> 4
      [] request[s].pc = "vpn" /\ call[s].pc = "done" -> 2
      [] request[s].pc = "status" -> 2
      [] request[s].pc = "answer" -> 1
      [] OTHER -> 0

\* A drain gets nearer to its end with every step of a handler and every tick:
\* no connection is taken up any more, no handler starts over, a second signal
\* does not give the time back (srv.Shutdown closes the listener first; main
\* reads one signal).  What else may happen, a client leaving and the runner
\* going on, does not set it back.
Advances ==
    /\ drain' <= drain
    /\ \A s \in Slot : StepsLeft(s)' <= StepsLeft(s)
    /\ \/ drain' < drain
       \/ \E s \in Slot : StepsLeft(s)' < StepsLeft(s)
       \/ RunnerStep
       \/ \E s \in Slot : Disconnect(s)

DrainAdvances == [][phase = "draining" /\ phase' = "draining" => Advances]_vars

\* A signal ends the process, though a client may never send its body, the
\* provider may not answer and a job may hang (the shutdown in main).
SignalEndsProcess == phase = "draining" ~> phase = "down"

=============================================================================
