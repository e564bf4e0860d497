---------------------------- MODULE Configuration ----------------------------
(***************************************************************************)
(* internal/config: how a start of the server turns config.toml, the       *)
(* environment and the command line into its configuration, and what it    *)
(* writes to disk when there is no config.toml.                            *)
(*                                                                         *)
(* Settings are functions from names of fields to values: all of Field in  *)
(* a configuration, some of it in a file, an environment or a command      *)
(* line.  A field stands for all that are treated alike: `level' for the   *)
(* log's level and format, `credentials' for the API keys and the tailnet, *)
(* as the set of providers they are complete for; addresses matter only as *)
(* host:port or not, the requests per minute (`rpm') as positive, 1, or    *)
(* not.  The sections jobs and registry, which nothing here looks at, are  *)
(* left out.                                                               *)
(***************************************************************************)
EXTENDS Integers, Sequences

CONSTANTS
    DefaultAddr,     \* "0.0.0.0:8080"
    HostPort,        \* the addresses net.SplitHostPort accepts
    NoAddr,          \* the empty address
    NoKey,           \* the empty admin_api_key
    ReadTimeout,     \* default of server.read_timeout_seconds, in ticks
    WriteTimeout     \* default of server.write_timeout_seconds, in ticks

ASSUME ConfigurationAssumption ==
    /\ DefaultAddr \in HostPort /\ NoAddr \notin HostPort
    /\ ReadTimeout \in Nat \ {0} /\ WriteTimeout \in Nat \ {0}

Defaults ==
    [bind |-> DefaultAddr, listen |-> DefaultAddr, key |-> NoKey, auth |-> TRUE,
     read |-> ReadTimeout, write |-> WriteTimeout, path |-> "absolute",
     provider |-> "", enabled |-> FALSE, credentials |-> {},
     headscale_url |-> "", headscale_api_url |-> "", rpm |-> 1, level |-> "info"]

Field == DOMAIN Defaults

\* Settings that overrule others, field by field.
Overlay(base, over) ==
    [f \in Field |-> IF f \in DOMAIN over THEN over[f] ELSE base[f]]

\* What the apply functions of environment variables and flags set.
Sets(f) == CASE f = "bind" -> {"bind", "listen"}
             [] f = "headscale_url" -> {"headscale_url", "headscale_api_url"}
             [] OTHER -> {f}

Effect(given) ==
    [g \in UNION {Sets(f) : f \in DOMAIN given} |->
        given[CHOOSE f \in DOMAIN given : g \in Sets(f)]]

\* The fields markAllFieldsAsSource gives a source, when there is a file and
\* when there is none.
MarkedFields == {"bind", "key", "path", "provider", "credentials", "headscale_url", "rpm",
                 "level"}

\* Faulty variant: the environment overrules the file.
ApplyEnv_OverFile(c, env) == Overlay(c, Effect(env))

\* An environment variable applies only to a field that has no source yet, and
\* each of them is about a marked field.
ApplyEnv(c, env) ==
    Overlay(c, Effect([f \in DOMAIN env \ MarkedFields |-> env[f]]))

ApplyFlags(c, flags) == Overlay(c, Effect(flags))

\* An empty admin key is replaced by a new one, whatever the key is empty for.
EnsureKey(c, fresh) == IF c.key = NoKey THEN [c EXCEPT !.key = fresh] ELSE c

\* Resolve up to the writing of the file: `file' is what config.toml sets.
FromFile(file, env, flags, fresh) ==
    EnsureKey(ApplyFlags(ApplyEnv(Overlay(Defaults, file), env), flags), fresh)

\* Without a config.toml the environment is not looked at.
FirstRun(flags, fresh) == EnsureKey(ApplyFlags(Defaults, flags), fresh)

\* The fields tagged omitempty are not written when they are zero.
Omitted(c) ==
    {f \in {"listen"} : c[f] = NoAddr}
    \cup {f \in {"auth", "enabled"} : ~c[f]}
    \cup {f \in {"read", "write"} : c[f] = 0}
    \cup {f \in {"headscale_api_url"} : c[f] = ""}

\* Faulty variant: only the documented address is written.
Written_NoListen(c) == [f \in Field \ (Omitted(c) \cup {"listen"}) |-> c[f]]

\* WriteConfig: what a file written from c sets.
Written(c) == [f \in Field \ Omitted(c) |-> c[f]]

\* GenerateDefault: what the template sets.
Template ==
    [f \in {"bind", "key", "path", "provider", "rpm", "level"} |-> Defaults[f]]

\* The fields in the order in which they stand in a file.
FileOrder ==
    <<"bind", "listen", "read", "write", "key", "auth", "path", "provider", "enabled",
      "credentials", "headscale_url", "headscale_api_url", "rpm", "level">>

\* What a file sets that was to set `settings' and was cut after its k-th field,
\* or within it, at a place where it parses: a number may have lost digits.
Cut(settings, k) ==
    LET prefix == [f \in {FileOrder[i] : i \in 1..k} \cap DOMAIN settings |-> settings[f]]
        numbers == {f \in {"read", "write"} : k > 0 /\ f = FileOrder[k] /\ f \in DOMAIN settings}
    IN {prefix} \cup UNION {{[prefix EXCEPT ![f] = v] : v \in 1..settings[f]} : f \in numbers}

\* The address Validate takes for the one to be checked.
BindAddr(c) ==
    IF \/ c.bind = NoAddr
       \/ c.listen \notin {NoAddr, DefaultAddr} /\ c.bind = DefaultAddr
    THEN c.listen ELSE c.bind

Validate(c) ==
    /\ c.listen \notin {NoAddr, BindAddr(c)} => c.listen \in HostPort
    /\ BindAddr(c) \in HostPort
    /\ c.auth => c.key # NoKey
    /\ c.path = "absolute"
    /\ c.provider \in {"", "tailscale", "headscale"}
    /\ c.provider # "" => c.provider \in c.credentials
    /\ c.provider = "headscale" => c.headscale_url # "" \/ c.headscale_api_url # ""
    /\ c.rpm > 0
    /\ c.level \in {"trace", "debug", "info", "warn", "error"}

\* NewVPNProvider: which client is made, and whether it has a base URL.
VpnInUse(c) == c.enabled /\ c.provider # ""
HasBaseURL(c) == c.provider = "headscale" => c.headscale_api_url # ""

=============================================================================
