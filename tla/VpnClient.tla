------------------------------ MODULE VpnClient ------------------------------
(***************************************************************************)
(* The calls of CreatePreAuthKey of internal/vpn/headscale.go and          *)
(* tailscale.go, which differ only in what they send: up to two attempts,  *)
(* a pause between them, a time limit on each.  An attempt that fails may  *)
(* still have made a key at the provider.  A call of GetStatus is a single *)
(* attempt with the same limit.                                            *)
(***************************************************************************)
EXTENDS Integers

CONSTANTS
    Slot,              \* request slots, each with at most one call
    AttemptTimeout,    \* Timeout of the http.Client, in ticks
    Backoff            \* the Sleep before the second attempt, rounded up

ASSUME TimingAssumption ==
    AttemptTimeout \in Nat \ {0} /\ Backoff \in Nat \ {0}

VARIABLES
    call,        \* the state of each call
    made,        \* keys the provider has made for calls that are over
    generated,   \* metrics.VPNKeysGeneratedTotal
    errors       \* metrics.VPNErrorsTotal

clientVars == <<call, made, generated, errors>>

NoCall == [pc |-> "idle", attempt |-> 0, left |-> 0, made |-> 0]

ClientInit ==
    /\ call = [s \in Slot |-> NoCall]
    /\ made = 0 /\ generated = 0 /\ errors = 0

Begin(s) ==
    /\ call[s].pc = "idle"
    /\ call' = [call EXCEPT ![s] =
          [pc |-> "attempt", attempt |-> 1, left |-> AttemptTimeout, made |-> 0]]
    /\ UNCHANGED <<made, generated, errors>>

\* The call is over; the provider made k keys for it.
Settle(s, k) ==
    /\ call' = [call EXCEPT ![s] = [NoCall EXCEPT !.pc = "done"]]
    /\ made' = made + k

Succeed(s) ==
    /\ call[s].pc = "attempt"
    /\ Settle(s, call[s].made + 1)
    /\ generated' = generated + 1
    /\ UNCHANGED errors

\* Faulty variant: one attempt too many.
MayRetry_Twice(attempt) == attempt < 3

MayRetry(attempt) == attempt < 2

\* A connection error, a timeout, a cancelled context, a 5xx or a body cut
\* short: worth one more attempt.  `lost' is 1 when a key was made all the same.
FailTransiently(s, lost) ==
    /\ call[s].pc = "attempt"
    /\ IF MayRetry(call[s].attempt)
       THEN /\ call' = [call EXCEPT ![s].pc = "backoff", ![s].left = Backoff,
                                    ![s].made = @ + lost]
            /\ UNCHANGED <<made, generated, errors>>
       ELSE /\ Settle(s, call[s].made + lost)
            /\ errors' = errors + 1
            /\ UNCHANGED generated

\* 401, 403, 404, any other status, or a body without a key.
FailForGood(s, lost) ==
    /\ call[s].pc = "attempt"
    /\ Settle(s, call[s].made + lost)
    /\ errors' = errors + 1
    /\ UNCHANGED generated

Retry(s) ==
    /\ call[s].pc = "backoff"
    /\ call' = [call EXCEPT ![s].pc = "attempt", ![s].attempt = @ + 1,
                            ![s].left = AttemptTimeout]
    /\ UNCHANGED <<made, generated, errors>>

\* HealthCheck and GetStatus make no key; a failure is counted.
Count(failed) ==
    /\ errors' = IF failed THEN errors + 1 ELSE errors
    /\ UNCHANGED <<made, generated>>

Probe(failed) == Count(failed) /\ UNCHANGED call

Ask(s) ==
    /\ call[s].pc = "idle"
    /\ call' = [call EXCEPT ![s] =
          [pc |-> "asked", attempt |-> 0, left |-> AttemptTimeout, made |-> 0]]
    /\ UNCHANGED <<made, generated, errors>>

EndAsk(s, failed) ==
    /\ call[s].pc = "asked"
    /\ call' = [call EXCEPT ![s] = NoCall]
    /\ Count(failed)

Running(s) == call[s].pc \in {"attempt", "backoff", "asked"}

\* No call outlasts its attempt or its pause.
MayWait == \A s \in Slot : Running(s) => call[s].left > 0

Elapse == [s \in Slot |-> IF Running(s) THEN [call[s] EXCEPT !.left = @ - 1] ELSE call[s]]

CallOK(q) ==
    /\ q \in [pc: {"idle", "attempt", "backoff", "asked", "done"}, attempt: 0..2, left: Nat, made: 0..2]
    /\ q.pc = "attempt" => q.attempt \in 1..2 /\ q.made < q.attempt
    /\ q.pc = "backoff" => q.attempt = 1 /\ q.made <= q.attempt
    /\ q.pc \in {"idle", "asked", "done"} => q.made = 0

ClientTypeOK ==
    /\ call = [s \in Slot |-> call[s]]
    /\ \A s \in Slot : CallOK(call[s])
    /\ made \in Nat /\ generated \in Nat /\ errors \in Nat

\* The retry after an ambiguous failure makes the provider issue no more than
\* two keys for a registration, and the counters show each call that is over:
\* whatever attempts are lost, the keys that exist at the provider are at most
\* twice the calls counted as generated or failed (CreatePreAuthKey).
KeysAccounted ==
    /\ generated <= made
    /\ made <= 2 * (generated + errors)

=============================================================================
