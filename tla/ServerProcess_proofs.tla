------------------------ MODULE ServerProcess_proofs ------------------------
(***************************************************************************)
(* What is proved of ServerProcess for every set of slots, installations,  *)
(* command lines and environments, and all timeouts.                       *)
(***************************************************************************)
EXTENDS ServerProcess, SequenceTheorems, TLAPS

(***************************************************************************)
(* The calls to the provider.                                              *)
(***************************************************************************)

ClientInv == ClientTypeOK /\ KeysAccounted

\* A step of CreatePreAuthKey of one request: it keeps its call well-formed,
\* and a call that ends accounts for at most two keys.
LEMMA CallStepKeepsInv ==
    ASSUME ClientInv, NEW s \in Slot,
           Begin(s) \/ Succeed(s) \/ Retry(s)
             \/ Ask(s) \/ (\E failed \in BOOLEAN : EndAsk(s, failed))
             \/ \E lost \in 0..1 : FailTransiently(s, lost) \/ FailForGood(s, lost)
    PROVE  ClientInv'
<1> USE TimingAssumption DEF TimingAssumption
<1>0. /\ CallOK(call[s]) /\ made \in Nat /\ generated \in Nat /\ errors \in Nat
      /\ \A t \in Slot : CallOK(call[t])
      /\ DOMAIN call = Slot
  BY DEF ClientInv, ClientTypeOK
<1>a. ASSUME NEW q, CallOK(q), call' = [call EXCEPT ![s] = q]
      PROVE  call' = [t \in Slot |-> call'[t]] /\ \A t \in Slot : CallOK(call'[t])
  <2>1. call' = [t \in Slot |-> IF t = s THEN q ELSE call[t]]
    BY <1>0, <1>a
  <2> QED  BY <2>1, <1>0, <1>a
<1>b. CallOK([NoCall EXCEPT !.pc = "done"])
  BY DEF NoCall, CallOK
<1>c. ASSUME NEW k \in 0..2, Settle(s, k)
      PROVE  /\ call' = [t \in Slot |-> call'[t]] /\ \A t \in Slot : CallOK(call'[t])
             /\ made' = made + k
  BY <1>a, <1>b, <1>c DEF Settle
<1>1. CASE Begin(s)
  <2>1. CallOK([pc |-> "attempt", attempt |-> 1, left |-> AttemptTimeout, made |-> 0])
    BY DEF CallOK
  <2> QED  BY <1>1, <2>1, <1>0, <1>a DEF Begin, ClientInv, ClientTypeOK, KeysAccounted
<1>2. CASE Succeed(s)
  <2>1. call[s].made + 1 \in 1..2
    BY <1>2, <1>0 DEF Succeed, CallOK
  <2>2. PICK k \in 1..2 : k = call[s].made + 1
    BY <2>1
  <2>3. Settle(s, k) /\ generated' = generated + 1 /\ errors' = errors
    BY <1>2, <2>2 DEF Succeed
  <2> QED  BY <2>3, <1>c, <1>0 DEF ClientInv, ClientTypeOK, KeysAccounted
<1>3. CASE Retry(s)
  <2>1. call' = [call EXCEPT ![s] =
           [call[s] EXCEPT !.pc = "attempt", !.attempt = @ + 1, !.left = AttemptTimeout]]
    BY <1>3, <1>0 DEF Retry
  <2>2. CallOK([call[s] EXCEPT !.pc = "attempt", !.attempt = @ + 1, !.left = AttemptTimeout])
    BY <1>3, <1>0 DEF Retry, CallOK
  <2> QED  BY <1>3, <2>1, <2>2, <1>a, <1>0 DEF Retry, ClientInv, ClientTypeOK, KeysAccounted
<1>4. ASSUME NEW lost \in 0..1, FailTransiently(s, lost) PROVE ClientInv'
  <2>0. call[s].made + lost \in 0..2 /\ call[s].attempt \in 1..2
    BY <1>4, <1>0 DEF FailTransiently, CallOK
  <2>1. CASE MayRetry(call[s].attempt)
    <3>1. call' = [call EXCEPT ![s] =
             [call[s] EXCEPT !.pc = "backoff", !.left = Backoff, !.made = @ + lost]]
      BY <1>4, <2>1, <1>0 DEF FailTransiently
    <3>2. CallOK([call[s] EXCEPT !.pc = "backoff", !.left = Backoff, !.made = @ + lost])
      <4>1. call[s].attempt = 1 /\ call[s].made = 0
        BY <1>4, <2>1, <1>0, <2>0 DEF FailTransiently, MayRetry, CallOK
      <4>2. PICK r : r = call[s] /\ CallOK(r) /\ r.attempt = 1 /\ r.made = 0
        BY <4>1, <1>0
      <4>3. ASSUME NEW l \in 0..2, l <= 1
            PROVE  CallOK([r EXCEPT !.pc = "backoff", !.left = Backoff, !.made = l])
        <5>1. [r EXCEPT !.pc = "backoff", !.left = Backoff, !.made = l]
                 \in [pc: {"idle", "attempt", "backoff", "asked", "done"}, attempt: 0..2,
                     left: Nat, made: 0..2]
          BY <4>2 DEF CallOK
        <5> QED  BY <4>2, <4>3, <5>1 DEF CallOK
      <4>5. CallOK([r EXCEPT !.pc = "backoff", !.left = Backoff, !.made = lost])
        <5>1. lost \in 0..2 /\ lost <= 1
          OBVIOUS
        <5> QED  BY ONLY <5>1, <4>3
      <4>4. r.made + lost = lost
        BY <4>2
      <4> QED  BY <4>2, <4>5, <4>4
    <3> QED  BY <1>4, <2>1, <3>1, <3>2, <1>a, <1>0
               DEF FailTransiently, ClientInv, ClientTypeOK, KeysAccounted
  <2>2. CASE ~MayRetry(call[s].attempt)
    <3>1. PICK k \in 0..2 : k = call[s].made + lost
      BY <2>0
    <3>2. Settle(s, k) /\ generated' = generated /\ errors' = errors + 1
      BY <1>4, <2>2, <3>1 DEF FailTransiently
    <3> QED  BY <3>2, <1>c, <1>0 DEF ClientInv, ClientTypeOK, KeysAccounted
  <2> QED  BY <2>1, <2>2
<1>5. ASSUME NEW lost \in 0..1, FailForGood(s, lost) PROVE ClientInv'
  <2>1. call[s].made + lost \in 0..2
    BY <1>5, <1>0 DEF FailForGood, CallOK
  <2>2. PICK k \in 0..2 : k = call[s].made + lost
    BY <2>1
  <2>3. Settle(s, k) /\ generated' = generated /\ errors' = errors + 1
    BY <1>5, <2>2 DEF FailForGood
  <2> QED  BY <2>3, <1>c, <1>0 DEF ClientInv, ClientTypeOK, KeysAccounted
<1>6. CASE Ask(s)
  <2>1. CallOK([pc |-> "asked", attempt |-> 0, left |-> AttemptTimeout, made |-> 0])
    BY DEF CallOK
  <2> QED  BY <1>6, <2>1, <1>a, <1>0 DEF Ask, ClientInv, ClientTypeOK, KeysAccounted
<1>7. ASSUME NEW failed \in BOOLEAN, EndAsk(s, failed) PROVE ClientInv'
  <2>1. CallOK(NoCall)
    BY DEF NoCall, CallOK
  <2> QED  BY <1>7, <2>1, <1>a, <1>0
             DEF EndAsk, Count, ClientInv, ClientTypeOK, KeysAccounted
<1> QED  BY <1>1, <1>2, <1>3, <1>4, <1>5, <1>6, <1>7

\* A new process has no calls and its counters are zero.
LEMMA NoCallsInv ==
    ASSUME NEW c, c = [s \in Slot |-> NoCall]
    PROVE  c = [s \in Slot |-> c[s]] /\ \A s \in Slot : CallOK(c[s])
BY DEF NoCall, CallOK

\* Every step of the process keeps the calls and the counters accounted for.
LEMMA NextKeepsClient ==
    ASSUME ClientInv, [Next]_vars
    PROVE  ClientInv'
<1>1. CASE UNCHANGED clientVars
  BY <1>1 DEF clientVars, ClientInv, ClientTypeOK, KeysAccounted
<1>2. CASE Gone
  <2>1. call' = [t \in Slot |-> NoCall] /\ made' = 0 /\ generated' = 0 /\ errors' = 0
    BY <1>2 DEF Gone
  <2> QED  BY <2>1, NoCallsInv DEF ClientInv, ClientTypeOK, KeysAccounted
<1>3. CASE RunChecks
  BY <1>3 DEF RunChecks, Probe, Count, ClientInv, ClientTypeOK, KeysAccounted
<1>13. ASSUME NEW s \in Slot, GetVPNStatus(s) \/ EndStatus(s) PROVE ClientInv'
  <2>1. CASE GetVPNStatus(s)
    <3>1. Ask(s)
      BY <2>1 DEF GetVPNStatus
    <3> QED  BY <3>1, CallStepKeepsInv
  <2>2. CASE EndStatus(s)
    <3>1. PICK failed \in BOOLEAN : EndAsk(s, failed)
      BY <2>2 DEF EndStatus
    <3> QED  BY <3>1, CallStepKeepsInv
  <2> QED  BY <1>13, <2>1, <2>2
<1>4. CASE Tick
  <2>1. call' = Elapse /\ UNCHANGED <<made, generated, errors>> /\ MayWait
    BY <1>4 DEF Tick
  <2>2. ASSUME NEW s \in Slot PROVE CallOK(call'[s])
    <3>1. CallOK(call[s])
      BY DEF ClientInv, ClientTypeOK
    <3>2. CASE Running(s)
      <4>1. call'[s] = [call[s] EXCEPT !.left = @ - 1] /\ call[s].left > 0
        BY <2>1, <3>2 DEF Elapse, MayWait
      <4>2. PICK n \in Nat : n = call[s].left - 1
        BY <3>1, <4>1 DEF CallOK
      <4>3. CallOK([call[s] EXCEPT !.left = n])
        BY <3>1 DEF CallOK
      <4> QED  BY <4>1, <4>2, <4>3
    <3>3. CASE ~Running(s)
      BY <2>1, <3>1, <3>3 DEF Elapse
    <3> QED  BY <3>2, <3>3
  <2>3. call' = [s \in Slot |-> call'[s]]
    BY <2>1 DEF Elapse
  <2> QED  BY <2>1, <2>2, <2>3 DEF ClientInv, ClientTypeOK, KeysAccounted
<1>5. ASSUME NEW s \in Slot, CallStep(s) PROVE ClientInv'
  <2>1. \/ Succeed(s) \/ Retry(s)
        \/ \E lost \in 0..1 : FailTransiently(s, lost) \/ FailForGood(s, lost)
    BY <1>5 DEF CallStep
  <2> QED  BY <2>1, CallStepKeepsInv
<1>6. ASSUME NEW s \in Slot, EndCall(s) PROVE ClientInv'
  <2>1. CallOK(NoCall)
    BY DEF NoCall, CallOK
  <2> QED  BY <1>6, <2>1 DEF EndCall, ClientInv, ClientTypeOK, KeysAccounted
<1>7. ASSUME NEW s \in Slot, NEW table, RunStatements(s, table) PROVE ClientInv'
  <2>1. Begin(s) \/ UNCHANGED clientVars
    BY <1>7 DEF RunStatements
  <2> QED  BY <2>1, <1>1, CallStepKeepsInv
<1>8. ASSUME NEW s \in Slot,
             Accept(s) \/ ReadBody(s) \/ ReadFails(s) \/ StatementsFail(s)
               \/ Answer(s) \/ Disconnect(s)
      PROVE  UNCHANGED clientVars
  BY <1>8 DEF Accept, ReadBody, ReadFails, StatementsFail, Answer, Disconnect, clientVars
<1>9. ASSUME NEW given \in FlagSets, NEW env \in EnvSets, Resolve(given, env)
      PROVE  UNCHANGED clientVars
  BY <1>9 DEF Resolve, clientVars
<1>10. TruncateFile \/ GenerateConfig \/ MigrateStep \/ SkipAlter \/ Listen
         \/ RunnerStep \/ Signal \/ DrainDone \/ DrainExpires \/ CloseStore
       => UNCHANGED clientVars
  BY DEF TruncateFile, GenerateConfig, MigrateStep, SkipAlter, Listen, RunnerStep,
         Signal, DrainDone, DrainExpires, CloseStore, clientVars
<1>11. FinishWrite \/ Exit \/ Die => Gone \/ UNCHANGED clientVars
  BY DEF FinishWrite, Exit, Die
<1>12. UNCHANGED vars => UNCHANGED clientVars
  BY DEF vars
<1> QED  BY <1>1, <1>2, <1>3, <1>4, <1>5, <1>6, <1>7, <1>8, <1>9, <1>10, <1>11, <1>12, <1>13
           DEF Next, Step

\* However many attempts are lost, and whatever the number of requests at once,
\* the provider makes at most two keys for each call the counters show
\* (CreatePreAuthKey of both providers).
THEOREM KeysAreAccounted == Spec => []KeysAccounted
<1>1. Init => ClientInv
  <2> SUFFICES ASSUME Init PROVE ClientInv
    OBVIOUS
  <2>1. call = [s \in Slot |-> NoCall] /\ made = 0 /\ generated = 0 /\ errors = 0
    BY DEF Init, ClientInit
  <2> QED  BY <2>1, NoCallsInv DEF ClientInv, ClientTypeOK, KeysAccounted
<1>2. ClientInv /\ [Next]_vars => ClientInv'
  BY NextKeepsClient
<1>3. ClientInv => KeysAccounted
  BY DEF ClientInv
<1> QED  BY <1>1, <1>2, <1>3, PTL DEF Spec

(***************************************************************************)
(* The drain.                                                              *)
(***************************************************************************)

Busy(s) == request[s].pc # "idle"

\* The ages of the requests at work make up for what is gone of the drain.
DrainInv ==
    /\ request \in [Slot -> Request]
    /\ phase = "draining" =>
          /\ drain \in 0..DrainTimeout
          /\ \A s \in Slot : Busy(s) => request[s].age + drain >= DrainTimeout
    /\ phase \in {"closing", "closed"} =>
          \A s \in Slot : Busy(s) => request[s].age >= DrainTimeout

\* A tick ages what is at work, and shows whether it was waiting for the database.
LEMMA OlderRequest ==
    ASSUME NEW q \in Request, q.pc = "db" => q.waited < MaxWait
    PROVE  /\ Older(q) \in Request
           /\ Older(q).pc = q.pc
           /\ \/ Older(q) = q /\ (q.pc = "idle" \/ q.age = MaxAge)
              \/ /\ Older(q).age = q.age + 1
                 /\ Older(q).waited = IF q.pc = "db" THEN q.waited + 1 ELSE q.waited
<1> USE ProcessAssumption DEF ProcessAssumption
<1>1. CASE q.pc = "idle" \/ q.age = MaxAge
  BY <1>1 DEF Older
<1>2. CASE ~(q.pc = "idle" \/ q.age = MaxAge)
  <2>0. q.age \in 0..MaxAge /\ q.waited \in 0..MaxWait
    BY DEF Request
  <2>1. PICK a \in 0..MaxAge : a = q.age + 1
    BY <1>2, <2>0
  <2>2. PICK w \in 0..MaxWait : w = IF q.pc = "db" THEN q.waited + 1 ELSE q.waited
    BY <2>0
  <2>3. Older(q) = [q EXCEPT !.age = a, !.waited = w]
    BY <1>2, <2>1, <2>2 DEF Older
  <2> QED  BY <2>1, <2>2, <2>3 DEF Request
<1> QED  BY <1>1, <1>2

\* A step that changes requests without making one older or busy keeps it.
LEMMA RequestStepKeepsDrain ==
    ASSUME DrainInv, NEW s \in Slot, NEW r \in Request,
           request' = [request EXCEPT ![s] = r],
           r.pc = "idle" \/ (Busy(s) /\ r.age = request[s].age), UNCHANGED <<phase, drain>>
    PROVE  DrainInv'
<1>1. request' \in [Slot -> Request] /\ request'[s] = r
      /\ \A t \in Slot : t # s => request'[t] = request[t]
  BY DEF DrainInv
<1>2. \A t \in Slot : Busy(t)' => Busy(t) /\ request'[t].age = request[t].age
  BY <1>1 DEF Busy
<1> QED  BY <1>1, <1>2 DEF DrainInv

\* Every step keeps it: only a tick takes from the drain, and it ages whatever
\* is at work.
LEMMA NextKeepsDrain ==
    ASSUME DrainInv, [Next]_vars
    PROVE  DrainInv'
<1> USE ProcessAssumption DEF ProcessAssumption
<1>0. NoRequest \in Request
  BY DEF NoRequest, Request
<1>a. \A s \in Slot : request[s] \in Request /\ request[s].age \in 0..MaxAge
  BY DEF DrainInv, Request
<1>1. CASE UNCHANGED <<phase, drain, request>>
  BY <1>1 DEF DrainInv, Busy
<1>2. CASE Gone
  BY <1>2, <1>0 DEF Gone, DrainInv
<1>3. CASE phase' \notin {"draining", "closing", "closed"} /\ UNCHANGED request
  BY <1>3 DEF DrainInv
<1>4. CASE Signal
  <2>1. phase' = "draining" /\ drain' = DrainTimeout /\ UNCHANGED request
    BY <1>4 DEF Signal
  <2>2. \A s \in Slot : request[s].age + DrainTimeout >= DrainTimeout
    BY <1>a
  <2> QED  BY <2>1, <2>2 DEF DrainInv, Busy
<1>5. CASE DrainDone
  BY <1>5 DEF DrainDone, AllIdle, DrainInv, Busy, serving
<1>6. CASE DrainExpires
  <2>1. /\ phase = "draining" /\ drain = 0 /\ phase' = "closing"
        /\ request' = [s \in Slot |-> IF request[s].pc = "idle" THEN NoRequest
                                      ELSE [request[s] EXCEPT !.gone = TRUE]]
    BY <1>6 DEF DrainExpires, DrainIsOver
  <2>2. request' \in [Slot -> Request]
    BY <2>1, <1>0, <1>a DEF Request
  <2>3. ASSUME NEW s \in Slot, Busy(s)' PROVE request'[s].age >= DrainTimeout
    <3>1. Busy(s) /\ request'[s].age = request[s].age
      BY <2>1, <2>3, <1>a DEF Busy, NoRequest, Request
    <3> QED  BY <3>1, <2>1, <1>a DEF DrainInv
  <2> QED  BY <2>1, <2>2, <2>3 DEF DrainInv
<1>7. CASE CloseStore
  BY <1>7 DEF CloseStore, DrainInv, Busy
<1>8. CASE Tick
  <2>1. /\ request' = [s \in Slot |-> Older(request[s])]
        /\ \A s \in Slot : request[s].pc = "db" => request[s].waited < MaxWait
        /\ phase \in {"serving", "draining"} /\ phase' = phase
        /\ phase = "draining" => drain > 0 /\ drain' = drain - 1
    BY <1>8 DEF Tick
  <2>2. ASSUME NEW s \in Slot
        PROVE  /\ request'[s] \in Request
               /\ Busy(s)' => Busy(s) /\ \/ request'[s].age = request[s].age + 1
                                         \/ request'[s].age = MaxAge
    <3>1. request'[s] = Older(request[s])
      BY <2>1
    <3> QED  BY <3>1, <2>1, <1>a, OlderRequest DEF Busy
  <2>3. request' \in [Slot -> Request]
    <3>1. request' = [s \in Slot |-> request'[s]]
      BY <2>1
    <3> QED  BY <3>1, <2>2
  <2>4. ASSUME phase = "draining"
        PROVE  /\ drain' \in 0..DrainTimeout
               /\ \A s \in Slot : Busy(s)' => request'[s].age + drain' >= DrainTimeout
    <3>1. drain \in 0..DrainTimeout /\ drain > 0 /\ drain' = drain - 1
      BY <2>1, <2>4 DEF DrainInv
    <3>2. \A s \in Slot : Busy(s) => request[s].age + drain >= DrainTimeout
      BY <2>4 DEF DrainInv
    <3> QED  BY <3>1, <3>2, <2>2, <1>a
  <2> QED  BY <2>1, <2>3, <2>4 DEF DrainInv
<1>9. ASSUME NEW s \in Slot, Accept(s) PROVE DrainInv'
  <2>1. /\ request' = [request EXCEPT ![s] = [request[s] EXCEPT !.pc = "body"]]
        /\ phase = "serving" /\ phase' = phase
    BY <1>9 DEF Accept, Accepting, SetPc, Keep
  <2>2. [request[s] EXCEPT !.pc = "body"] \in Request
    BY <1>a DEF Request
  <2> QED  BY <2>1, <2>2 DEF DrainInv
<1>10. ASSUME NEW s \in Slot, NEW pc \in {"db", "vpn", "status", "answer"},
              SetPc(s, pc), Busy(s), UNCHANGED <<phase, drain>>
       PROVE  DrainInv'
  <2>1. [request[s] EXCEPT !.pc = pc] \in Request /\ [request[s] EXCEPT !.pc = pc].age = request[s].age
    BY <1>a DEF Request
  <2> QED  BY <1>10, <2>1, RequestStepKeepsDrain DEF SetPc
<1>11. ASSUME NEW s \in Slot,
              ReadBody(s) \/ ReadFails(s) \/ GetVPNStatus(s) \/ EndStatus(s)
                \/ StatementsFail(s) \/ \E table \in db.tables : RunStatements(s, table)
       PROVE  DrainInv'
  <2>1. /\ Busy(s) /\ UNCHANGED <<phase, drain>>
        /\ \E pc \in {"db", "vpn", "status", "answer"} : SetPc(s, pc)
    BY <1>11 DEF ReadBody, ReadFails, GetVPNStatus, EndStatus, StatementsFail, RunStatements, Busy, Keep
  <2> QED  BY <2>1, <1>10
<1>12. ASSUME NEW s \in Slot, EndCall(s) PROVE DrainInv'
  <2>1. Busy(s) /\ SetPc(s, "answer") /\ UNCHANGED <<phase, drain>>
    BY <1>12 DEF EndCall, Busy, Keep
  <2> QED  BY <2>1, <1>10
<1>13. ASSUME NEW s \in Slot, Answer(s) PROVE DrainInv'
  <2>1. request' = [request EXCEPT ![s] = NoRequest] /\ UNCHANGED <<phase, drain>>
        /\ NoRequest.pc = "idle"
    BY <1>13 DEF Answer, Keep, NoRequest
  <2> QED  BY <2>1, <1>0, RequestStepKeepsDrain
<1>14. ASSUME NEW s \in Slot, Disconnect(s) PROVE DrainInv'
  <2>1. /\ request' = [request EXCEPT ![s] = [request[s] EXCEPT !.gone = TRUE]]
        /\ Busy(s) /\ UNCHANGED <<phase, drain>>
    BY <1>14 DEF Disconnect, Busy, Keep
  <2>2. /\ [request[s] EXCEPT !.gone = TRUE] \in Request
        /\ [request[s] EXCEPT !.gone = TRUE].age = request[s].age
    BY <1>a DEF Request
  <2> QED  BY <2>1, <2>2, RequestStepKeepsDrain
<1>15. ASSUME NEW s \in Slot, CallStep(s) PROVE DrainInv'
  BY <1>15, <1>1 DEF CallStep, Keep
<1>16. ASSUME NEW given \in FlagSets, NEW env \in EnvSets, Resolve(given, env)
       PROVE  DrainInv'
  <2>1. UNCHANGED request /\ phase' \in {"down", "writing", "migrating"}
    BY <1>16 DEF Resolve, serving
  <2> QED  BY <2>1, <1>3
<1>17. ASSUME TruncateFile \/ RunChecks \/ Listen PROVE DrainInv'
  <2>1. UNCHANGED request /\ phase' \in {"truncated", "listening", "serving"}
    BY <1>17 DEF TruncateFile, RunChecks, Listen, serving
  <2> QED  BY <2>1, <1>3
<1>18. ASSUME FinishWrite \/ Exit \/ Die PROVE DrainInv'
  <2>1. Gone \/ (UNCHANGED request /\ phase' = "migrating")
    BY <1>18 DEF FinishWrite, Exit, Die, serving
  <2> QED  BY <2>1, <1>2, <1>3
<1>19. ASSUME GenerateConfig \/ MigrateStep \/ SkipAlter \/ RunnerStep \/ UNCHANGED vars
       PROVE  DrainInv'
  BY <1>19, <1>1 DEF GenerateConfig, MigrateStep, SkipAlter, RunnerStep, vars, serving
<1> QED  BY <1>4, <1>5, <1>6, <1>7, <1>8, <1>9, <1>11, <1>12, <1>13, <1>14, <1>15,
            <1>16, <1>17, <1>18, <1>19 DEF Next, Step

\* The shutdown of main() cuts off no request whose answer could still have
\* been delivered, whatever the timeouts, as long as the write timeout is within
\* the time the drain is given.
THEOREM DrainCutsNoLiveAnswer == Spec => []DrainCutsOnlyDeadAnswers
<1>1. Init => DrainInv
  <2> SUFFICES ASSUME Init PROVE DrainInv
    OBVIOUS
  <2>1. request = [s \in Slot |-> NoRequest] /\ phase = "down"
    BY DEF Init
  <2> QED  BY <2>1, ProcessAssumption DEF ProcessAssumption, DrainInv, NoRequest, Request
<1>2. DrainInv /\ [Next]_vars => DrainInv'
  BY NextKeepsDrain
<1>3. DrainInv => DrainCutsOnlyDeadAnswers
  <2> SUFFICES ASSUME DrainInv, phase \in {"closing", "closed"}, cfg.write \in 1..DrainTimeout,
                      NEW s \in Slot, Busy(s)
               PROVE  request[s].age >= cfg.write
    BY DEF DrainCutsOnlyDeadAnswers, Busy
  <2>1. request[s].age >= DrainTimeout /\ request[s].age \in Nat
    BY ProcessAssumption DEF ProcessAssumption, DrainInv, Request
  <2> QED  BY <2>1, ProcessAssumption DEF ProcessAssumption
<1> QED  BY <1>1, <1>2, <1>3, PTL DEF Spec

(***************************************************************************)
(* The configuration.                                                      *)
(***************************************************************************)

\* What a first run makes of its flags: every field is there, and those that
\* would not be written back have their default.
Complete(c) ==
    /\ c = [f \in Field |-> c[f]]
    /\ c["key"] # NoKey /\ c["listen"] # NoAddr
    /\ c["read"] # 0 /\ c["write"] # 0
    /\ c["auth"] = TRUE /\ c["enabled"] = FALSE /\ c["headscale_api_url"] = ""

\* Settings that set nothing change nothing.
LEMMA NothingToOverlay ==
    ASSUME NEW c, c = [f \in Field |-> c[f]], NEW given, DOMAIN given = {}
    PROVE  Overlay(c, Effect(given)) = c
<1>1. UNION {Sets(f) : f \in DOMAIN given} = {}
  OBVIOUS
<1>2. DOMAIN Effect(given) = {}
  BY <1>1 DEF Effect
<1> QED  BY <1>2 DEF Overlay

\* No environment variable has an effect (applyEnvOverridesWithSources).
LEMMA EnvironmentIsIgnored ==
    ASSUME NEW c, c = [f \in Field |-> c[f]], NEW env \in EnvSets
    PROVE  ApplyEnv(c, env) = c
<1> DEFINE e == [f \in DOMAIN env \ MarkedFields |-> env[f]]
<1>1. DOMAIN e = {}
  BY ProcessAssumption DEF ProcessAssumption
<1>2. Overlay(c, Effect(e)) = c
  BY <1>1, NothingToOverlay
<1> QED  BY <1>2 DEF ApplyEnv

\* The configuration of a first run is complete, whatever its flags.
LEMMA FirstRunIsComplete ==
    ASSUME NEW given \in FlagSets, NEW fresh \in 1..MaxStarts
    PROVE  Complete(FirstRun(given, fresh))
<1> DEFINE c == Overlay(Defaults, Effect(given))
<1>1. /\ DOMAIN given \subseteq {"bind", "key", "path", "provider", "level"}
      /\ "bind" \in DOMAIN given => given["bind"] # NoAddr
      /\ NoKey \notin 1..MaxStarts
  BY ProcessAssumption DEF ProcessAssumption
<1>2. DOMAIN Effect(given) = UNION {Sets(f) : f \in DOMAIN given}
  BY DEF Effect
<1>3. \A g \in {"read", "write", "auth", "enabled", "headscale_api_url"} : g \notin DOMAIN Effect(given)
  BY <1>1, <1>2 DEF Sets
<1>4. "listen" \in DOMAIN Effect(given) => Effect(given)["listen"] # NoAddr
  <2> SUFFICES ASSUME "listen" \in DOMAIN Effect(given)
               PROVE  Effect(given)["listen"] # NoAddr
    OBVIOUS
  <2>1. \A f \in DOMAIN given : "listen" \in Sets(f) => f = "bind"
    BY <1>1 DEF Sets
  <2>2. PICK f \in DOMAIN given : "listen" \in Sets(f)
    BY <1>2
  <2>3. (CHOOSE h \in DOMAIN given : "listen" \in Sets(h)) = "bind"
    BY <2>1, <2>2
  <2>4. Effect(given)["listen"] = given["bind"] /\ "bind" \in DOMAIN given
    BY <1>2, <2>1, <2>2, <2>3 DEF Effect
  <2> QED  BY <2>4, <1>1
<1>5. /\ c = [f \in Field |-> c[f]] /\ DOMAIN c = Field
      /\ {"key", "listen", "read", "write", "auth", "enabled", "headscale_api_url"}
            \subseteq Field
  BY DEF Overlay, Field, Defaults
<1>6. /\ c["read"] = ReadTimeout /\ c["write"] = WriteTimeout
      /\ c["auth"] = TRUE /\ c["enabled"] = FALSE /\ c["headscale_api_url"] = ""
  BY <1>3, <1>5 DEF Overlay, Defaults
<1>7. c["listen"] # NoAddr
  BY <1>4, <1>5, ConfigurationAssumption DEF ConfigurationAssumption, Overlay, Defaults
<1>8. ReadTimeout # 0 /\ WriteTimeout # 0
  BY ConfigurationAssumption DEF ConfigurationAssumption
<1>9. CASE c.key = NoKey
  <2>1. FirstRun(given, fresh) = [c EXCEPT !["key"] = fresh]
    BY <1>9 DEF FirstRun, ApplyFlags, EnsureKey
  <2> DEFINE d == [f \in Field |-> IF f = "key" THEN fresh ELSE c[f]]
  <2>2. FirstRun(given, fresh) = d
    BY <2>1, <1>5
  <2>3. d["key"] # NoKey
    BY <1>1, <1>5
  <2>4. /\ d = [f \in Field |-> d[f]]
        /\ d["listen"] = c["listen"] /\ d["read"] = c["read"] /\ d["write"] = c["write"]
        /\ d["headscale_api_url"] = c["headscale_api_url"]
    BY <1>5
  <2>5. d["enabled"] = FALSE /\ d["auth"] = TRUE
    BY <1>5, <1>6
  <2> HIDE DEF d
  <2> QED  BY <2>2, <2>3, <2>4, <2>5, <1>6, <1>7, <1>8 DEF Complete
<1>10. CASE c.key # NoKey
  <2>1. FirstRun(given, fresh) = c
    BY <1>10 DEF FirstRun, ApplyFlags, EnsureKey
  <2> QED  BY <2>1, <1>10, <1>5, <1>6, <1>7, <1>8 DEF Complete
<1> QED  BY <1>9, <1>10

\* A complete configuration that is written is read back as it was, in any
\* environment (WriteConfig, then Resolve).
LEMMA WrittenIsReadBack ==
    ASSUME NEW c, Complete(c), NEW env \in EnvSets, NEW fresh
    PROVE  FromFile(Written(c), env, Nothing, fresh) = c
<1>1. DOMAIN Written(c) = Field \ Omitted(c) /\ \A f \in Field \ Omitted(c) : Written(c)[f] = c[f]
  BY DEF Written
<1>2. \A f \in Field : f \in Omitted(c) => Defaults[f] = c[f]
  <2>1. Omitted(c) \subseteq {"enabled", "headscale_api_url"}
    BY DEF Omitted, Complete
  <2>2. c["enabled"] = FALSE /\ c["headscale_api_url"] = ""
    BY DEF Complete
  <2>3. Defaults["enabled"] = FALSE /\ Defaults["headscale_api_url"] = ""
    BY DEF Defaults
  <2> QED  BY <2>1, <2>2, <2>3
<1>3. Overlay(Defaults, Written(c)) = c
  <2>1. Overlay(Defaults, Written(c)) = [f \in Field |-> c[f]]
    BY <1>1, <1>2 DEF Overlay
  <2> QED  BY <2>1 DEF Complete
<1>4. c = [f \in Field |-> c[f]]
  BY DEF Complete
<1>5. ApplyEnv(c, env) = c
  BY <1>4, EnvironmentIsIgnored
<1>6. ApplyFlags(c, Nothing) = c
  BY <1>4, NothingToOverlay DEF ApplyFlags, Nothing
<1> QED  BY <1>3, <1>5, <1>6 DEF FromFile, EnsureKey, Complete

\* What is on disk while the configuration that wrote it is remembered.
ConfigInv ==
    /\ starts \in 0..MaxStarts
    /\ phase \in {"writing", "truncated"} => Complete(cfg)
    /\ written # NoConfig => Complete(written) /\ file = Written(written)
    /\ RestartsAlike

\* Every step keeps the written file and the configuration it came from together.
LEMMA NextKeepsConfig ==
    ASSUME ConfigInv, [Next]_vars
    PROVE  ConfigInv'
<1>1. CASE UNCHANGED <<starts, phase, cfg, flags, written, file>>
  BY <1>1 DEF ConfigInv, RestartsAlike, InForce
<1>2. CASE Gone /\ UNCHANGED <<written, file>>
  BY <1>2 DEF Gone, ConfigInv, RestartsAlike, InForce
<1>3. CASE /\ UNCHANGED <<starts, cfg, flags, written, file>>
           /\ InForce /\ phase' \notin {"writing", "truncated"}
  BY <1>3 DEF ConfigInv, RestartsAlike, InForce
<1>4. ASSUME NEW given \in FlagSets, NEW env \in EnvSets, Resolve(given, env)
      PROVE  ConfigInv'
  <2> DEFINE fresh == starts + 1
             c == IF file = Absent THEN FirstRun(given, fresh)
                  ELSE FromFile(file, env, given, fresh)
  <2>1. /\ phase = "down" /\ fresh \in 1..MaxStarts /\ starts' = fresh
        /\ UNCHANGED <<written, file>>
        /\ \/ UNCHANGED <<cfg, flags, phase>>
           \/ file = Absent /\ phase' = "writing" /\ cfg' = c
           \/ file # Absent /\ phase' = "migrating" /\ cfg' = c /\ flags' = given
    BY <1>4, ProcessAssumption DEF Resolve, disk, ConfigInv, ProcessAssumption
  <2>2. CASE UNCHANGED <<cfg, flags, phase>>
    BY <2>1, <2>2 DEF ConfigInv, RestartsAlike, InForce
  <2>3. CASE file = Absent /\ phase' = "writing" /\ cfg' = c
    <3>1. Complete(c)
      BY <2>1, <2>3, FirstRunIsComplete
    <3> QED  BY <2>1, <2>3, <3>1 DEF ConfigInv, RestartsAlike, InForce
  <2>4. CASE file # Absent /\ phase' = "migrating" /\ cfg' = c /\ flags' = given
    <3>1. ASSUME written # NoConfig, given = Nothing PROVE c = written
      BY <2>4, <3>1, WrittenIsReadBack DEF ConfigInv
    <3> QED  BY <2>1, <2>4, <3>1 DEF ConfigInv, RestartsAlike, InForce
  <2> QED  BY <2>1, <2>2, <2>3, <2>4
<1>5. CASE TruncateFile
  BY <1>5 DEF TruncateFile, startVars, ConfigInv, RestartsAlike, InForce
<1>6. CASE FinishWrite
  <2>1. /\ phase = "truncated" /\ file' = Written(cfg) /\ written' = cfg /\ Complete(cfg)
        /\ starts' = starts
        /\ \/ phase' = "migrating" /\ cfg' = cfg
           \/ phase' = "down"
    BY <1>6 DEF FinishWrite, Gone, startVars, ConfigInv
  <2> QED  BY <2>1 DEF ConfigInv, RestartsAlike, InForce
<1>7. CASE GenerateConfig
  BY <1>7 DEF GenerateConfig, startVars, ConfigInv, RestartsAlike, InForce
<1>8. MigrateStep \/ SkipAlter \/ RunnerStep \/ Tick \/ UNCHANGED vars
      => UNCHANGED <<starts, phase, cfg, flags, written, file>>
  BY DEF MigrateStep, SkipAlter, RunnerStep, Tick, vars, disk, startVars
<1>9. RunChecks \/ Listen \/ Signal \/ DrainDone \/ DrainExpires \/ CloseStore
      => /\ UNCHANGED <<starts, cfg, flags, written, file>>
         /\ InForce /\ phase' \notin {"writing", "truncated"}
  BY DEF RunChecks, Listen, Signal, DrainDone, DrainExpires, CloseStore, disk, startVars, InForce
<1>10. Exit \/ Die => Gone /\ UNCHANGED <<written, file>>
  BY DEF Exit, Die, disk
<1>11. ASSUME NEW s \in Slot, Step(s)
       PROVE  UNCHANGED <<starts, phase, cfg, flags, written, file>>
  BY <1>11 DEF Step, Accept, ReadBody, ReadFails, GetVPNStatus, EndStatus, RunStatements,
               StatementsFail, CallStep, EndCall, Answer, Disconnect, Keep, startVars
<1> QED  BY <1>1, <1>2, <1>3, <1>4, <1>5, <1>6, <1>7, <1>8, <1>9, <1>10, <1>11 DEF Next

\* A server started again without flags runs with the configuration its first
\* run wrote, after any number of starts, crashes and changes of environment.
THEOREM RestartsKeepConfiguration == Spec => []RestartsAlike
<1>1. Init => ConfigInv
  BY ProcessAssumption DEF ProcessAssumption, Init, ConfigInv, RestartsAlike, InForce
<1>2. ConfigInv /\ [Next]_vars => ConfigInv'
  BY NextKeepsConfig
<1>3. ConfigInv => RestartsAlike
  BY DEF ConfigInv
<1> QED  BY <1>1, <1>2, <1>3, PTL DEF Spec

(***************************************************************************)
(* The migration.                                                          *)
(***************************************************************************)

\* The statements, by their place in the list (migrate).
LEMMA StatementAt ==
    /\ Len(Statements) = 22
    /\ Statements[1] = Create("nodes") /\ Statements[2] = Create("relays")
    /\ \A i \in 1..8 : Statements[i + 2] = Alter("nodes", NodeColumns[i])
    /\ \A i \in 1..9 : Statements[i + 10] = Alter("relays", RelayColumns[i])
    /\ Statements[20] = Index("nodes", "status")
    /\ Statements[21] = Index("relays", "status")
    /\ Statements[22] = Index("relays", "last_seen_at")
<1> DEFINE S == {Create(t) : t \in {"nodes", "relays"}}
                \cup {Alter("nodes", NodeColumns[i]) : i \in DOMAIN NodeColumns}
                \cup {Alter("relays", RelayColumns[i]) : i \in DOMAIN RelayColumns}
                \cup {Index("nodes", "status"), Index("relays", "status"),
                      Index("relays", "last_seen_at")}
           A == <<Create("nodes"), Create("relays")>>
           B == [i \in DOMAIN NodeColumns |-> Alter("nodes", NodeColumns[i])]
           C == [i \in DOMAIN RelayColumns |-> Alter("relays", RelayColumns[i])]
           D == <<Index("nodes", "status"), Index("relays", "status"), Index("relays", "last_seen_at")>>
<1>1. DOMAIN NodeColumns = 1..8 /\ DOMAIN RelayColumns = 1..9
  BY DEF NodeColumns, RelayColumns
<1>2. A \in Seq(S) /\ Len(A) = 2 /\ A[1] = Create("nodes") /\ A[2] = Create("relays")
  OBVIOUS
<1>3. B \in Seq(S) /\ Len(B) = 8 /\ \A i \in 1..8 : B[i] = Alter("nodes", NodeColumns[i])
  BY <1>1
<1>4. C \in Seq(S) /\ Len(C) = 9 /\ \A i \in 1..9 : C[i] = Alter("relays", RelayColumns[i])
  BY <1>1
<1>5. D \in Seq(S) /\ Len(D) = 3 /\ D[1] = Index("nodes", "status")
      /\ D[2] = Index("relays", "status") /\ D[3] = Index("relays", "last_seen_at")
  OBVIOUS
<1>6. Statements = ((A \o B) \o C) \o D
  BY DEF Statements
<1> DEFINE F == A \o B
           G == F \o C
<1>7. Statements = G \o D /\ G = F \o C /\ F = A \o B
  BY <1>6
<1> HIDE DEF S, A, B, C, D, F, G
<1>c. ASSUME NEW s \in Seq(S), NEW t \in Seq(S)
      PROVE  /\ s \o t \in Seq(S) /\ Len(s \o t) = Len(s) + Len(t)
             /\ \A i \in 1..Len(s) : (s \o t)[i] = s[i]
             /\ \A i \in 1..Len(t) : (s \o t)[i + Len(s)] = t[i]
  <2>1. /\ s \o t \in Seq(S) /\ Len(s \o t) = Len(s) + Len(t)
        /\ \A i \in 1..(Len(s) + Len(t)) :
              (s \o t)[i] = IF i <= Len(s) THEN s[i] ELSE t[i - Len(s)]
    BY ConcatProperties
  <2>2. Len(s) \in Nat /\ Len(t) \in Nat
    OBVIOUS
  <2>3. ASSUME NEW i \in 1..Len(t) PROVE (s \o t)[i + Len(s)] = t[i]
    <3>1. i + Len(s) \in 1..(Len(s) + Len(t)) /\ ~(i + Len(s) <= Len(s)) /\ i + Len(s) - Len(s) = i
      BY <2>2
    <3> QED  BY <2>1, <3>1
  <2> QED  BY <2>1, <2>2, <2>3
<1>8. F \in Seq(S) /\ Len(F) = 10 /\ F[1] = A[1] /\ F[2] = A[2] /\ \A i \in 1..8 : F[i + 2] = B[i]
  <2>1. /\ F \in Seq(S) /\ Len(F) = Len(A) + Len(B)
        /\ \A i \in 1..Len(A) : F[i] = A[i]
        /\ \A i \in 1..Len(B) : F[i + Len(A)] = B[i]
    BY <1>2, <1>3, <1>7, <1>c
  <2> QED  BY <2>1, <1>2, <1>3
<1>9. /\ G \in Seq(S) /\ Len(G) = 19
      /\ \A i \in 1..10 : G[i] = F[i]
      /\ \A i \in 1..9 : G[i + 10] = C[i]
  <2>1. /\ G \in Seq(S) /\ Len(G) = Len(F) + Len(C)
        /\ \A i \in 1..Len(F) : G[i] = F[i]
        /\ \A i \in 1..Len(C) : G[i + Len(F)] = C[i]
    BY <1>8, <1>4, <1>7, <1>c
  <2> QED  BY <2>1, <1>8, <1>4
<1>10. /\ Len(Statements) = 22
       /\ \A i \in 1..19 : Statements[i] = G[i]
       /\ \A i \in 1..3 : Statements[i + 19] = D[i]
  <2>0. G \in Seq(S) /\ D \in Seq(S) /\ Statements = G \o D
    BY <1>9, <1>5, <1>7
  <2>1. /\ Len(Statements) = Len(G) + Len(D)
        /\ \A i \in 1..Len(G) : Statements[i] = G[i]
        /\ \A i \in 1..Len(D) : Statements[i + Len(G)] = D[i]
    BY <2>0, <1>c
  <2> QED  BY <2>1, <1>9, <1>5
<1>11. \A i \in 1..8 : Statements[i + 2] = Alter("nodes", NodeColumns[i])
  <2> SUFFICES ASSUME NEW i \in 1..8 PROVE Statements[i + 2] = Alter("nodes", NodeColumns[i])
    OBVIOUS
  <2>1. PICK j \in 1..10 : j = i + 2
    OBVIOUS
  <2>2. Statements[j] = G[j] /\ G[j] = F[j]
    BY <1>9, <1>10
  <2>3. F[i + 2] = Alter("nodes", NodeColumns[i])
    BY <1>3, <1>8
  <2> QED  BY <2>1, <2>2, <2>3
<1>12. \A i \in 1..9 : Statements[i + 10] = Alter("relays", RelayColumns[i])
  <2> SUFFICES ASSUME NEW i \in 1..9 PROVE Statements[i + 10] = Alter("relays", RelayColumns[i])
    OBVIOUS
  <2>1. PICK j \in 1..19 : j = i + 10
    OBVIOUS
  <2> QED  BY <2>1, <1>4, <1>9, <1>10
<1>13. Statements[1] = A[1] /\ Statements[2] = A[2]
  BY <1>8, <1>9, <1>10
<1>14. Statements[20] = D[1] /\ Statements[21] = D[2] /\ Statements[22] = D[3]
  BY <1>10
<1> QED  BY <1>2, <1>5, <1>10, <1>11, <1>12, <1>13, <1>14

\* Every statement is about one of the two tables and columns of the schema.
LEMMA StatementShape ==
    ASSUME NEW i \in 1..22
    PROVE  /\ Statements[i].kind \in {"create", "alter", "index"}
           /\ Statements[i].table \in {"nodes", "relays"}
           /\ Statements[i].columns \subseteq Schema
<1>0. {<<"nodes", "status">>, <<"relays", "status">>, <<"relays", "last_seen_at">>} \subseteq Schema
  <2>1. DOMAIN NodeColumns = 1..8 /\ NodeColumns[6] = "status"
    BY DEF NodeColumns
  <2> QED  BY <2>1 DEF Schema, Columns
<1>1. CASE i \in 1..2
  BY <1>1, StatementAt DEF Create, Schema
<1>2. CASE i \in 3..10
  <2>1. PICK j \in 1..8 : i = j + 2
    BY <1>2
  <2>2. <<"nodes", NodeColumns[j]>> \in Schema
    BY DEF NodeColumns, Schema, Columns
  <2> QED  BY <2>1, <2>2, StatementAt DEF Alter
<1>3. CASE i \in 11..19
  <2>1. PICK j \in 1..9 : i = j + 10
    BY <1>3
  <2>2. <<"relays", RelayColumns[j]>> \in Schema
    BY DEF RelayColumns, Schema, Columns
  <2> QED  BY <2>1, <2>2, StatementAt DEF Alter
<1>4. CASE i \in 20..22
  BY <1>0, <1>4, StatementAt DEF Index
<1> QED  BY <1>1, <1>2, <1>3, <1>4

\* Every added column has its ALTER, and every indexed one its CREATE INDEX.
LEMMA StatementsCoverSchema ==
    /\ \A p \in Schema : \E i \in 1..22 :
          Statements[i].kind = "alter" /\ Statements[i].columns = {p}
    /\ \A p \in Indexed : \E i \in 1..22 :
          Statements[i].kind = "index" /\ Statements[i].columns = {p}
<1>1. ASSUME NEW p \in Columns("nodes")
      PROVE  \E i \in 1..22 : Statements[i].kind = "alter" /\ Statements[i].columns = {p}
  <2>1. PICK j \in 1..8 : p = <<"nodes", NodeColumns[j]>>
    BY DEF Columns, NodeColumns
  <2>2. j + 2 \in 1..22 /\ Statements[j + 2] = Alter("nodes", NodeColumns[j])
    BY StatementAt
  <2> QED  BY <2>1, <2>2 DEF Alter
<1>2. ASSUME NEW p \in Columns("relays")
      PROVE  \E i \in 1..22 : Statements[i].kind = "alter" /\ Statements[i].columns = {p}
  <2>1. PICK j \in 1..9 : p = <<"relays", RelayColumns[j]>>
    <3>1. /\ RelayColumns[1] = "replication_factor" /\ RelayColumns[2] = "version"
          /\ RelayColumns[3] = "uptime_secs" /\ RelayColumns[4] = "capabilities"
          /\ RelayColumns[5] = "status" /\ RelayColumns[6] = "last_seen"
          /\ RelayColumns[7] = "last_seen_at" /\ RelayColumns[8] = "created_at"
          /\ RelayColumns[9] = "updated_at"
      BY DEF RelayColumns
    <3> QED  BY <3>1 DEF Columns
  <2>2. j + 10 \in 1..22 /\ Statements[j + 10] = Alter("relays", RelayColumns[j])
    BY StatementAt
  <2> QED  BY <2>1, <2>2 DEF Alter
<1>3. ASSUME NEW p \in Indexed
      PROVE  \E i \in 1..22 : Statements[i].kind = "index" /\ Statements[i].columns = {p}
  BY StatementAt DEF Indexed, Index
<1> QED  BY <1>1, <1>2, <1>3 DEF Schema

\* The columns SQLite refuses to add to the database as it is.
Refused == {p \in TimeOfInsertion : p[1] \in db.filled}

\* What the statements before the next one have achieved.
Achieved(i) ==
    /\ Statements[i].kind = "alter" =>
          Statements[i].columns \subseteq db.columns \cup skipped \cup Refused
    /\ Statements[i].kind = "index" => Statements[i].columns \subseteq db.columns

SchemaInv ==
    /\ IsSchema(db)
    /\ ddl \in 1..23
    /\ phase \in {"listening", "serving", "draining", "closing", "closed"} => ddl = 23
    /\ phase \in {"down", "writing", "truncated", "migrating", "listening"} => runner = "off"
    /\ phase \in {"down", "writing", "truncated", "migrating", "listening",
                  "serving", "draining", "closing", "closed"}
    /\ \A i \in 1..22 : i < ddl => Achieved(i)

\* A statement only adds to the schema.
LEMMA ExecutedOnlyAdds ==
    ASSUME IsSchema(db), NEW i \in 1..22
    PROVE  /\ IsSchema(Executed(db, Statements[i]))
           /\ db.columns \subseteq Executed(db, Statements[i]).columns
           /\ Statements[i].kind = "alter" =>
                 Statements[i].columns \subseteq Executed(db, Statements[i]).columns
           /\ Statements[i].kind = "index" => Executed(db, Statements[i]) = db
           /\ Executed(db, Statements[i]).filled = db.filled
<1>1. PICK q : q = Statements[i]
  OBVIOUS
<1>2. q.kind \in {"create", "alter", "index"} /\ q.table \in {"nodes", "relays"}
      /\ q.columns \subseteq Schema
  BY <1>1, StatementShape
<1>3. CASE q.kind = "create"
  BY <1>1, <1>2, <1>3 DEF Executed, IsSchema
<1>4. CASE q.kind = "alter"
  BY <1>1, <1>2, <1>4 DEF Executed, IsSchema
<1>5. CASE q.kind = "index"
  BY <1>1, <1>2, <1>5 DEF Executed, IsSchema
<1> QED  BY <1>2, <1>3, <1>4, <1>5

\* An ALTER that SQLite refuses is about a column that is there, or that is
\* refused for its default.
LEMMA RefusedAlter ==
    ASSUME NEW i \in 1..22, Statements[i].kind = "alter", ~Accepted(db, Statements[i])
    PROVE  Statements[i].columns \subseteq db.columns \cup Refused
<1>1. PICK table, c : Statements[i] = Alter(table, c)
  <2>1. CASE i \in 3..10
    <3>1. PICK j \in 1..8 : i = j + 2
      BY <2>1
    <3> QED  BY <3>1, StatementAt
  <2>2. CASE i \in 11..19
    <3>1. PICK j \in 1..9 : i = j + 10
      BY <2>2
    <3> QED  BY <3>1, StatementAt
  <2>3. CASE i \in 1..2 \cup 20..22
    BY <2>3, StatementAt DEF Create, Index
  <2> QED  BY <2>1, <2>2, <2>3
<1>2. /\ Statements[i].kind = "alter" /\ Statements[i].table = table
      /\ Statements[i].columns = {<<table, c>>}
  BY <1>1 DEF Alter
<1>3. CASE <<table, c>> \in db.columns
  BY <1>2, <1>3
<1>4. CASE table \in db.filled /\ <<table, c>> \in TimeOfInsertion
  BY <1>2, <1>4 DEF Refused
<1> QED  BY <1>2, <1>3, <1>4 DEF Accepted

\* Every step keeps what was achieved: columns are only added, and a statement
\* is passed over only when it is an ALTER that failed.
LEMMA NextKeepsSchema ==
    ASSUME SchemaInv, [Next]_vars
    PROVE  SchemaInv'
<1>0. Len(Statements) = 22
  BY StatementAt
<1>1. CASE UNCHANGED <<db, ddl, skipped, phase, runner>>
  BY <1>1 DEF SchemaInv, Achieved, Refused
<1>2. CASE Gone /\ UNCHANGED db
  <2>1. phase' = "down" /\ runner' = "off" /\ ddl' = 1
    BY <1>2 DEF Gone
  <2> QED  BY <1>2, <2>1 DEF SchemaInv
<1>3. CASE MigrateStep
  <2>1. ddl \in 1..22 /\ db' = Executed(db, Statements[ddl]) /\ ddl' = ddl + 1
        /\ UNCHANGED <<skipped, phase, runner>> /\ Accepted(db, Statements[ddl])
        /\ phase = "migrating"
    BY <1>3, <1>0 DEF MigrateStep, SchemaInv, serving
  <2>2. /\ IsSchema(db') /\ db.columns \subseteq db'.columns
        /\ Statements[ddl].kind = "alter" => Statements[ddl].columns \subseteq db'.columns
        /\ Statements[ddl].kind = "index" => db' = db
        /\ db'.filled = db.filled
    BY <2>1, ExecutedOnlyAdds DEF SchemaInv
  <2>3. Statements[ddl].kind = "index" => Statements[ddl].columns \subseteq db.columns
    BY <2>1 DEF Accepted
  <2>4. ASSUME NEW i \in 1..22, i < ddl' PROVE Achieved(i)'
    <3>1. CASE i < ddl
      BY <3>1, <2>1, <2>2 DEF SchemaInv, Achieved, Refused
    <3>2. CASE i = ddl
      BY <3>2, <2>1, <2>2, <2>3 DEF Achieved, Refused
    <3> QED  BY <3>1, <3>2, <2>1, <2>4
  <2> QED  BY <2>1, <2>2, <2>4 DEF SchemaInv
<1>4. CASE SkipAlter
  <2>1. ddl \in 1..22 /\ ddl' = ddl + 1 /\ UNCHANGED <<db, phase, runner>>
        /\ Statements[ddl].kind = "alter" /\ phase = "migrating"
        /\ skipped' = IF Accepted(db, Statements[ddl])
                      THEN skipped \cup Statements[ddl].columns ELSE skipped
    BY <1>4, <1>0 DEF SkipAlter, SchemaInv, serving, disk
  <2>3. Statements[ddl].columns \subseteq db.columns \cup skipped' \cup Refused
    BY <2>1, RefusedAlter
  <2>2. ASSUME NEW i \in 1..22, i < ddl' PROVE Achieved(i)'
    <3>1. CASE i < ddl
      BY <3>1, <2>1 DEF SchemaInv, Achieved, Refused
    <3>2. CASE i = ddl
      BY <3>2, <2>1, <2>3 DEF Achieved, Refused
    <3> QED  BY <3>1, <3>2, <2>1, <2>2
  <2> QED  BY <2>1, <2>2 DEF SchemaInv
<1>5. ASSUME NEW s \in Slot, NEW table \in db.tables, RunStatements(s, table) PROVE SchemaInv'
  <2>1. db' = [db EXCEPT !.filled = @ \cup {table}] /\ UNCHANGED <<ddl, skipped, phase, runner>>
    BY <1>5 DEF RunStatements, Keep, startVars
  <2>2. IsSchema(db') /\ db'.columns = db.columns /\ db.filled \subseteq db'.filled
    BY <2>1 DEF SchemaInv, IsSchema
  <2> QED  BY <2>1, <2>2 DEF SchemaInv, Achieved, Refused
<1>6. CASE RunChecks
  <2>1. phase' = "listening" /\ ddl' = ddl /\ ddl > 22 /\ UNCHANGED <<db, skipped, runner>>
        /\ phase = "migrating"
    BY <1>6, <1>0 DEF RunChecks, disk, startVars
  <2> QED  BY <2>1 DEF SchemaInv, Achieved, Refused
<1>7. CASE Listen \/ Signal \/ DrainDone \/ DrainExpires \/ CloseStore
  <2>1. /\ phase \in {"listening", "serving", "draining", "closing"}
        /\ phase' \in {"serving", "draining", "closing", "closed"}
        /\ UNCHANGED <<db, ddl, skipped>>
    BY <1>7 DEF Listen, Signal, DrainDone, DrainExpires, CloseStore, disk, startVars
  <2> QED  BY <2>1 DEF SchemaInv, Achieved, Refused
<1>8. CASE RunnerStep
  <2>1. runner # "off" /\ UNCHANGED <<db, ddl, skipped, phase>>
    BY <1>8 DEF RunnerStep, disk, startVars
  <2> QED  BY <2>1 DEF SchemaInv, Achieved, Refused
<1>9. ASSUME NEW given \in FlagSets, NEW env \in EnvSets, Resolve(given, env)
      PROVE  SchemaInv'
  <2>1. phase = "down" /\ phase' \in {"down", "writing", "migrating"}
        /\ UNCHANGED <<db, ddl, skipped, runner>>
    BY <1>9 DEF Resolve, disk, serving
  <2> QED  BY <2>1 DEF SchemaInv, Achieved, Refused
<1>10. CASE TruncateFile
  <2>1. phase = "writing" /\ phase' = "truncated" /\ UNCHANGED <<db, ddl, skipped, runner>>
    BY <1>10 DEF TruncateFile, startVars, serving
  <2> QED  BY <2>1 DEF SchemaInv, Achieved, Refused
<1>11. CASE FinishWrite
  <2>1. CASE Gone /\ UNCHANGED db
    BY <2>1, <1>2
  <2>2. CASE phase = "truncated" /\ phase' = "migrating" /\ UNCHANGED <<db, ddl, skipped, runner>>
    BY <2>2 DEF SchemaInv, Achieved, Refused
  <2> QED  BY <1>11, <2>1, <2>2 DEF FinishWrite, startVars, serving
<1>12. Exit \/ Die => Gone /\ UNCHANGED db
  BY DEF Exit, Die, disk
<1>13. GenerateConfig \/ Tick \/ UNCHANGED vars => UNCHANGED <<db, ddl, skipped, phase, runner>>
  BY DEF GenerateConfig, Tick, vars, disk, startVars, serving
<1>14. ASSUME NEW s \in Slot,
              Accept(s) \/ ReadBody(s) \/ ReadFails(s) \/ GetVPNStatus(s) \/ EndStatus(s)
                \/ StatementsFail(s) \/ CallStep(s)
                \/ EndCall(s) \/ Answer(s) \/ Disconnect(s)
       PROVE  UNCHANGED <<db, ddl, skipped, phase, runner>>
  BY <1>14 DEF Accept, ReadBody, ReadFails, GetVPNStatus, EndStatus, StatementsFail, CallStep, EndCall, Answer,
               Disconnect, Keep, startVars
<1> QED  BY <1>1, <1>2, <1>3, <1>4, <1>5, <1>6, <1>7, <1>8, <1>9, <1>10, <1>11, <1>12,
            <1>13, <1>14 DEF Next, Step

\* Whatever earlier version made the database, and wherever earlier starts died,
\* a server that runs lacks only columns whose ALTER failed in this start though
\* SQLite would have taken it, or that SQLite cannot add to a table with rows, and
\* none that has an index (migrate).
THEOREM MigrationRepairs == Spec => []SchemaGapsExplained
<1>1. Init => SchemaInv
  <2> SUFFICES ASSUME Init PROVE SchemaInv
    OBVIOUS
  <2>1. IsSchema(db) /\ ddl = 1 /\ phase = "down" /\ runner = "off"
    BY ProcessAssumption DEF ProcessAssumption, Init
  <2> QED  BY <2>1 DEF SchemaInv
<1>2. SchemaInv /\ [Next]_vars => SchemaInv'
  BY NextKeepsSchema
<1>3. SchemaInv => SchemaGapsExplained
  <2> SUFFICES ASSUME SchemaInv, runner # "off"
               PROVE  /\ Schema \subseteq db.columns \cup skipped \cup Refused
                      /\ Indexed \subseteq db.columns
    BY DEF SchemaGapsExplained, Refused
  <2>1. \A i \in 1..22 : Achieved(i)
    BY DEF SchemaInv
  <2>2. ASSUME NEW p \in Schema PROVE p \in db.columns \cup skipped \cup Refused
    BY <2>1, StatementsCoverSchema DEF Achieved
  <2>3. ASSUME NEW p \in Indexed PROVE p \in db.columns
    BY <2>1, StatementsCoverSchema DEF Achieved
  <2> QED  BY <2>2, <2>3
<1> QED  BY <1>1, <1>2, <1>3, PTL DEF Spec

(***************************************************************************)
(* Type correctness.                                                       *)
(***************************************************************************)

\* A request waits for the provider exactly while it has a call.
Linked(r, q) ==
    /\ r.pc = "status" <=> q.pc = "asked"
    /\ r.pc = "vpn" <=> q.pc \in {"attempt", "backoff", "done"}

\* What TypeOK says besides of the process itself.
ProcessInv ==
    /\ phase = "down" => cfg = NoConfig
    /\ InForce => Validate(cfg)
    /\ skipped \subseteq Schema
    /\ runner \in {"off", "select", "job"} /\ stopped \in BOOLEAN /\ open \in BOOLEAN
    /\ drain \in 0..DrainTimeout
    /\ \A s \in Slot : Linked(request[s], call[s])

TypeInv == ClientInv /\ DrainInv /\ SchemaInv /\ ProcessInv

\* Every step keeps the requests and their calls together.
LEMMA NextKeepsLink ==
    ASSUME TypeInv, [Next]_vars, NEW t \in Slot
    PROVE  Linked(request'[t], call'[t])
<1>0. /\ request \in [Slot -> Request] /\ DOMAIN call = Slot
      /\ request[t] \in Request
      /\ \A s \in Slot : Linked(request[s], call[s]) /\ CallOK(call[s])
  BY DEF TypeInv, DrainInv, ProcessInv, ClientInv, ClientTypeOK
<1>1. CASE UNCHANGED <<request, call>>
  BY <1>0, <1>1
<1>2. CASE Gone
  BY <1>2 DEF Gone, NoRequest, NoCall, Linked
<1>3. CASE Tick
  <2>1. request'[t].pc = request[t].pc
    BY <1>3, <1>0, OlderRequest DEF Tick
  <2>2. call'[t].pc = call[t].pc
    <3>1. CallOK(call[t])
      BY DEF TypeInv, ClientInv, ClientTypeOK
    <3> QED  BY <1>3, <3>1 DEF Tick, Elapse, CallOK
  <2> QED  BY <2>1, <2>2, <1>0 DEF Linked
<1>4. CASE DrainExpires
  BY <1>4, <1>0 DEF DrainExpires, clientVars, Request, NoRequest, Linked
<1>5. ASSUME NEW s \in Slot, NEW pc, SetPc(s, pc), pc \notin {"vpn", "status"},
             request[s].pc \notin {"vpn", "status"}, UNCHANGED call
      PROVE  Linked(request'[t], call'[t])
  BY <1>0, <1>5 DEF SetPc, Request, Linked
<1>15. ASSUME NEW s \in Slot, NEW pc, NEW q, SetPc(s, pc), call' = [call EXCEPT ![s] = q],
              pc = "status" <=> q.pc = "asked",
              pc = "vpn" <=> q.pc \in {"attempt", "backoff", "done"}
       PROVE  Linked(request'[t], call'[t])
  <2>1. CASE t = s
    <3>1. request'[t].pc = pc /\ call'[t] = q
      BY <1>0, <1>15, <2>1 DEF SetPc, Request
    <3> QED  BY <3>1, <1>15 DEF Linked
  <2>2. CASE t # s
    <3>1. request'[t] = request[t] /\ call'[t] = call[t]
      BY <1>0, <1>15, <2>2 DEF SetPc
    <3> QED  BY <3>1, <1>0
  <2> QED  BY <2>1, <2>2
<1>6. ASSUME NEW s \in Slot, Accept(s) \/ ReadBody(s) \/ ReadFails(s) \/ StatementsFail(s)
      PROVE  Linked(request'[t], call'[t])
  <2>1. /\ request[s].pc \notin {"vpn", "status"} /\ UNCHANGED call
        /\ \E pc \in {"body", "db", "answer"} : SetPc(s, pc)
    BY <1>6 DEF Accept, ReadBody, ReadFails, StatementsFail, clientVars
  <2> QED  BY <2>1, <1>5
<1>16. ASSUME NEW s \in Slot, GetVPNStatus(s) PROVE Linked(request'[t], call'[t])
  BY <1>15, <1>16 DEF GetVPNStatus, Ask
<1>17. ASSUME NEW s \in Slot, EndStatus(s) PROVE Linked(request'[t], call'[t])
  <2>1. NoCall.pc = "idle"
    BY DEF NoCall
  <2> QED  BY <1>17, <2>1, <1>15 DEF EndStatus, EndAsk
<1>7. ASSUME NEW s \in Slot, NEW table, RunStatements(s, table)
      PROVE  Linked(request'[t], call'[t])
  <2>1. CASE SetPc(s, "answer") /\ UNCHANGED clientVars
    BY <1>7, <2>1, <1>5 DEF RunStatements, clientVars
  <2>2. CASE SetPc(s, "vpn") /\ Begin(s)
    BY <2>2, <1>15 DEF Begin
  <2> QED  BY <1>7, <2>1, <2>2 DEF RunStatements
<1>8. ASSUME NEW s \in Slot, CallStep(s)
      PROVE  Linked(request'[t], call'[t])
  <2>1. UNCHANGED request /\ call[s].pc \in {"attempt", "backoff"}
    BY <1>8 DEF CallStep, Succeed, FailTransiently, FailForGood, Retry
  <2>2. \E q : call' = [call EXCEPT ![s] = q] /\ q.pc \in {"attempt", "backoff", "done"}
    <3>0. CallOK(call[s])
      BY DEF TypeInv, ClientInv, ClientTypeOK
    <3>1. [NoCall EXCEPT !.pc = "done"].pc = "done"
      BY DEF NoCall
    <3>2. ASSUME NEW k, Settle(s, k)
          PROVE  \E q : call' = [call EXCEPT ![s] = q] /\ q.pc \in {"attempt", "backoff", "done"}
      BY <3>1, <3>2 DEF Settle
    <3>3. CASE Succeed(s)
      BY <3>2, <3>3 DEF Succeed
    <3>4. CASE Retry(s)
      <4>1. call' = [call EXCEPT ![s] = [call[s] EXCEPT !.pc = "attempt", !.attempt = @ + 1,
                                                        !.left = AttemptTimeout]]
        BY <3>4, <1>0 DEF Retry
      <4>2. [call[s] EXCEPT !.pc = "attempt", !.attempt = @ + 1, !.left = AttemptTimeout].pc = "attempt"
        BY <3>0 DEF CallOK
      <4> QED  BY <4>1, <4>2
    <3>5. ASSUME NEW lost, FailTransiently(s, lost)
          PROVE  \E q : call' = [call EXCEPT ![s] = q] /\ q.pc \in {"attempt", "backoff", "done"}
      <4>1. CASE MayRetry(call[s].attempt)
        <5>1. call' = [call EXCEPT ![s] = [call[s] EXCEPT !.pc = "backoff", !.left = Backoff,
                                                          !.made = @ + lost]]
          BY <3>5, <4>1, <1>0 DEF FailTransiently
        <5>2. [call[s] EXCEPT !.pc = "backoff", !.left = Backoff, !.made = @ + lost].pc = "backoff"
          BY <3>0 DEF CallOK
        <5> QED  BY <5>1, <5>2
      <4>2. CASE ~MayRetry(call[s].attempt)
        BY <3>2, <3>5, <4>2 DEF FailTransiently
      <4> QED  BY <4>1, <4>2
    <3>6. ASSUME NEW lost, FailForGood(s, lost)
          PROVE  \E q : call' = [call EXCEPT ![s] = q] /\ q.pc \in {"attempt", "backoff", "done"}
      BY <3>2, <3>6 DEF FailForGood
    <3> QED  BY <1>8, <3>3, <3>4, <3>5, <3>6 DEF CallStep
  <2>3. PICK q : call' = [call EXCEPT ![s] = q] /\ q.pc \in {"attempt", "backoff", "done"}
    BY <2>2
  <2> QED  BY <2>1, <2>3, <1>0 DEF Linked
<1>9. ASSUME NEW s \in Slot, EndCall(s)
      PROVE  Linked(request'[t], call'[t])
  <2>1. NoCall.pc = "idle"
    BY DEF NoCall
  <2> QED  BY <1>9, <2>1, <1>15 DEF EndCall
<1>10. ASSUME NEW s \in Slot, Answer(s)
       PROVE  Linked(request'[t], call'[t])
  BY <1>10, <1>0 DEF Answer, NoRequest, clientVars, Request, Linked
<1>11. ASSUME NEW s \in Slot, Disconnect(s)
       PROVE  Linked(request'[t], call'[t])
  BY <1>11, <1>0 DEF Disconnect, clientVars, Request, Linked
<1>12. ASSUME NEW given \in FlagSets, NEW env \in EnvSets, Resolve(given, env)
       PROVE  UNCHANGED <<request, call>>
  BY <1>12 DEF Resolve, serving, clientVars
<1>13. TruncateFile \/ GenerateConfig \/ MigrateStep \/ SkipAlter \/ Listen \/ RunChecks
         \/ RunnerStep \/ Signal \/ DrainDone \/ CloseStore \/ UNCHANGED vars
       => UNCHANGED <<request, call>>
  BY DEF TruncateFile, GenerateConfig, MigrateStep, SkipAlter, Listen, RunChecks, Probe,
         RunnerStep, Signal, DrainDone, CloseStore, vars, serving, clientVars
<1>14. FinishWrite \/ Exit \/ Die => Gone \/ UNCHANGED <<request, call>>
  BY DEF FinishWrite, Exit, Die, serving, clientVars
<1> QED  BY <1>1, <1>2, <1>3, <1>4, <1>6, <1>7, <1>8, <1>9, <1>10, <1>11, <1>12, <1>13, <1>14,
            <1>16, <1>17 DEF Next, Step

\* Every step keeps the other variables of the process in their types.
LEMMA NextKeepsProcess ==
    ASSUME TypeInv, [Next]_vars
    PROVE  ProcessInv'
<1> USE ProcessAssumption DEF ProcessAssumption
<1> DEFINE P == /\ phase = "down" => cfg = NoConfig
                /\ InForce => Validate(cfg)
                /\ skipped \subseteq Schema
                /\ runner \in {"off", "select", "job"} /\ stopped \in BOOLEAN
                /\ open \in BOOLEAN
                /\ drain \in 0..DrainTimeout
<1>0. P /\ \A t \in Slot : Linked(request'[t], call'[t])
  BY NextKeepsLink DEF TypeInv, ProcessInv
<1>1. CASE UNCHANGED <<phase, cfg, skipped, runner, stopped, open, drain>>
  <2>1. P'
    BY <1>0, <1>1 DEF InForce
  <2> QED  BY <1>0, <2>1 DEF ProcessInv
<1>2. CASE Gone
  <2>2. stopped' = FALSE /\ open' = FALSE
    BY <1>2 DEF Gone
  <2>3. stopped' \in BOOLEAN /\ open' \in BOOLEAN
    BY <2>2
  <2>4. /\ phase' = "down" /\ cfg' = NoConfig /\ skipped' = {} /\ runner' = "off"
        /\ drain' = 0 /\ 0 \in 0..DrainTimeout
    BY <1>2 DEF Gone
  <2>1. P'
    BY <2>3, <2>4 DEF InForce
  <2> QED  BY <1>0, <2>1 DEF ProcessInv
<1>3. ASSUME NEW given \in FlagSets, NEW env \in EnvSets, Resolve(given, env)
      PROVE  ProcessInv'
  <2>1. UNCHANGED <<skipped, runner, stopped, open, drain>>
    BY <1>3 DEF Resolve, serving
  <2>2. phase' = "down" => cfg' = NoConfig
    BY <1>3, <1>0 DEF Resolve
  <2>3. InForce' => Validate(cfg')
    BY <1>3, <1>0 DEF Resolve, InForce
  <2> QED  BY <1>0, <2>1, <2>2, <2>3 DEF ProcessInv
<1>4. CASE TruncateFile
  BY <1>0, <1>4 DEF TruncateFile, startVars, serving, InForce, ProcessInv
<1>5. CASE FinishWrite
  <2>1. CASE Validate(cfg)
    BY <1>0, <1>5, <2>1 DEF FinishWrite, startVars, serving, InForce, ProcessInv
  <2> QED  BY <1>5, <1>2, <2>1 DEF FinishWrite
<1>6. CASE SkipAlter
  <2>1. ddl \in 1..22
    BY <1>6, StatementAt DEF SkipAlter, TypeInv, SchemaInv
  <2>2. Statements[ddl].columns \subseteq Schema
    BY <2>1, StatementShape
  <2> QED  BY <1>0, <1>6, <2>2 DEF SkipAlter, serving, InForce, ProcessInv
<1>7. CASE RunChecks \/ Listen \/ DrainDone \/ CloseStore
  BY <1>0, <1>7 DEF RunChecks, Listen, DrainDone, CloseStore, startVars, serving, InForce, ProcessInv
<1>8. CASE RunnerStep
  BY <1>0, <1>8 DEF RunnerStep, startVars, InForce, ProcessInv
<1>9. CASE Signal
  BY <1>0, <1>9 DEF Signal, startVars, InForce, ProcessInv
<1>10. CASE DrainExpires
  BY <1>0, <1>10 DEF DrainExpires, startVars, InForce, ProcessInv
<1>11. CASE Tick
  <2>1. /\ UNCHANGED <<phase, cfg, skipped, runner, stopped, open>>
        /\ phase = "draining" => drain > 0
        /\ drain' = IF phase = "draining" THEN drain - 1 ELSE drain
    BY <1>11 DEF Tick, startVars
  <2>2. drain' \in 0..DrainTimeout
    BY <2>1, <1>0
  <2> QED  BY <1>0, <2>1, <2>2 DEF InForce, ProcessInv
<1>12. Exit \/ Die => Gone
  BY DEF Exit, Die
<1>13. GenerateConfig \/ MigrateStep \/ UNCHANGED vars
       => UNCHANGED <<phase, cfg, skipped, runner, stopped, open, drain>>
  BY DEF GenerateConfig, MigrateStep, vars, startVars, serving
<1>14. ASSUME NEW s \in Slot, Step(s)
       PROVE  UNCHANGED <<phase, cfg, skipped, runner, stopped, open, drain>>
  BY <1>14 DEF Step, Accept, ReadBody, ReadFails, GetVPNStatus, EndStatus, RunStatements,
               StatementsFail, CallStep, EndCall, Answer, Disconnect, Keep, startVars
<1> QED  BY <1>1, <1>2, <1>3, <1>4, <1>5, <1>6, <1>7, <1>8, <1>9, <1>10, <1>11, <1>12,
            <1>13, <1>14 DEF Next

LEMMA InitTypeInv == Init => TypeInv
<1> SUFFICES ASSUME Init PROVE TypeInv
  OBVIOUS
<1> USE ProcessAssumption DEF ProcessAssumption
<1>1. ClientInv
  <2>1. call = [s \in Slot |-> NoCall] /\ made = 0 /\ generated = 0 /\ errors = 0
    BY DEF Init, ClientInit
  <2> QED  BY <2>1, NoCallsInv DEF ClientInv, ClientTypeOK, KeysAccounted
<1>2. DrainInv
  BY DEF Init, DrainInv, NoRequest, Request
<1>3. SchemaInv
  <2>1. IsSchema(db) /\ ddl = 1 /\ phase = "down" /\ runner = "off"
    BY DEF Init
  <2> QED  BY <2>1 DEF SchemaInv
<1>4. ProcessInv
  <2>1. stopped = FALSE /\ open = FALSE
    BY DEF Init
  <2>2. stopped \in BOOLEAN /\ open \in BOOLEAN
    BY <2>1
  <2>3. /\ phase = "down" /\ cfg = NoConfig /\ skipped = {} /\ runner = "off"
        /\ drain = 0 /\ 0 \in 0..DrainTimeout
    BY DEF Init
  <2>4. \A s \in Slot : request[s].pc = "idle" /\ call[s].pc = "idle"
    BY DEF Init, ClientInit, NoRequest, NoCall
  <2> QED  BY <2>2, <2>3, <2>4 DEF ProcessInv, InForce, Linked
<1> QED  BY <1>1, <1>2, <1>3, <1>4 DEF TypeInv

LEMMA NextKeepsType == TypeInv /\ [Next]_vars => TypeInv'
  BY NextKeepsClient, NextKeepsDrain, NextKeepsSchema, NextKeepsProcess DEF TypeInv

\* Every variable of the process has its type, and a configuration in force is a
\* valid one.
THEOREM TypeCorrect == Spec => []TypeOK
<1>1. TypeInv => TypeOK
  BY StatementAt DEF TypeInv, ClientInv, DrainInv, SchemaInv, ProcessInv, Linked, TypeOK
<1> QED  BY <1>1, InitTypeInv, NextKeepsType, PTL DEF Spec

(***************************************************************************)
(* The steps of a handler, and how long it takes.                          *)
(***************************************************************************)

\* The longest a call can still take.
Remaining(q) ==
    CASE q.pc = "attempt" /\ q.attempt = 1 -> q.left + Backoff + AttemptTimeout
      [] q.pc = "backoff" -> q.left + AttemptTimeout
      [] q.pc = "attempt" /\ q.attempt = 2 -> q.left
      [] q.pc = "asked" -> q.left
      [] OTHER -> 0

Longest == 2 * AttemptTimeout + Backoff

\* A handler's age, with what its call can still take, is within its bounds, its
\* wait for the database apart.
InTime(r, q, read) ==
    /\ r.pc = "body" => r.age <= read
    /\ r.pc = "db" => r.age <= read + r.waited
    /\ r.pc \in {"vpn", "status"} => r.age + Remaining(q) <= read + Longest + r.waited
    /\ r.pc = "answer" => r.age <= read + Longest + r.waited

Up == phase \in {"serving", "draining", "closing", "closed"}

TimeInv ==
    /\ ~Up => AllIdle
    /\ \A s \in Slot : request[s].pc = "idle" => request[s].age = 0
    /\ cfg.read \in Nat \ {0} => \A s \in Slot : InTime(request[s], call[s], cfg.read)

\* What the steps of a handler do to its slot, ticks aside: each takes it nearer
\* to its end, and none brings it out of time.
Moves(r, q, r2, q2) ==
    /\ r2.pc # "idle" => r2.age = r.age /\ r2.waited = r.waited
    /\ r2.pc = "idle" => r2.age = 0
    /\ \/ r.pc = "body" /\ r2.pc \in {"db", "answer"}
       \/ r.pc = "body" /\ r2.pc = "status" /\ q2.pc = "asked" /\ q2.left = AttemptTimeout
       \/ r.pc = "status" /\ q.pc = "asked" /\ r2.pc = "answer"
       \/ r.pc = "db" /\ r2.pc = "answer"
       \/ /\ r.pc = "db" /\ r2.pc = "vpn"
          /\ q2.pc = "attempt" /\ q2.attempt = 1 /\ q2.left = AttemptTimeout
       \/ r.pc = "vpn" /\ q.pc = "done" /\ r2.pc = "answer"
       \/ /\ r.pc = "vpn" /\ r2.pc = "vpn"
          /\ \/ q.pc = "attempt" /\ q2.pc = "done"
             \/ /\ q.pc = "attempt" /\ q.attempt = 1
                /\ q2.pc = "backoff" /\ q2.left = Backoff
             \/ /\ q.pc = "backoff" /\ q2.pc = "attempt"
                /\ q2.attempt = 2 /\ q2.left = AttemptTimeout
       \/ r.pc = "answer" /\ r2.pc = "idle"

Others(s) == \A t \in Slot \ {s} : request'[t] = request[t] /\ call'[t] = call[t]

LEMMA CallMoves ==
    ASSUME TypeInv, NEW s \in Slot, CallStep(s)
    PROVE  Others(s) /\ Moves(request[s], call[s], request'[s], call'[s])
<1>0. /\ request \in [Slot -> Request] /\ request[s] \in Request
      /\ DOMAIN call = Slot /\ CallOK(call[s])
      /\ Linked(request[s], call[s])
  BY DEF TypeInv, DrainInv, ClientInv, ClientTypeOK, ProcessInv
<1>1. UNCHANGED request /\ request[s].pc = "vpn"
  BY <1>0 DEF CallStep, Succeed, FailTransiently, FailForGood, Retry, Linked
<1>2. ASSUME NEW q, call' = [call EXCEPT ![s] = q],
             \/ call[s].pc = "attempt" /\ q.pc = "done"
             \/ call[s].pc = "attempt" /\ call[s].attempt = 1 /\ q.pc = "backoff" /\ q.left = Backoff
             \/ call[s].pc = "backoff" /\ q.pc = "attempt" /\ q.attempt = 2
                /\ q.left = AttemptTimeout
      PROVE  Others(s) /\ Moves(request[s], call[s], request'[s], call'[s])
  BY <1>0, <1>1, <1>2 DEF Others, Moves
<1>3. ASSUME NEW k, Settle(s, k), call[s].pc = "attempt"
      PROVE  Others(s) /\ Moves(request[s], call[s], request'[s], call'[s])
  <2>1. [NoCall EXCEPT !.pc = "done"].pc = "done"
    BY DEF NoCall
  <2> QED  BY <1>2, <1>3, <2>1 DEF Settle
<1>4. CASE Succeed(s)
  BY <1>3, <1>4 DEF Succeed
<1>5. ASSUME NEW lost, FailForGood(s, lost)
      PROVE  Others(s) /\ Moves(request[s], call[s], request'[s], call'[s])
  BY <1>3, <1>5 DEF FailForGood
<1>6. ASSUME NEW lost, FailTransiently(s, lost)
      PROVE  Others(s) /\ Moves(request[s], call[s], request'[s], call'[s])
  <2>1. CASE MayRetry(call[s].attempt)
    <3> DEFINE q == [call[s] EXCEPT !.pc = "backoff", !.left = Backoff, !.made = @ + lost]
    <3>1. call' = [call EXCEPT ![s] = q] /\ call[s].pc = "attempt"
      BY <1>6, <2>1, <1>0 DEF FailTransiently
    <3>2. call[s].attempt = 1
      BY <3>1, <2>1, <1>0 DEF MayRetry, CallOK
    <3>3. q.pc = "backoff" /\ q.left = Backoff
      BY <1>0 DEF CallOK
    <3> HIDE DEF q
    <3> QED  BY <1>2, <3>1, <3>2, <3>3
  <2>2. CASE ~MayRetry(call[s].attempt)
    BY <1>3, <1>6, <2>2 DEF FailTransiently
  <2> QED  BY <2>1, <2>2
<1>7. CASE Retry(s)
  <2> DEFINE q == [call[s] EXCEPT !.pc = "attempt", !.attempt = @ + 1, !.left = AttemptTimeout]
  <2>1. call' = [call EXCEPT ![s] = q] /\ call[s].pc = "backoff"
    BY <1>7, <1>0 DEF Retry
  <2>2. q.pc = "attempt" /\ q.attempt = 2 /\ q.left = AttemptTimeout
    BY <2>1, <1>0 DEF CallOK
  <2> HIDE DEF q
  <2> QED  BY <1>2, <2>1, <2>2
<1> QED  BY <1>4, <1>5, <1>6, <1>7 DEF CallStep

LEMMA StepMoves ==
    ASSUME TypeInv, NEW s \in Slot, Step(s), ~Accept(s), ~Disconnect(s)
    PROVE  Others(s) /\ Moves(request[s], call[s], request'[s], call'[s])
<1>0. /\ request \in [Slot -> Request] /\ request[s] \in Request
      /\ DOMAIN call = Slot /\ CallOK(call[s])
      /\ Linked(request[s], call[s])
  BY DEF TypeInv, DrainInv, ClientInv, ClientTypeOK, ProcessInv
<1>1. ASSUME NEW pc \in {"db", "vpn", "status", "answer"}, SetPc(s, pc)
      PROVE  /\ request'[s].pc = pc /\ request'[s].age = request[s].age
             /\ request'[s].waited = request[s].waited
             /\ \A t \in Slot \ {s} : request'[t] = request[t]
  BY <1>0, <1>1 DEF SetPc, Request
<1>2. ASSUME ReadBody(s) \/ ReadFails(s) \/ StatementsFail(s)
      PROVE  Others(s) /\ Moves(request[s], call[s], request'[s], call'[s])
  <2>1. /\ UNCHANGED call
        /\ \E pc \in {"db", "answer"} :
              /\ SetPc(s, pc)
              /\ request[s].pc = "body" \/ (request[s].pc = "db" /\ pc = "answer")
    BY <1>2 DEF ReadBody, ReadFails, StatementsFail, clientVars
  <2> QED  BY <2>1, <1>1 DEF Others, Moves
<1>6. ASSUME GetVPNStatus(s)
      PROVE  Others(s) /\ Moves(request[s], call[s], request'[s], call'[s])
  <2>1. /\ \A t \in Slot \ {s} : call'[t] = call[t]
        /\ call'[s].pc = "asked" /\ call'[s].left = AttemptTimeout
    BY <1>6, <1>0 DEF GetVPNStatus, Ask
  <2>2. request[s].pc = "body" /\ SetPc(s, "status")
    BY <1>6 DEF GetVPNStatus
  <2> QED  BY <2>1, <2>2, <1>1 DEF Others, Moves
<1>7. ASSUME EndStatus(s)
      PROVE  Others(s) /\ Moves(request[s], call[s], request'[s], call'[s])
  <2>1. \A t \in Slot \ {s} : call'[t] = call[t]
    BY <1>7, <1>0 DEF EndStatus, EndAsk
  <2>2. request[s].pc = "status" /\ call[s].pc = "asked" /\ SetPc(s, "answer")
    BY <1>7 DEF EndStatus, EndAsk
  <2> QED  BY <2>1, <2>2, <1>1 DEF Others, Moves
<1>3. ASSUME NEW table, RunStatements(s, table)
      PROVE  Others(s) /\ Moves(request[s], call[s], request'[s], call'[s])
  <2>1. CASE SetPc(s, "answer") /\ UNCHANGED clientVars
    BY <1>3, <2>1, <1>1 DEF RunStatements, clientVars, Others, Moves
  <2>2. CASE SetPc(s, "vpn") /\ Begin(s)
    <3>1. /\ \A t \in Slot \ {s} : call'[t] = call[t]
          /\ call'[s].pc = "attempt" /\ call'[s].attempt = 1 /\ call'[s].left = AttemptTimeout
      BY <2>2, <1>0 DEF Begin
    <3> QED  BY <1>3, <2>2, <3>1, <1>1 DEF RunStatements, Others, Moves
  <2> QED  BY <1>3, <2>1, <2>2 DEF RunStatements
<1>4. ASSUME EndCall(s)
      PROVE  Others(s) /\ Moves(request[s], call[s], request'[s], call'[s])
  BY <1>0, <1>4, <1>1 DEF EndCall, Others, Moves
<1>5. ASSUME Answer(s)
      PROVE  Others(s) /\ Moves(request[s], call[s], request'[s], call'[s])
  BY <1>0, <1>5 DEF Answer, clientVars, Others, Moves, NoRequest
<1> QED  BY <1>2, <1>3, <1>4, <1>5, <1>6, <1>7, CallMoves DEF Step

\* A step of a handler keeps it in time.
LEMMA MovesInTime ==
    ASSUME NEW r \in Request, NEW q, CallOK(q), NEW r2 \in Request, NEW q2,
           NEW read \in Nat, InTime(r, q, read), Moves(r, q, r2, q2)
    PROVE  InTime(r2, q2, read)
<1> USE TimingAssumption, ProcessAssumption DEF TimingAssumption, ProcessAssumption
<1>0. r.age \in Nat /\ r2.age \in Nat /\ r.waited \in Nat /\ r2.waited \in Nat
  BY DEF Request
<1>1. q.left \in Nat /\ (q.pc = "attempt" => q.attempt \in 1..2)
  BY DEF CallOK
<1>2. CASE r2.pc \notin {"vpn", "status"}
  <2>1. CASE r.pc \in {"vpn", "status"}
    <3>1. Remaining(q) \in Nat /\ r2.pc = "answer" /\ r2.age = r.age /\ r2.waited = r.waited
      BY <1>1, <1>2, <2>1 DEF Moves, Remaining
    <3> QED  BY <2>1, <3>1, <1>0 DEF InTime, Longest
  <2>2. CASE r.pc \notin {"vpn", "status"}
    BY <1>0, <1>2, <2>2 DEF Moves, InTime, Longest
  <2> QED  BY <2>1, <2>2
<1>5. CASE r2.pc = "status"
  <2>1. Remaining(q2) = AttemptTimeout /\ r.pc = "body"
    BY <1>5 DEF Moves, Remaining
  <2> QED  BY <1>0, <1>5, <2>1 DEF Moves, InTime, Longest
<1>3. CASE r2.pc = "vpn" /\ r.pc = "db"
  <2>1. Remaining(q2) = Longest
    BY <1>3 DEF Moves, Remaining, Longest
  <2> QED  BY <1>0, <1>3, <2>1 DEF Moves, InTime, Longest
<1>4. CASE r2.pc = "vpn" /\ r.pc = "vpn"
  <2>1. Remaining(q2) <= Remaining(q) /\ Remaining(q) \in Nat /\ Remaining(q2) \in Nat
    <3>1. CASE q.pc = "attempt" /\ q2.pc = "done"
      BY <1>1, <3>1 DEF Remaining
    <3>2. CASE q.pc = "attempt" /\ q.attempt = 1 /\ q2.pc = "backoff" /\ q2.left = Backoff
      BY <1>1, <3>2 DEF Remaining
    <3>3. CASE /\ q.pc = "backoff" /\ q2.pc = "attempt"
               /\ q2.attempt = 2 /\ q2.left = AttemptTimeout
      BY <1>1, <3>3 DEF Remaining
    <3> QED  BY <1>4, <3>1, <3>2, <3>3 DEF Moves
  <2> QED  BY <1>0, <1>4, <2>1 DEF Moves, InTime, Longest
<1> QED  BY <1>2, <1>3, <1>4, <1>5 DEF Moves

LEMMA StepKeepsTime ==
    ASSUME TypeInv, TypeInv', TimeInv, NEW s \in Slot, Step(s)
    PROVE  TimeInv'
<1>0. /\ request \in [Slot -> Request] /\ request' \in [Slot -> Request]
      /\ \A t \in Slot : CallOK(call[t])
  BY DEF TypeInv, DrainInv, ClientInv, ClientTypeOK
<1>1. UNCHANGED <<phase, cfg>>
  BY DEF Step, Accept, ReadBody, ReadFails, GetVPNStatus, RunStatements, StatementsFail,
         EndStatus, CallStep, EndCall, Answer, Disconnect, Keep, startVars
<1>2. CASE Accept(s)
  <2>1. /\ Up /\ request[s].pc = "idle" /\ UNCHANGED call
        /\ request' = [request EXCEPT ![s] = [request[s] EXCEPT !.pc = "body"]]
    BY <1>2 DEF Accept, Accepting, Up, SetPc, clientVars
  <2>2. request'[s].pc = "body" /\ request'[s].age = 0
    BY <2>1, <1>0 DEF TimeInv, Request
  <2>3. \A t \in Slot \ {s} : request'[t] = request[t]
    BY <2>1, <1>0
  <2> QED  BY <1>1, <2>1, <2>2, <2>3 DEF TimeInv, InTime, Up
<1>3. CASE Disconnect(s)
  <2>1. /\ request[s].pc # "idle" /\ UNCHANGED call
        /\ request' = [request EXCEPT ![s] = [request[s] EXCEPT !.gone = TRUE]]
    BY <1>3 DEF Disconnect, clientVars
  <2>2. /\ request'[s].pc = request[s].pc /\ request'[s].age = request[s].age
        /\ request'[s].waited = request[s].waited
    BY <2>1, <1>0 DEF Request
  <2>3. \A t \in Slot \ {s} : request'[t] = request[t]
    BY <2>1, <1>0
  <2> QED  BY <1>1, <2>1, <2>2, <2>3 DEF TimeInv, InTime, Up, AllIdle
<1>4. CASE ~Accept(s) /\ ~Disconnect(s)
  <2>1. Others(s) /\ Moves(request[s], call[s], request'[s], call'[s])
    BY <1>4, StepMoves
  <2>2. request[s].pc # "idle" /\ (request'[s].pc = "idle" => request'[s].age = 0)
    BY <2>1 DEF Moves
  <2>3. ASSUME cfg.read \in Nat \ {0}
        PROVE  InTime(request'[s], call'[s], cfg.read)
    <3>1. InTime(request[s], call[s], cfg.read)
      BY <2>3 DEF TimeInv
    <3> QED  BY <1>0, <2>1, <2>3, <3>1, MovesInTime
  <2> QED  BY <1>1, <2>1, <2>2, <2>3 DEF TimeInv, Up, AllIdle, Others
<1> QED  BY <1>2, <1>3, <1>4

LEMMA TickKeepsTime ==
    ASSUME TypeInv, TypeInv', TimeInv, Tick
    PROVE  TimeInv'
<1> USE TimingAssumption, ProcessAssumption DEF TimingAssumption, ProcessAssumption
<1>0. /\ \A t \in Slot : request[t] \in Request /\ request'[t] \in Request
      /\ \A t \in Slot : CallOK(call[t])
  BY DEF TypeInv, DrainInv, ClientInv, ClientTypeOK
<1>1. UNCHANGED <<phase, cfg>> /\ Up
  BY DEF Tick, startVars, Up
<1>2. ASSUME NEW t \in Slot
      PROVE  /\ request'[t].pc = request[t].pc
             /\ \/ request'[t] = request[t]
                \/ /\ request[t].pc # "idle" /\ request'[t].age = request[t].age + 1
                   /\ request'[t].waited = IF request[t].pc = "db" THEN request[t].waited + 1
                                           ELSE request[t].waited
  <2>1. request'[t] = Older(request[t]) /\ (request[t].pc = "db" => request[t].waited < MaxWait)
    BY DEF Tick
  <2>2. CASE request[t].pc = "idle"
    BY <2>1, <2>2 DEF Older
  <2>3. CASE request[t].pc # "idle"
    BY <1>0, <2>1, <2>3, OlderRequest
  <2> QED  BY <2>2, <2>3
<1>3. ASSUME NEW t \in Slot, cfg.read \in Nat \ {0}
      PROVE  InTime(request'[t], call'[t], cfg.read)
  <2>0. /\ request[t].age \in Nat /\ request'[t].age \in Nat
        /\ request[t].waited \in Nat /\ request'[t].waited \in Nat
    BY <1>0 DEF Request
  <2>1. InTime(request[t], call[t], cfg.read)
    BY <1>3 DEF TimeInv
  <2>2. CASE request[t].pc = "body"
    <3>1. request[t].age < cfg.read
      BY <1>3, <2>0, <2>2 DEF Tick, ReadExpired
    <3> QED  BY <1>2, <1>3, <2>0, <2>2, <3>1 DEF InTime
  <2>3. CASE Running(t)
    <3>1. call'[t] = [call[t] EXCEPT !.left = @ - 1] /\ call[t].left > 0
      BY <2>3 DEF Tick, Elapse, MayWait
    <3>2. Remaining(call'[t]) = Remaining(call[t]) - 1 /\ Remaining(call[t]) \in Nat
      <4>1. /\ call[t].left \in Nat
            /\ \/ call[t].pc = "attempt" /\ call[t].attempt \in 1..2
               \/ call[t].pc \in {"backoff", "asked"}
        BY <2>3, <1>0 DEF Running, CallOK
      <4>2. /\ call'[t].pc = call[t].pc /\ call'[t].attempt = call[t].attempt
            /\ call'[t].left = call[t].left - 1
        BY <3>1, <1>0 DEF CallOK
      <4>3. CASE call[t].pc = "attempt" /\ call[t].attempt = 1
        BY <4>1, <4>2, <4>3 DEF Remaining
      <4>4. CASE call[t].pc = "attempt" /\ call[t].attempt = 2
        BY <4>1, <4>2, <4>4 DEF Remaining
      <4>5. CASE call[t].pc = "backoff"
        BY <4>1, <4>2, <4>5 DEF Remaining
      <4>6. CASE call[t].pc = "asked"
        BY <4>1, <4>2, <4>6 DEF Remaining
      <4> QED  BY <4>1, <4>3, <4>4, <4>5, <4>6
    <3>3. request[t].pc \in {"vpn", "status"}
      BY <2>3 DEF Running, TypeInv, ProcessInv, Linked
    <3>4. request[t].age + Remaining(call[t])
             <= cfg.read + Longest + request[t].waited
      BY <2>1, <3>3 DEF InTime
    <3>5. request'[t].age <= request[t].age + 1 /\ request'[t].waited = request[t].waited
          /\ request'[t].pc = request[t].pc
      BY <1>2, <2>0, <3>3
    <3>6. request'[t].age + Remaining(call'[t])
             <= cfg.read + Longest + request'[t].waited
      <4>1. PICK m \in Nat : m = Remaining(call[t]) /\ m - 1 = Remaining(call'[t])
        BY <3>2
      <4>2. PICK b \in Nat : b = cfg.read + Longest
        BY <1>3 DEF Longest
      <4>3. request[t].age + m <= b + request[t].waited
        BY <3>4, <4>1, <4>2
      <4>4. request'[t].age + (m - 1) <= b + request'[t].waited
        BY <2>0, <3>5, <4>3
      <4> QED  BY <4>1, <4>2, <4>4
    <3> QED  BY <3>3, <3>5, <3>6 DEF InTime
  <2>4. CASE request[t].pc = "idle"
    BY <1>2, <2>4 DEF InTime
  <2>5. CASE request[t].pc = "db"
    BY <1>2, <1>3, <2>0, <2>1, <2>5 DEF InTime
  <2> QED  BY <2>2, <2>3, <2>4, <2>5 DEF Tick
<1> QED  BY <1>1, <1>2, <1>3 DEF TimeInv, Up

LEMMA NextKeepsTime ==
    ASSUME TypeInv, TypeInv', TimeInv, [Next]_vars
    PROVE  TimeInv'
<1>0. /\ \A t \in Slot : request[t] \in Request
      /\ NoRequest.pc = "idle" /\ NoRequest.age = 0
  BY DEF TypeInv, DrainInv, NoRequest
<1>n. ASSUME NEW r, NEW q, NEW read, r.pc = "idle" PROVE InTime(r, q, read)
  BY <1>n DEF InTime
<1>1. CASE UNCHANGED <<request, call, cfg>> /\ (Up => Up')
  BY <1>1 DEF TimeInv, AllIdle
<1>2. ASSUME ~Up, UNCHANGED request PROVE TimeInv'
  BY <1>n, <1>2 DEF TimeInv, AllIdle
<1>3. CASE Gone
  <2>1. request' = [s \in Slot |-> NoRequest]
    BY <1>3 DEF Gone
  <2> QED  BY <1>0, <1>n, <2>1 DEF TimeInv, AllIdle
<1>4. CASE DrainExpires
  <2>1. /\ UNCHANGED <<call, cfg>> /\ phase' = "closing"
        /\ request' = [s \in Slot |-> IF request[s].pc = "idle" THEN NoRequest
                                      ELSE [request[s] EXCEPT !.gone = TRUE]]
    BY <1>4 DEF DrainExpires, startVars, clientVars
  <2>2. ASSUME NEW t \in Slot
        PROVE  /\ request'[t].pc = request[t].pc
               /\ request[t].pc = "idle" => request'[t].age = 0
               /\ request[t].pc # "idle" => /\ request'[t].age = request[t].age
                                            /\ request'[t].waited = request[t].waited
    BY <1>0, <2>1 DEF Request
  <2> QED  BY <2>1, <2>2 DEF TimeInv, InTime, Up
<1>5. ASSUME NEW s \in Slot, Step(s) PROVE TimeInv'
  BY <1>5, StepKeepsTime
<1>6. CASE Tick
  BY <1>6, TickKeepsTime
<1>7. ASSUME NEW given \in FlagSets, NEW env \in EnvSets, Resolve(given, env) PROVE TimeInv'
  BY <1>2, <1>7 DEF Resolve, Up, serving
<1>8. TruncateFile \/ FinishWrite \/ GenerateConfig \/ MigrateStep \/ SkipAlter
         \/ RunChecks \/ Listen
       => ~Up /\ (Gone \/ UNCHANGED request)
  BY DEF TruncateFile, FinishWrite, GenerateConfig, MigrateStep, SkipAlter, RunChecks, Listen,
         Up, serving
<1>9. RunnerStep \/ Signal \/ DrainDone \/ CloseStore
       => UNCHANGED <<request, call, cfg>> /\ (Up => Up')
  BY DEF RunnerStep, Signal, DrainDone, CloseStore, Up, startVars, serving, clientVars
<1>10. Exit \/ Die => Gone
  BY DEF Exit, Die
<1>11. UNCHANGED vars => UNCHANGED <<request, call, cfg, phase>>
  BY DEF vars, startVars, serving, clientVars
<1> QED  BY <1>1, <1>2, <1>3, <1>4, <1>5, <1>6, <1>7, <1>8, <1>9, <1>10, <1>11 DEF Next, Up

\* Its wait for the database apart, no handler takes longer than the read
\* deadline and a call to the provider with its retry, whatever the timeouts and
\* however many requests there are.
THEOREM WaitsAreBounded == Spec => []WaitsBounded
<1>1. Init => TimeInv
  BY DEF Init, TimeInv, AllIdle, NoRequest, InTime
<1>2. TypeInv /\ TimeInv => WaitsBounded
  <2> SUFFICES ASSUME TypeInv, TimeInv, NEW s \in Slot, request[s].pc # "idle",
                      cfg.read \in Nat \ {0}
               PROVE  request[s].age
                         <= cfg.read + 2 * AttemptTimeout + Backoff + request[s].waited
    BY DEF WaitsBounded
  <2>1. /\ request[s].pc \in {"body", "db", "vpn", "status", "answer"}
        /\ request[s].age \in Nat /\ request[s].waited \in Nat /\ CallOK(call[s])
    BY ProcessAssumption
    DEF ProcessAssumption, TypeInv, DrainInv, Request, ClientInv, ClientTypeOK
  <2>2. Remaining(call[s]) \in Nat /\ Longest \in Nat
    BY <2>1, TimingAssumption DEF TimingAssumption, CallOK, Remaining, Longest
  <2>3. InTime(request[s], call[s], cfg.read)
    BY DEF TimeInv
  <2>4. request[s].age <= cfg.read + Longest + request[s].waited
    BY <2>1, <2>2, <2>3 DEF InTime
  <2> QED  BY <2>4, TimingAssumption DEF TimingAssumption, Longest
<1>3. TypeInv /\ TimeInv /\ [Next]_vars => TypeInv' /\ TimeInv'
  BY NextKeepsType, NextKeepsTime
<1> QED  BY <1>1, <1>2, <1>3, InitTypeInv, PTL DEF Spec

(***************************************************************************)
(* The drain gets nearer to its end.                                       *)
(***************************************************************************)

\* A handler has a natural number of steps left, and each makes it smaller.
LEMMA MovesAdvance ==
    ASSUME TypeInv, TypeInv', NEW s \in Slot, Others(s),
           Moves(request[s], call[s], request'[s], call'[s])
    PROVE  /\ StepsLeft(s)' < StepsLeft(s)
           /\ \A t \in Slot : StepsLeft(t)' <= StepsLeft(t)
<1>1. ASSUME NEW t \in Slot PROVE StepsLeft(t) \in Nat
  <2>1. CallOK(call[t])
    BY DEF TypeInv, ClientInv, ClientTypeOK
  <2> QED  BY <2>1 DEF StepsLeft, CallOK
<1>2. ASSUME NEW t \in Slot \ {s} PROVE StepsLeft(t)' = StepsLeft(t)
  BY DEF StepsLeft, Others
<1>3. CallOK(call[s]) /\ CallOK(call'[s])
  BY DEF TypeInv, ClientInv, ClientTypeOK
<1>4. StepsLeft(s)' < StepsLeft(s)
  BY <1>3 DEF Moves, StepsLeft, CallOK
<1>5. StepsLeft(s)' <= StepsLeft(s)
  BY <1>1, <1>4 DEF Moves, StepsLeft
<1> QED  BY <1>1, <1>2, <1>4, <1>5

LEMMA DrainStepAdvances ==
    ASSUME TypeInv, TypeInv', phase = "draining", phase' = "draining", Next
    PROVE  Advances
<1> USE ProcessAssumption DEF ProcessAssumption
<1>0. /\ drain \in Nat /\ \A t \in Slot : request[t] \in Request
      /\ \A t \in Slot : CallOK(call[t])
  BY DEF TypeInv, ProcessInv, DrainInv, ClientInv, ClientTypeOK
<1>1. ASSUME NEW t \in Slot PROVE StepsLeft(t) \in Nat
  BY <1>0 DEF StepsLeft, CallOK
<1>2. ASSUME NEW s \in Slot, Step(s) PROVE Advances
  <2>1. UNCHANGED drain
    BY <1>2 DEF Step, Accept, ReadBody, ReadFails, GetVPNStatus, RunStatements, StatementsFail,
                EndStatus, CallStep, EndCall, Answer, Disconnect, Keep
  <2>2. ~Accept(s)
    BY DEF Accept, Accepting
  <2>3. CASE Disconnect(s)
    <3>1. \A t \in Slot : request'[t].pc = request[t].pc /\ call'[t] = call[t]
      BY <1>0, <2>3 DEF Disconnect, clientVars, Request
    <3>2. \A t \in Slot : StepsLeft(t)' = StepsLeft(t)
      BY <3>1 DEF StepsLeft
    <3> QED  BY <1>0, <1>1, <2>1, <2>3, <3>2 DEF Advances
  <2>4. CASE ~Disconnect(s)
    <3>1. /\ StepsLeft(s)' < StepsLeft(s)
          /\ \A t \in Slot : StepsLeft(t)' <= StepsLeft(t)
      BY <1>2, <2>2, <2>4, StepMoves, MovesAdvance
    <3> QED  BY <1>0, <2>1, <3>1 DEF Advances
  <2> QED  BY <2>3, <2>4
<1>3. CASE Tick
  <2>1. drain' = drain - 1
    BY <1>3 DEF Tick
  <2>2. ASSUME NEW t \in Slot PROVE StepsLeft(t)' = StepsLeft(t)
    <3>1. request'[t].pc = request[t].pc
      BY <1>0, <1>3, OlderRequest DEF Tick
    <3>2. call'[t].pc = call[t].pc /\ call'[t].attempt = call[t].attempt
      BY <1>0, <1>3 DEF Tick, Elapse, CallOK
    <3> QED  BY <3>1, <3>2 DEF StepsLeft
  <2> QED  BY <1>0, <1>1, <2>1, <2>2 DEF Advances
<1>4. CASE RunnerStep
  <2>1. UNCHANGED <<drain, request, call>>
    BY <1>4 DEF RunnerStep, clientVars
  <2> QED  BY <1>0, <1>1, <1>4, <2>1 DEF Advances, StepsLeft
<1>5. CASE \/ \E given \in FlagSets, env \in EnvSets : Resolve(given, env)
           \/ TruncateFile \/ FinishWrite \/ GenerateConfig
           \/ MigrateStep \/ SkipAlter \/ RunChecks \/ Listen
           \/ Signal \/ DrainDone \/ DrainExpires \/ CloseStore \/ Exit \/ Die
  BY <1>5 DEF Resolve, TruncateFile, FinishWrite, GenerateConfig, MigrateStep, SkipAlter,
              RunChecks, Listen, Signal, DrainDone, DrainExpires, CloseStore, Exit, Die, Gone
<1> QED  BY <1>2, <1>3, <1>4, <1>5 DEF Next

\* While main() waits for the requests of a drain none is taken up, none starts
\* over, and its time is not given back: a tick takes from the time that is left,
\* any other step of a handler from the steps it has left.
THEOREM DrainsAdvance == Spec => DrainAdvances
<1>1. TypeInv /\ TypeInv' /\ [Next]_vars
         => [phase = "draining" /\ phase' = "draining" => Advances]_vars
  BY DrainStepAdvances
<1> QED  BY <1>1, InitTypeInv, NextKeepsType, PTL DEF Spec, DrainAdvances

=============================================================================
