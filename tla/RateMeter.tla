------------------------------ MODULE RateMeter ------------------------------
(***************************************************************************)
(* What the rate limiter promises of each address, without buckets, clocks *)
(* or clean-up: a debt.  An admitted request adds at least Charge to it,   *)
(* every tick takes Relief away, and it never exceeds Limit.  So from any  *)
(* moment on, the requests admitted within t ticks number at most          *)
(* (Limit - debt + t * Relief) / Charge, whatever their mix of kinds.      *)
(***************************************************************************)
EXTENDS Integers

CONSTANTS Ip, Charge, Relief, Limit

VARIABLES now, debt

vars == <<now, debt>>

Init == now = 0 /\ debt = [ip \in Ip |-> 0]

\* A request from ip is admitted only where the debt leaves room for its charge.
Admit(ip) ==
    \E d \in debt[ip] + Charge .. Limit :
        /\ debt' = [debt EXCEPT ![ip] = d]
        /\ UNCHANGED now

\* A refused request may cost something, but never pays off debt.
Refuse(ip) ==
    \E d \in debt[ip] .. Limit :
        /\ debt' = [debt EXCEPT ![ip] = d]
        /\ UNCHANGED now

Tick ==
    /\ now' = now + 1
    /\ debt' = [ip \in Ip |-> IF debt[ip] > Relief THEN debt[ip] - Relief ELSE 0]

\* The meter is in memory only.
Reset == debt' = [ip \in Ip |-> 0] /\ UNCHANGED now

Next == Tick \/ Reset \/ \E ip \in Ip : Admit(ip) \/ Refuse(ip)

Spec == Init /\ [][Next]_vars

=============================================================================
