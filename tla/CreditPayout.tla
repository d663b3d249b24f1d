----------------------------- MODULE CreditPayout -----------------------------
(***************************************************************************)
(* What the money handlers promise, without their steps: a request takes   *)
(* credit at most once, a payout follows what was taken and never exceeds  *)
(* it, and success is reported only when both have happened (a purchase    *)
(* has no payout).  A request may fail at any point, even after the credit *)
(* is gone: the code has no compensation.                                  *)
(***************************************************************************)
EXTENDS Naturals

CONSTANT Requests

VARIABLES
    purchase,  \* the requests that buy something and are paid nothing
    taken,     \* credit taken for each request
    paid,      \* payout recorded for each request
    status     \* "open", "confirmed" or "failed"

vars == <<purchase, taken, paid, status>>

Init ==
    /\ purchase \subseteq Requests
    /\ taken = [r \in Requests |-> 0]
    /\ paid = [r \in Requests |-> 0]
    /\ status = [r \in Requests |-> "open"]

\* The answer to a call may be lost: the request then ends with the step.
EndsOpenOrFailed(r) ==
    \E s \in {"open", "failed"} : status' = [status EXCEPT ![r] = s]

Take(r) ==
    /\ status[r] = "open" /\ taken[r] = 0
    /\ taken'[r] \in Nat \ {0}
    /\ taken' = [taken EXCEPT ![r] = taken'[r]]
    /\ EndsOpenOrFailed(r)
    /\ UNCHANGED <<purchase, paid>>

Pay(r) ==
    /\ status[r] = "open" /\ r \notin purchase /\ paid[r] = 0
    /\ paid'[r] \in 1..taken[r]
    /\ paid' = [paid EXCEPT ![r] = paid'[r]]
    /\ EndsOpenOrFailed(r)
    /\ UNCHANGED <<purchase, taken>>

Confirm(r) ==
    /\ status[r] = "open" /\ taken[r] > 0
    /\ r \in purchase \/ paid[r] > 0
    /\ status' = [status EXCEPT ![r] = "confirmed"]
    /\ UNCHANGED <<purchase, taken, paid>>

\* One request fails, or all open ones do in a crash.
Fail ==
    /\ \A r \in Requests : \/ status'[r] = status[r]
                           \/ status[r] = "open" /\ status'[r] = "failed"
    /\ status' = [r \in Requests |-> status'[r]]
    /\ UNCHANGED <<purchase, taken, paid>>

Next == Fail \/ \E r \in Requests : Take(r) \/ Pay(r) \/ Confirm(r)

Spec == Init /\ [][Next]_vars
===============================================================================
