----------------------------- MODULE RateQuota -----------------------------
(***************************************************************************)
(* The abstract promise of the rate limiter: the windows of a subject do   *)
(* not overlap, and each admits at most the subject's limit of requests.   *)
(* RateLimit (clocks, statements, pruning) implements it.                  *)
(***************************************************************************)
EXTENDS Integers

CONSTANTS
  Keys,     \* a scope together with a subject: the key of one row
  Policy,   \* RATE_LIMIT_POLICIES: the limit and the window of a key
  Times     \* what the clocks may show

PolicyAssumption == Policy \in [Keys -> [limit : Nat \ {0}, window : Nat \ {0}]]

VARIABLES
  opened,   \* when the latest window of a key began
  admitted  \* requests admitted in it

vars == <<opened, admitted>>

(* No window has been opened yet: the first one may begin at time zero.    *)
Init ==
  /\ opened = [k \in Keys |-> -Policy[k].window]
  /\ admitted = [k \in Keys |-> 0]

(* A window of k begins at time t.  The request that opened it is admitted,*)
(* unless its answer is lost.                                              *)
Open(k, t) ==
  /\ t >= opened[k] + Policy[k].window
  /\ opened' = [opened EXCEPT ![k] = t]
  /\ \E first \in {0, 1} : admitted' = [admitted EXCEPT ![k] = first]

Admit(k) ==
  /\ admitted[k] < Policy[k].limit
  /\ admitted' = [admitted EXCEPT ![k] = @ + 1]
  /\ UNCHANGED opened

Next ==
  \E k \in Keys :
    \/ \E t \in Times : Open(k, t)
    \/ Admit(k)

Spec == Init /\ [][Next]_vars
=============================================================================
