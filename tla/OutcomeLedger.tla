---------------------------- MODULE OutcomeLedger ----------------------------
(***************************************************************************)
(* What the request counters of krakend-otel's http client promise to      *)
(* whoever collects them, between any two additions: each addition is of   *)
(* one request to one counter, nothing is ever taken back, and no request  *)
(* has more than one end.  A timeout is told twice, first as a timeout and *)
(* then as a failure, so timedOut may be ahead of failed.                  *)
(***************************************************************************)
EXTENDS Naturals

VARIABLE ledger     \* the counters, by name

Init == ledger = [started |-> 0, failed |-> 0, canceled |-> 0, timedOut |-> 0]

\* Every request that has failed, has timed out or was canceled has been started.
Balanced ==
    /\ ledger.failed + ledger.canceled <= ledger.started
    /\ ledger.timedOut + ledger.canceled <= ledger.started

Count(counter) == /\ ledger' = [ledger EXCEPT ![counter] = @ + 1]
                  /\ Balanced'

Next == \E counter \in {"started", "failed", "canceled", "timedOut"} : Count(counter)

Spec == Init /\ [][Next]_ledger
=============================================================================
