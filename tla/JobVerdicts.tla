---------------------------- MODULE JobVerdicts ----------------------------
(***************************************************************************)
(* What the job table promises the user who submitted a recording: a job  *)
(* is open until it is either delivered (a result is stored) or refused   *)
(* (it will never have one), and neither verdict is ever taken back.      *)
(***************************************************************************)
CONSTANT Job

VARIABLE verdict

Init == verdict = [j \in Job |-> "open"]

Deliver(j) ==
  /\ verdict[j] = "open"
  /\ verdict' = [verdict EXCEPT ![j] = "delivered"]

\* One watchdog pass may refuse several jobs at once.
Refuse(S) ==
  /\ \A j \in S : verdict[j] = "open"
  /\ verdict' = [j \in Job |-> IF j \in S THEN "refused" ELSE verdict[j]]

Next == (\E j \in Job : Deliver(j)) \/ (\E S \in SUBSET Job : Refuse(S))

Spec == Init /\ [][Next]_verdict
=============================================================================
