---------------------------- MODULE ClassifyCall ----------------------------
(* The call of classifyWithPartialFallback as its caller sees it: one step    *)
(* from the request to an error or a result of the contract.                  *)
EXTENDS ClassifyContract

VARIABLES asked, outcome

Pending     == [kind |-> "pending"]
Failure     == [kind |-> "error"]
Returned(a) == [kind |-> "result", label |-> a.label, bad |-> a.bad]

Init ==
  /\ asked \in (SUBSET Messages) \ {{}}
  /\ outcome = Pending

Next ==
  /\ outcome = Pending
  /\ outcome' \in {Failure} \cup {Returned(a) : a \in Results(asked, TRUE, TRUE)}
  /\ UNCHANGED asked

Spec == Init /\ [][Next]_<<asked, outcome>>
=============================================================================
