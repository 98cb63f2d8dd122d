------------------------------ MODULE Delivery ------------------------------
(***************************************************************************)
(* What every layer between a tap and the TV promises of one request,      *)
(* whatever fails in between (ARCHITECTURE.md: "each command is attempted  *)
(* once ... and is never resent"): it is delivered at most once, and its   *)
(* caller is told once how it ended. "not_sent" is a promise about the     *)
(* future too: the request will not be delivered later. "uncertain" says   *)
(* nothing, and a delivery may still follow it.                            *)
(***************************************************************************)
CONSTANT Requests

VARIABLES
    delivered,   \* the requests that reached the next layer
    outcome      \* per request: what its caller was told

Outcomes == {"none", "answered", "not_sent", "uncertain"}

Init ==
    /\ delivered = {}
    /\ outcome = [r \in Requests |-> "none"]

Deliver(r) ==
    /\ r \notin delivered
    /\ outcome[r] # "not_sent"
    /\ delivered' = delivered \cup {r}
    /\ UNCHANGED outcome

Tell(r, o) ==
    /\ outcome[r] = "none"
    /\ o = "answered" => r \in delivered
    /\ o = "not_sent" => r \notin delivered
    /\ outcome' = [outcome EXCEPT ![r] = o]
    /\ UNCHANGED delivered

Next ==
    \E r \in Requests :
        \/ Deliver(r)
        \/ \E o \in Outcomes \ {"none"} : Tell(r, o)

Spec == Init /\ [][Next]_<<delivered, outcome>>
=============================================================================
