------------------------------ MODULE EndToEnd ------------------------------
(***************************************************************************)
(* What the wait-for-webhook endpoint promises its callers (scenarios.py,  *)
(* lines 1-13): of each call that is asked, one verdict, given once; "yes" *)
(* only when the call's own event completed the call's own workflow.  A    *)
(* call may also break: its caller gets an HTTP error and no verdict.      *)
(***************************************************************************)
CONSTANT Calls

VARIABLES asked,      \* calls that have arrived
          completed,  \* calls whose event completed their workflow
          verdict     \* what each caller was told

Init == /\ asked = {}
        /\ completed = {}
        /\ verdict = [c \in Calls |-> "none"]

Ask(c) == /\ c \notin asked
          /\ asked' = asked \cup {c}
          /\ UNCHANGED <<completed, verdict>>

\* A call the endpoint does not let in is asked and broken at once.
TurnAway(c) == /\ c \notin asked
               /\ asked' = asked \cup {c}
               /\ verdict' = [verdict EXCEPT ![c] = "broken"]
               /\ UNCHANGED completed

Complete == /\ completed' \in SUBSET asked
            /\ completed \subseteq completed'
            /\ UNCHANGED <<asked, verdict>>

Tell(c, v) == /\ c \in asked
              /\ verdict[c] = "none"
              /\ v = "yes" => c \in completed
              /\ verdict' = [verdict EXCEPT ![c] = v]
              /\ UNCHANGED <<asked, completed>>

Next == \/ Complete
        \/ \E c \in Calls : \/ Ask(c) \/ TurnAway(c)
                            \/ \E v \in {"yes", "no", "broken"} : Tell(c, v)

Spec == Init /\ [][Next]_<<asked, completed, verdict>>
=============================================================================
