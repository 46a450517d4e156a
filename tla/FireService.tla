---------------------------- MODULE FireService ----------------------------
(***************************************************************************)
(* What POST /fire and POST /fire-named promise a caller (emitter.py): the *)
(* event is delivered at most once, "fired" is said only of an event the   *)
(* target got, and a call that was refused never reaches the target.  Of   *)
(* a call that is neither, the caller may only learn that it does not know.*)
(***************************************************************************)
EXTENDS Naturals

CONSTANT Callers

VARIABLES deliveries,  \* how often the target got the caller's event
          told         \* what the caller knows

Init == /\ deliveries = [r \in Callers |-> 0]
        /\ told = [r \in Callers |-> "nothing"]

Deliver(r) == /\ deliveries[r] = 0
              /\ told[r] # "refused"
              /\ deliveries' = [deliveries EXCEPT ![r] = 1]
              /\ UNCHANGED told

Fired(r) == deliveries[r] = 1 /\ told' = [told EXCEPT ![r] = "fired"]

Refused(r) == deliveries[r] = 0 /\ told' = [told EXCEPT ![r] = "refused"]

\* A timeout, a transport error or a crash of the service: of any callers at once.
Unknown == \E S \in SUBSET {r \in Callers : told[r] = "nothing"} :
             told' = [r \in Callers |-> IF r \in S THEN "unknown" ELSE told[r]]

Tell == /\ UNCHANGED deliveries
        /\ \/ \E r \in Callers : told[r] = "nothing" /\ (Fired(r) \/ Refused(r))
           \/ Unknown

Next == Tell \/ \E r \in Callers : Deliver(r)

Spec == Init /\ [][Next]_<<deliveries, told>>
=============================================================================
