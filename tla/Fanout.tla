------------------------------- MODULE Fanout -------------------------------
(***************************************************************************)
(* Two drivers that stack several workflows on one match:                  *)
(*   "bucket"  conductor-smoke/bucket_smoke.py: one event, which is to     *)
(*             complete all of them;                                       *)
(*   "dual"    conductor-smoke/dual_emitter_smoke.py: one event from each  *)
(*             emitter, fired at the same instant.                         *)
(* Both register a definition and a webhook, start the workflows, fire,    *)
(* poll and judge.  The conductor is Conductor, an emitter what            *)
(* FireService promises of it.                                             *)
(***************************************************************************)
EXTENDS Conductor

CONSTANTS First,    \* the source of the one event of "bucket"
          Secret,   \* generated, base64 text
          Name,     \* the definition's name and the webhook's id,
          Hook      \* made of the driver's run id

ASSUME SharedIds == Names = {Name} /\ Hooks = {Hook} /\ First \in Sources
ASSUME NoneApart == None \notin Terminal \cup {"TIMEOUT"} /\ None # 0

VARIABLES driver,      \* which of the two
          stage,       \* where it is
          exit,        \* its exit code, None before
          started,     \* workflows it got an id of
          refused,     \* workflows whose start raised
          pc,          \* where the fire of each source is
          code,        \* the status the conductor answered each event with
          pending,     \* workflows that are not judged
          polled,      \* last status polled
          result,      \* what each was judged by, None before
          deliveries,  \* FireService
          told,        \* FireService
          gaveUp       \* history: an exchange or a deadline ended the driver early

driverVars  == <<driver, stage, exit>>
startVars   == <<started, refused>>
pollVars    == <<pending, polled, result>>
serviceVars == <<deliveries, told>>
vars == <<conductorVars, driverVars, startVars, pc, code, pollVars, serviceVars, gaveUp>>

Service == INSTANCE FireService WITH Callers <- Sources

Fires == IF driver = "bucket" THEN {First} ELSE Sources

\* "via" is a field that only the events of "dual" have.
Body(e) == IF driver = "bucket" THEN {"event"} ELSE {"event", <<"via", e>>}

Config ==
  [verifier |-> "HMAC_BASED", headerKey |-> "X-Sig", secretValue |-> Secret,
   receiver |-> Name, headers |-> [h \in {} |-> ""], urlVerified |-> FALSE]

Signed(e) ==
  Sign("HMAC_BASED", SigningContext(Secret, Body(e), "X-Sig", "", "None")).headers

-----------------------------------------------------------------------------
Init ==
  /\ ConductorInit
  /\ Service!Init
  /\ driver \in {"bucket", "dual"} /\ stage = "register_wf" /\ exit = None
  /\ started = {} /\ refused = {}
  /\ pc = [e \in Sources |-> "parked"]
  /\ code = [e \in Sources |-> None]
  /\ pending = Flows
  /\ polled = [w \in Flows |-> "UNKNOWN"]
  /\ result = [w \in Flows |-> None]
  /\ gaveUp = FALSE

Goto(s) == stage' = s /\ UNCHANGED <<driver, exit>>

End(c) == stage' = "end" /\ exit' = c /\ UNCHANGED driver

\* An exception nobody catches, or a delivery the conductor refused.
GiveUp == End(1) /\ gaveUp' = TRUE

(* Registration and starts.                                                *)

RegisterWorkflow ==
  /\ stage = "register_wf"
  /\ \/ PutDef(Name, {"event"}) /\ Goto("register_webhook") /\ UNCHANGED gaveUp
     \/ (PutDef(Name, {"event"}) \/ UNCHANGED defs) /\ GiveUp
  /\ UNCHANGED <<hooks, flows, queue, startVars, pc, code, pollVars, serviceVars>>

RegisterWebhook ==
  /\ stage = "register_webhook"
  /\ \/ CreateHook(Hook, Config) /\ Goto("start") /\ UNCHANGED gaveUp
     \/ (CreateHook(Hook, Config) \/ UNCHANGED hooks) /\ GiveUp
  /\ UNCHANGED <<defs, flows, queue, startVars, pc, code, pollVars, serviceVars>>

\* "bucket" starts on a pool, whose map may cancel the rest when one raises (as if those
\* had raised too); "dual" starts one by one.
Start(w) ==
  /\ stage = "start"
  /\ w \notin started \cup refused
  /\ \/ /\ StartFlow(w, Name)
        /\ started' = started \cup {w}
        /\ UNCHANGED <<driverVars, refused, gaveUp>>
     \/ /\ StartFlow(w, Name) \/ UNCHANGED flows
        /\ refused' = refused \cup {w}
        /\ IF driver = "bucket" THEN UNCHANGED <<driverVars, gaveUp>> ELSE GiveUp
        /\ UNCHANGED started
  /\ UNCHANGED <<defs, hooks, queue, pc, code, pollVars, serviceVars>>

\* What was raised is raised again when all are through; then comes the settle.
AllStarted ==
  /\ stage = "start"
  /\ started \cup refused = Flows
  /\ IF refused = {} THEN Goto("fire") /\ UNCHANGED gaveUp ELSE GiveUp
  /\ UNCHANGED <<conductorVars, startVars, pc, code, pollVars, serviceVars>>

-----------------------------------------------------------------------------
(* Firing.                                                                 *)

\* The threads of "dual" leave the barrier in any order.
Fire(e) ==
  /\ stage = "fire"
  /\ e \in Fires
  /\ pc[e] = "parked"
  /\ pc' = [pc EXCEPT ![e] = "firing"]
  /\ UNCHANGED <<conductorVars, driverVars, startVars, code, pollVars, serviceVars, gaveUp>>

FireAnswered(e) ==
  /\ stage = "fire"
  /\ pc[e] = "firing"
  /\ \/ Service!Fired(e) /\ pc' = [pc EXCEPT ![e] = "fired"]
     \/ /\ Service!Refused(e) \/ told' = [told EXCEPT ![e] = "unknown"]
        /\ pc' = [pc EXCEPT ![e] = "raised"]
  /\ UNCHANGED <<conductorVars, driverVars, startVars, code, pollVars, deliveries, gaveUp>>

\* Mutation: one event that got through is enough.
DeliveredSome == \E e \in Fires : pc[e] = "fired" /\ code[e] = "2xx"

Delivered == \A e \in Fires : pc[e] = "fired" /\ code[e] = "2xx"

AllFired ==
  /\ stage = "fire"
  /\ \A e \in Fires : pc[e] \in {"fired", "raised"}
  /\ IF Delivered THEN Goto("poll") /\ UNCHANGED gaveUp ELSE GiveUp
  /\ UNCHANGED <<conductorVars, startVars, pc, code, pollVars, serviceVars>>

\* An event the conductor queues may still be answered with an error.
Deliver(e) ==
  /\ pc[e] # "parked"
  /\ Service!Deliver(e)
  /\ \E reply \in {"2xx", "status"} :
       /\ code' = [code EXCEPT ![e] = reply]
       /\ \/ Verified(hooks[Hook], Signed(e), Body(e)) /\ Enqueue(Hook, Body(e), e)
          \/ reply = "status" /\ UNCHANGED queue
  /\ UNCHANGED <<defs, hooks, flows, driverVars, startVars, pc, pollVars, gaveUp>>

-----------------------------------------------------------------------------
(* Polling.                                                                *)

\* "bucket" asks for all that are pending in turn, "dual" for one until it is judged.
Asked(w) ==
  /\ w \in pending
  /\ driver = "dual" => w = CHOOSE v \in pending : TRUE

\* Mutation: a workflow that was judged stays on the list.
JudgeKeeps(w, r) == result' = [result EXCEPT ![w] = r] /\ UNCHANGED pending

Judge(w, r) ==
  /\ pending' = pending \ {w}
  /\ result' = [result EXCEPT ![w] = r]

\* Mutation: a poll that fails is the end of the workflow.
PollFailsForGood(w) ==
  IF driver = "bucket" THEN Judge(w, "TIMEOUT") /\ UNCHANGED <<driverVars, polled, gaveUp>>
                       ELSE GiveUp /\ UNCHANGED pollVars

\* "bucket" goes on to the next, "dual" does not catch it.
PollFails(w) ==
  IF driver = "bucket" THEN UNCHANGED <<driverVars, pollVars, gaveUp>>
                       ELSE GiveUp /\ UNCHANGED pollVars

Poll(w) ==
  /\ stage = "poll"
  /\ Asked(w)
  /\ \/ \E s \in {flows[w].status, "UNKNOWN"} :
          /\ polled' = [polled EXCEPT ![w] = s]
          /\ IF s \in Terminal THEN Judge(w, s) ELSE UNCHANGED <<pending, result>>
          /\ UNCHANGED <<driverVars, gaveUp>>
     \/ PollFails(w)
  /\ UNCHANGED <<conductorVars, startVars, pc, code, serviceVars>>

\* Mutation: "bucket" waits as long as one is pending.
DeadlineNever(w) ==
  /\ stage = "poll"
  /\ driver = "dual"
  /\ Asked(w)
  /\ gaveUp' = TRUE
  /\ Judge(w, "TIMEOUT") /\ UNCHANGED driverVars
  /\ UNCHANGED <<conductorVars, startVars, pc, code, polled, serviceVars>>

\* One deadline for all of "bucket", one per workflow of "dual".
Deadline(w) ==
  /\ stage = "poll"
  /\ Asked(w)
  /\ gaveUp' = TRUE
  /\ \/ driver = "bucket" /\ End(1) /\ UNCHANGED <<pending, result>>
     \/ driver = "dual" /\ Judge(w, "TIMEOUT") /\ UNCHANGED driverVars
  /\ UNCHANGED <<conductorVars, startVars, pc, code, polled, serviceVars>>

Ok == \A w \in Flows : result[w] = "COMPLETED"

Verdict ==
  /\ stage = "poll"
  /\ pending = {}
  /\ End(IF Ok THEN 0 ELSE 1)
  /\ UNCHANGED <<conductorVars, startVars, pc, code, pollVars, serviceVars, gaveUp>>

-----------------------------------------------------------------------------
Step == \/ RegisterWorkflow \/ RegisterWebhook \/ AllStarted \/ AllFired \/ Verdict
        \/ \E w \in Flows : Start(w)
        \/ \E e \in Sources : Fire(e) \/ FireAnswered(e)

Next ==
  \/ Step
  \/ \E w \in Flows : Poll(w) \/ Deadline(w)
  \/ \E e \in Sources : Deliver(e)
  \/ ConductorNext /\ UNCHANGED <<driverVars, startVars, pc, code, pollVars, serviceVars, gaveUp>>

Spec == Init /\ [][Next]_vars

\* The driver goes on, every exchange has a timeout and deadlines pass.
FairSpec == Spec /\ WF_vars(Step) /\ \A w \in Flows : WF_vars(Deadline(w))

-----------------------------------------------------------------------------
(* Properties.                                                             *)

Statuses == Terminal \cup {"RUNNING", "UNKNOWN"}

TypeOK ==
  /\ driver \in {"bucket", "dual"}
  /\ stage \in {"register_wf", "register_webhook", "start", "fire", "poll", "end"}
  /\ exit \in {None, 0, 1}
  /\ started \subseteq Flows /\ refused \subseteq Flows \ started
  /\ pc \in [Sources -> {"parked", "firing", "fired", "raised"}]
  /\ code \in [Sources -> {None, "2xx", "status"}]
  /\ pending \subseteq Flows
  /\ polled \in [Flows -> Statuses]
  /\ result \in [Flows -> Terminal \cup {None, "TIMEOUT"}]
  /\ \A w \in Flows : w \in pending <=> result[w] = None
  /\ gaveUp \in BOOLEAN

\* PASS is the truth: every workflow the driver started is COMPLETED, each by an event
\* the driver fired, and the conductor got every event that was fired.
PassIsTrue ==
  exit = 0 => /\ \A w \in Flows : flows[w].status = "COMPLETED" /\ flows[w].by \in Fires
              /\ \A e \in Fires : deliveries[e] = 1 /\ code[e] = "2xx"

\* FAIL is no false alarm: a driver that did not give up, nor ran out of time, has seen
\* a workflow end otherwise.  "bucket" keeps to that through polls that fail.
NoFalseAlarm ==
  stage = "end" /\ exit = 1 /\ ~ gaveUp =>
     \E w \in Flows : flows[w].status \in Terminal \ {"COMPLETED"}

\* The driver ends, whatever the conductor does with the event.
FanoutEnds == <>(stage = "end")

\* "Each fire targets a fresh workflow instance so we can observe both independently."
\* (dual_emitter_smoke.py, lines 13-14): a PASS has seen an effect of either event.
ObservesBoth ==
  exit = 0 => \A e \in Fires : \E w \in Flows : flows[w].by = e
=============================================================================
