------------------------------ MODULE Scenario ------------------------------
(***************************************************************************)
(* POST /scenarios/wait-for-webhook (scenarios.py) as any number of        *)
(* concurrent calls of one handler against one conductor.                  *)
(*                                                                         *)
(* A call runs register_wf -> register_webhook -> start_workflow -> fire   *)
(* -> poll -> finish; each HTTP exchange is one action, whose reply is     *)
(* chosen among what the network and the server may do:                    *)
(*   "2xx"       the server applied the request and said so;               *)
(*   "status"    an error status, the request applied or not;              *)
(*   "lost"      a transport error or a timeout, applied or not;           *)
(*   "malformed" a success whose JSON the client cannot use.               *)
(* The conductor steps between any two of them.                            *)
(*                                                                         *)
(* uuid4 makes the run id, the conductor makes the webhook and workflow    *)
(* ids: all three are fresh, so one value per call, the call itself,       *)
(* stands for each.                                                        *)
(***************************************************************************)
EXTENDS Auth, Conductor

CONSTANTS Calls,      \* the concurrent calls of the endpoint
          Requests    \* the request bodies, with their Authorization header

VARIABLES pc,           \* where each call is
          req,          \* its request
          webhook_id,   \* what it learnt from the conductor
          workflow_id,
          delivery,     \* delivery_status_code: None, "2xx" or "status"
          final,        \* final_status, the last status polled
          phases,       \* the phases it has timed
          answer,       \* the HTTP answer, None until there is one
          faulted       \* history: some exchange of the call went wrong

callVars == <<pc, req, webhook_id, workflow_id, delivery, final, phases, answer, faulted>>
vars     == <<conductorVars, callVars>>

ASSUME FreshIds == Names = Calls /\ Hooks = Calls /\ Flows = Calls /\ Sources = Calls

\* Mutation: a run id that is not fresh per call.
RunIdShared(c) == CHOOSE d \in Calls : TRUE

RunId(c) == c

-----------------------------------------------------------------------------
(* What a call computes from its request.                                  *)

\* Conditions are named; these are the ones a body is not derived from: a
\* nested path, and an expected value that is a string starting with "$".
NotDerivable == {"nested", "dollar"}

PayloadFromMatches(matches) == matches \ NotDerivable

Payload(c) == IF req[c].payload # None THEN req[c].payload
              ELSE PayloadFromMatches(req[c].matches)

\* A generated secret is base64 text for HMAC_BASED and hex otherwise, which
\* b64decode accepts too; it is never a PEM key.
DefaultSecret(c) == [id |-> RunId(c), base64 |-> TRUE, pem |-> FALSE]

Secret(c) == IF req[c].secret # None THEN req[c].secret ELSE DefaultSecret(c)

\* Mutation: no vendor pins its header.
VendorHeaderKeyConfigurable(verifier) == "X-Sig"

VendorHeaderKey(verifier) ==
  IF verifier = "TWITTER" THEN "x-twitter-webhooks-signature" ELSE "X-Sig"

Config(c) ==
  [verifier    |-> req[c].verifier,
   headerKey   |-> VendorHeaderKey(req[c].verifier),
   secretValue |-> Secret(c),
   receiver    |-> RunId(c),
   headers     |-> req[c].config_headers,
   urlVerified |-> req[c].url_verified]

Signing(c) ==
  LET key == VendorHeaderKey(req[c].verifier)
      has == req[c].config_headers
  IN Sign(req[c].verifier,
          SigningContext(Secret(c), Payload(c), key,
                         IF key \in DOMAIN has THEN has[key] ELSE "", "None"))

-----------------------------------------------------------------------------
(* How a call ends.                                                        *)

Response(c, ok, status, timed, delivered) ==
  [http |-> 200, ok |-> ok, final_status |-> status, phases |-> timed,
   delivery |-> delivered, webhook_id |-> webhook_id[c],
   workflow_id |-> workflow_id[c]]

Bare(http) ==
  [http |-> http, ok |-> FALSE, final_status |-> "NONE", phases |-> {},
   delivery |-> None, webhook_id |-> None, workflow_id |-> None]

Return(c, a) ==
  /\ answer' = [answer EXCEPT ![c] = a]
  /\ pc' = [pc EXCEPT ![c] = "answered"]

Goto(c, label) == pc' = [pc EXCEPT ![c] = label] /\ UNCHANGED answer

\* raise_for_status raises the HTTPStatusError the handler turns into an
\* answer; every other exception leaves the handler as a bare 500.
Raise(c, reply) ==
  /\ reply # "2xx"
  /\ Return(c, IF reply = "status"
               THEN Response(c, FALSE, "ERROR", phases[c], delivery[c])
               ELSE Bare(500))
  /\ faulted' = [faulted EXCEPT ![c] = TRUE]
  /\ UNCHANGED phases

\* Mutation: the phase is timed before raise_for_status.
ProceedTimesFirst(c, reply, next) ==
  /\ phases' = [phases EXCEPT ![c] = @ \cup {pc[c]}]
  /\ \/ reply = "2xx" /\ Goto(c, next) /\ UNCHANGED faulted
     \/ /\ reply # "2xx"
        /\ Return(c, IF reply = "status"
                     THEN Response(c, FALSE, "ERROR", phases'[c], delivery[c])
                     ELSE Bare(500))
        /\ faulted' = [faulted EXCEPT ![c] = TRUE]

\* The rest of an exchange whose reply is looked at with raise_for_status.
Proceed(c, reply, next) ==
  \/ /\ reply = "2xx"
     /\ phases' = [phases EXCEPT ![c] = @ \cup {pc[c]}]
     /\ Goto(c, next)
     /\ UNCHANGED faulted
  \/ Raise(c, reply)

\* Only a 2xx or a malformed success says that the server applied a request.
MayBeUnapplied(reply) == reply \in {"status", "lost"}

-----------------------------------------------------------------------------
Init ==
  /\ ConductorInit
  /\ pc          = [c \in Calls |-> "idle"]
  /\ req         = [c \in Calls |-> None]
  /\ webhook_id  = [c \in Calls |-> None]
  /\ workflow_id = [c \in Calls |-> None]
  /\ delivery    = [c \in Calls |-> None]
  /\ final       = [c \in Calls |-> "UNKNOWN"]
  /\ phases      = [c \in Calls |-> {}]
  /\ answer      = [c \in Calls |-> None]
  /\ faulted     = [c \in Calls |-> FALSE]

\* A request arrives; the gate and the verifier check answer it at once or let
\* it through.
WaitForWebhook(c, r) ==
  /\ pc[c] = "idle"
  /\ req' = [req EXCEPT ![c] = r]
  /\ \/ /\ ~ RequireToken(r.authorization)
        /\ Return(c, Bare(401))
     \/ /\ RequireToken(r.authorization)
        /\ r.verifier \notin Verifiers
        /\ Return(c, Bare(400))
     \/ /\ RequireToken(r.authorization)
        /\ r.verifier \in Verifiers
        /\ Goto(c, "register_wf")
  /\ UNCHANGED <<conductorVars, webhook_id, workflow_id, delivery, final, phases, faulted>>

RegisterWorkflow(c) ==
  /\ pc[c] = "register_wf"
  /\ \E reply \in {"2xx", "status", "lost"} :
        /\ \/ PutDef(RunId(c), req[c].matches)
           \/ MayBeUnapplied(reply) /\ UNCHANGED defs
        /\ Proceed(c, reply, "register_webhook")
  /\ UNCHANGED <<hooks, flows, queue, req, webhook_id, workflow_id, delivery, final>>

RegisterWebhook(c) ==
  /\ pc[c] = "register_webhook"
  /\ \E reply \in {"2xx", "status", "lost", "malformed"} :
        /\ \/ CreateHook(RunId(c), Config(c))
           \/ MayBeUnapplied(reply) /\ UNCHANGED hooks
        /\ webhook_id' = IF reply = "2xx" THEN [webhook_id EXCEPT ![c] = RunId(c)]
                                          ELSE webhook_id
        /\ Proceed(c, reply, "start_workflow")
  /\ UNCHANGED <<defs, flows, queue, req, workflow_id, delivery, final>>

\* Mutation: the start is not followed by raise_for_status.
StartWorkflowUnchecked(c) ==
  /\ pc[c] = "start_workflow"
  /\ \E reply \in {"2xx", "status", "lost"} :
        /\ \/ StartFlow(RunId(c), RunId(c))
           \/ MayBeUnapplied(reply) /\ UNCHANGED flows
        /\ workflow_id' = [workflow_id EXCEPT ![c] = RunId(c)]
        /\ Proceed(c, IF reply = "status" THEN "2xx" ELSE reply, "fire")
  /\ UNCHANGED <<defs, hooks, queue, req, webhook_id, delivery, final>>

StartWorkflow(c) ==
  /\ pc[c] = "start_workflow"
  /\ \E reply \in {"2xx", "status", "lost"} :
        /\ \/ StartFlow(RunId(c), RunId(c))
           \/ MayBeUnapplied(reply) /\ UNCHANGED flows
        /\ workflow_id' = IF reply = "2xx" THEN [workflow_id EXCEPT ![c] = RunId(c)]
                                           ELSE workflow_id
        /\ Proceed(c, reply, "fire")
  /\ UNCHANGED <<defs, hooks, queue, req, webhook_id, delivery, final>>

\* What the event is sent with: the signer's headers replace the call's own.
Sent(c) ==
  LET signed == Signing(c).headers
  IN [h \in {"Content-Type"} \cup DOMAIN signed |->
        IF h \in DOMAIN signed THEN signed[h] ELSE Literal("application/json")]

\* After the settle the call signs; an exception of the signer is nobody's to
\* catch.
SigningRaises(c) ==
  /\ pc[c] = "fire"
  /\ Signing(c).result # "signed"
  /\ Return(c, Bare(500))
  /\ UNCHANGED <<conductorVars, req, webhook_id, workflow_id, delivery, final, phases, faulted>>

\* Whether the conductor acknowledges the event, and whether it then queues it.
\* What its SENDGRID verifier does with the signature is not known.
Acknowledged(c) ==
  \/ Verified(hooks[webhook_id[c]], Sent(c), Payload(c))
  \/ req[c].verifier = "SENDGRID"

Opening(c) == Handshake(hooks[webhook_id[c]], Payload(c))

\* The status of the delivery is looked at by hand: the phase counts as timed
\* whatever it is, and from 300 on the call ends without polling.
Fire(c) ==
  /\ pc[c] = "fire"
  /\ Signing(c).result = "signed"
  /\ \E reply \in {"2xx", "status", "lost"} :
        /\ \/ Acknowledged(c) /\ ~ Opening(c) /\ Enqueue(webhook_id[c], Payload(c), c)
           \/ Acknowledged(c) /\ Opening(c) /\ UNCHANGED queue
           \/ MayBeUnapplied(reply) /\ UNCHANGED queue
        /\ \/ /\ reply = "2xx"
              /\ Goto(c, "poll")
           \/ /\ reply = "status"
              /\ Return(c, Response(c, FALSE, "DELIVERY_FAILED",
                                    phases[c] \cup {"fire"}, "status"))
           \/ /\ reply = "lost"
              /\ Return(c, Bare(500))
        /\ IF reply = "lost"
           THEN UNCHANGED <<phases, delivery>>
           ELSE /\ phases' = [phases EXCEPT ![c] = @ \cup {"fire"}]
                /\ delivery' = [delivery EXCEPT ![c] = reply]
        /\ faulted' = [faulted EXCEPT ![c] = @ \/ reply = "lost"
                                               \/ (reply = "status" /\ Acknowledged(c))]
  /\ UNCHANGED <<defs, hooks, flows, req, webhook_id, workflow_id, final>>

\* Mutation: the last phase is timed under another name.
ConcludeMisnamed(c, status) ==
  /\ phases' = [phases EXCEPT ![c] = @ \cup {"poll"}]
  /\ Return(c, Response(c, status = "COMPLETED", status, phases[c] \cup {"poll"}, delivery[c]))

\* Mutation: any end of the workflow is good news.
ConcludeAnyEnd(c, status) ==
  /\ phases' = [phases EXCEPT ![c] = @ \cup {"poll_to_complete"}]
  /\ Return(c, Response(c, status \in Terminal, status,
                        phases[c] \cup {"poll_to_complete"}, delivery[c]))

\* The answer of a call that reached the end of its poll loop.
Conclude(c, status) ==
  /\ phases' = [phases EXCEPT ![c] = @ \cup {"poll_to_complete"}]
  /\ Return(c, Response(c, status = "COMPLETED", status,
                        phases[c] \cup {"poll_to_complete"}, delivery[c]))

\* One turn of the loop, unless the deadline passed before the first.  A success
\* may lack the status field, and then reads as UNKNOWN.
Poll(c) ==
  /\ pc[c] = "poll"
  /\ req[c].timeout # "passed"
  /\ \/ \E status \in {flows[workflow_id[c]].status, "UNKNOWN"} :
           /\ final' = [final EXCEPT ![c] = status]
           /\ faulted' = [faulted EXCEPT ![c] = @ \/ status = "UNKNOWN"]
           /\ \/ status \in Terminal /\ Conclude(c, status)
              \/ status \notin Terminal /\ Goto(c, "poll") /\ UNCHANGED phases
     \/ \E reply \in {"status", "lost", "malformed"} : Raise(c, reply) /\ UNCHANGED final
  /\ UNCHANGED <<conductorVars, req, webhook_id, workflow_id, delivery>>

\* Mutation: running out of time is reported as the workflow's.
DeadlinePassesTimedOut(c) ==
  /\ pc[c] = "poll"
  /\ Conclude(c, IF final[c] \in Terminal THEN final[c] ELSE "TIMED_OUT")
  /\ UNCHANGED <<conductorVars, req, webhook_id, workflow_id, delivery, final, faulted>>

\* Mutation: the deadline is tested only after a poll.
DeadlinePassesLate(c) ==
  /\ pc[c] = "poll"
  /\ final[c] # "UNKNOWN"
  /\ Conclude(c, final[c])
  /\ UNCHANGED <<conductorVars, req, webhook_id, workflow_id, delivery, final, faulted>>

\* timeout_s after the delivery, at the loop's test: the last status polled stands.
DeadlinePasses(c) ==
  /\ pc[c] = "poll"
  /\ Conclude(c, final[c])
  /\ UNCHANGED <<conductorVars, req, webhook_id, workflow_id, delivery, final, faulted>>

Step(c) == \/ RegisterWorkflow(c) \/ RegisterWebhook(c) \/ StartWorkflow(c)
           \/ SigningRaises(c) \/ Fire(c) \/ Poll(c)

Next ==
  \/ \E c \in Calls : \/ \E r \in Requests : WaitForWebhook(c, r)
                      \/ Step(c)
                      \/ DeadlinePasses(c)
  \/ ConductorNext /\ UNCHANGED callVars

Spec == Init /\ [][Next]_vars

\* A handler's thread goes on, every httpx exchange ends within the client's
\* timeout, and the clock reaches the deadline.
Fairness == \A c \in Calls : WF_vars(Step(c)) /\ WF_vars(DeadlinePasses(c))

FairSpec == Spec /\ Fairness

-----------------------------------------------------------------------------
(* Properties.                                                             *)

OptionalOf(S) == S \cup {None}

Labels     == {"idle", "register_wf", "register_webhook", "start_workflow",
               "fire", "poll", "answered"}
PhaseNames == {"register_wf", "register_webhook", "start_workflow", "fire",
               "poll_to_complete"}
Statuses   == Terminal \cup {"RUNNING"}
Finals     == Statuses \cup {"UNKNOWN", "ERROR", "DELIVERY_FAILED", "NONE"}

Answers == [http : {200, 400, 401, 500}, ok : BOOLEAN, final_status : Finals,
            phases : SUBSET PhaseNames, delivery : {None, "2xx", "status"},
            webhook_id : OptionalOf(Calls), workflow_id : OptionalOf(Calls)]

\* None is a value of its own: no record and no status.
ASSUME NoneApart == None \notin Answers \cup {"2xx", "status"}

Matches   == UNION {r.matches : r \in Requests}
Configs   == [verifier : Verifiers, headerKey : {"X-Sig", "x-twitter-webhooks-signature"},
              secretValue : {r.secret : r \in Requests}
                              \cup [id : Calls, base64 : {TRUE}, pem : {FALSE}],
              receiver : Calls, headers : {r.config_headers : r \in Requests},
              urlVerified : {r.url_verified : r \in Requests}]
Instances == [name : OptionalOf(Calls), matches : SUBSET Matches,
              status : Statuses \cup {"ABSENT"}, registered : BOOLEAN,
              by : OptionalOf(Calls)]

\* Every variable keeps to its type, those of the conductor included.
TypeOK ==
  /\ defs \in [Calls -> OptionalOf(SUBSET Matches)]
  /\ hooks \in [Calls -> OptionalOf(Configs)]
  /\ flows \in [Calls -> Instances]
  /\ \A e \in queue : e.hook \in Calls /\ e.by \in Calls
  /\ pc \in [Calls -> Labels]
  /\ req \in [Calls -> OptionalOf(Requests)]
  /\ webhook_id \in [Calls -> OptionalOf(Calls)]
  /\ workflow_id \in [Calls -> OptionalOf(Calls)]
  /\ delivery \in [Calls -> {None, "2xx", "status"}]
  /\ final \in [Calls -> Statuses \cup {"UNKNOWN"}]
  /\ phases \in [Calls -> SUBSET PhaseNames]
  /\ answer \in [Calls -> OptionalOf(Answers)]
  /\ faulted \in [Calls -> BOOLEAN]

Answered(c) == answer[c] # None

\* A caller is told ok=True only when the workflow of that very call is COMPLETED
\* and the event that completed it is the one that very call fired, whatever the
\* other calls register, start, fire and poll meanwhile.
YesOnlyByOwnEvent ==
  \A c \in Calls : Answered(c) /\ answer[c].ok =>
     flows[c].status = "COMPLETED" /\ flows[c].by = c

\* A terminal final_status, of ok=True and of ok=False alike, is still the status
\* of the call's workflow, and ok says whether it is COMPLETED.
TerminalVerdictIsTrue ==
  \A c \in Calls : Answered(c) /\ answer[c].http = 200 =>
     /\ answer[c].final_status \in Terminal => flows[c].status = answer[c].final_status
     /\ answer[c].ok <=> answer[c].final_status = "COMPLETED"

\* A phase that is timed in an answer took place at the conductor: the definition
\* holds the caller's matches, the webhook the caller's configuration, the workflow
\* exists and waits for the caller's matches, the delivery was answered; and no
\* phase is timed without the ones before it.
PhasesAreReal ==
  \A c \in Calls : Answered(c) =>
     /\ "register_wf"      \in answer[c].phases => defs[c] = req[c].matches
     /\ "register_webhook" \in answer[c].phases =>
           /\ "register_wf" \in answer[c].phases
           /\ answer[c].webhook_id = c
           /\ hooks[c] = Config(c)
     /\ "start_workflow"   \in answer[c].phases =>
           /\ "register_webhook" \in answer[c].phases
           /\ answer[c].workflow_id = c
           /\ flows[c].status # "ABSENT"
           /\ flows[c].matches = req[c].matches
     /\ "fire"             \in answer[c].phases =>
           "start_workflow" \in answer[c].phases /\ answer[c].delivery # None
     /\ "poll_to_complete" \in answer[c].phases => answer[c].delivery = "2xx"

\* An event reaches the conductor only after the workflow it is meant for was
\* started, and through a webhook that names no other workflow.
EventAfterStart ==
  \A e \in queue : /\ flows[e.by].status # "ABSENT"
                   /\ hooks[e.hook].receiver = flows[e.by].name

\* Requests that the description of the fields says will be accepted: any payload or
\* none, any secret where none is asked for, any headers for HEADER_BASED.
WellFormed(r) ==
  /\ RequireToken(r.authorization)
  /\ r.verifier \in Verifiers
  /\ r.verifier = "HMAC_BASED"   => r.secret = None \/ r.secret.base64
  /\ r.verifier = "HEADER_BASED" => DOMAIN r.config_headers # {}
  /\ r.verifier = "SLACK_BASED"  => r.url_verified

\* Well-formed all the same: what no key signs, and what the conductor turns away, for a
\* header that is registered and not sent, or a body without Stripe's version.
Unsignable(c) == req[c].verifier = "SENDGRID" /\ ~ (CryptographyInstalled /\ Secret(c).pem)

Unsent(r) ==
  {h \in DOMAIN r.config_headers \ {"X-Sig"} :
     ~ (h = "Content-Type" /\ r.config_headers[h] = "application/json")}

TurnedAway(c) ==
  \/ req[c].verifier = "HEADER_BASED" /\ Unsent(req[c]) # {}
  \/ req[c].verifier = "STRIPE" /\ "api_version" \notin Payload(c)

\* What the call registers and what it signs agree, for every verifier, but for those
\* cases: without a fault of the network or of the conductor a well-formed request ends
\* in an HTTP error exactly when it is unsignable, in a refused delivery exactly when it
\* is turned away, and in a failed exchange never.  (What the conductor makes of a
\* SENDGRID signature is not known; that it refuses one counts as a fault.)
RefusalsAreExact ==
  \A c \in Calls : Answered(c) /\ ~ faulted[c] /\ WellFormed(req[c]) =>
     /\ answer[c].http = IF Unsignable(c) THEN 500 ELSE 200
     /\ answer[c].final_status = "DELIVERY_FAILED" <=> TurnedAway(c)
     /\ answer[c].final_status # "ERROR"

\* Each call is answered, whatever is lost, refused or never completed.
EveryCallAnswered == \A c \in Calls : pc[c] # "idle" ~> Answered(c)

\* The endpoint keeps its promise: EndToEnd under this mapping.
Verdict(c) == IF answer[c] = None THEN "none"
              ELSE IF answer[c].http # 200 THEN "broken"
              ELSE IF answer[c].ok THEN "yes" ELSE "no"

Asked     == {c \in Calls : pc[c] # "idle"}
Completed == {c \in Calls : flows[c].status = "COMPLETED" /\ flows[c].by = c}
Told      == [c \in Calls |-> Verdict(c)]

Promise == INSTANCE EndToEnd WITH asked <- Asked, completed <- Completed, verdict <- Told

KeepsPromise == Promise!Spec

\* "can POST one thing and get back a yes/no plus phase timings" (scenarios.py,
\* lines 10-12): every admitted call is answered with a verdict.
AlwaysYesOrNo ==
  \A c \in Calls : Answered(c) /\ WellFormed(req[c]) => answer[c].http = 200

\* "Verifier secret [...] If omitted, generated fresh per call." (scenarios.py, lines
\* 40-41): without a fault, no admitted call breaks for want of a secret.
GeneratedSecretServes ==
  \A c \in Calls : /\ Answered(c) /\ ~ faulted[c]
                   /\ req[c].verifier \in Verifiers /\ req[c].secret = None
                   => answer[c].http # 500
=============================================================================
