--------------------------- MODULE ScenarioProofs ---------------------------
(***************************************************************************)
(* Theorems about Scenario, for any set of calls and of requests.          *)
(*                                                                         *)
(* That a yes comes from the call's own event is not inductive: it holds   *)
(* because every link on the way from a call to its workflow and back      *)
(* names the same call.  Links states them, one conjunct per hop.  On top  *)
(* of it, AllTimed says what each timed phase vouches for, and AllWelcome  *)
(* that what a call registers accepts what it signs.                       *)
(***************************************************************************)
EXTENDS Scenario, TLAPS

\* A call past its gate has an admitted request.
Admitted(c) ==
  pc[c] \notin {"idle", "answered"} => req[c] \in Requests /\ req[c].verifier \in Verifiers

\* The ids a call holds are its own, and what they name exists.
OwnIds(c) ==
  /\ webhook_id[c] \in {None, c}
  /\ workflow_id[c] \in {None, c}
  /\ pc[c] \in {"start_workflow", "fire", "poll"} => webhook_id[c] = c /\ hooks[c].receiver = c
  /\ pc[c] \in {"fire", "poll"} => workflow_id[c] = c /\ flows[c].status # "ABSENT"
  /\ pc[c] \in {"idle", "register_wf", "register_webhook", "start_workflow"}
        => flows[c].status = "ABSENT"

\* A webhook completes the workflow of its own call only.
OwnWebhook(c) ==
  /\ hooks[c] # None => hooks[c].receiver = c
  /\ flows[c].status # "ABSENT" => flows[c].name = c
  /\ flows[c].status = "COMPLETED" => flows[c].by = c

OwnEvents ==
  \A e \in queue : /\ e.by = e.hook
                   /\ hooks[e.hook].receiver = e.by
                   /\ flows[e.by].status # "ABSENT"

\* What the call last polled, if terminal, is still so, and what it answered.
TrueStatus(c) ==
  /\ final[c] \in Terminal => flows[c].status = final[c]
  /\ pc[c] \notin {"poll", "answered"} => final[c] = "UNKNOWN"
  /\ pc[c] # "answered" => answer[c] = None
  /\ Answered(c) /\ answer[c].http = 200 =>
        /\ answer[c].final_status \in Terminal => flows[c].status = answer[c].final_status
        /\ answer[c].ok <=> answer[c].final_status = "COMPLETED"
  /\ Answered(c) /\ answer[c].ok => answer[c].http = 200

Links == /\ \A c \in Calls : Admitted(c) /\ OwnIds(c) /\ OwnWebhook(c) /\ TrueStatus(c)
         /\ OwnEvents

IInv == TypeOK /\ Links

-----------------------------------------------------------------------------
(* TypeOK, action by action.                                               *)

LEMMA ConfigTyped ==
  ASSUME NEW c \in Calls, req[c] \in Requests, req[c].verifier \in Verifiers
  PROVE  Config(c) \in Configs
  BY DEF Config, Configs, Secret, DefaultSecret, RunId, VendorHeaderKey

LEMMA BareTyped ==
  ASSUME NEW http \in {400, 401, 500}
  PROVE  Bare(http) \in Answers
  BY DEF Bare, Answers, Finals, OptionalOf

LEMMA ResponseTyped ==
  ASSUME TypeOK, NEW c \in Calls, NEW ok \in BOOLEAN, NEW status \in Finals,
         NEW timed \in SUBSET PhaseNames, NEW delivered \in {None, "2xx", "status"}
  PROVE  Response(c, ok, status, timed, delivered) \in Answers
  BY DEF Response, Answers, TypeOK

\* The part of TypeOK that the end of every exchange writes.
Ended == /\ pc \in [Calls -> Labels]
         /\ phases \in [Calls -> SUBSET PhaseNames]
         /\ answer \in [Calls -> OptionalOf(Answers)]
         /\ faulted \in [Calls -> BOOLEAN]

LEMMA ReturnTyped ==
  ASSUME TypeOK, NEW c \in Calls, NEW a \in Answers, Return(c, a)
  PROVE  pc' \in [Calls -> Labels] /\ answer' \in [Calls -> OptionalOf(Answers)]
  BY DEF TypeOK, Return, Labels, OptionalOf

LEMMA RaiseTyped ==
  ASSUME TypeOK, NEW c \in Calls, NEW reply, Raise(c, reply)
  PROVE  Ended'
<1>1. Bare(500) \in Answers
  BY BareTyped
<1>2. Response(c, FALSE, "ERROR", phases[c], delivery[c]) \in Answers
  BY ResponseTyped DEF TypeOK, Finals
<1>3. PICK a \in Answers : Return(c, a)
  BY <1>1, <1>2 DEF Raise
<1>4. QED
  BY <1>3, ReturnTyped DEF Raise, Ended, TypeOK

LEMMA ProceedTyped ==
  ASSUME TypeOK, NEW c \in Calls, NEW reply, NEW next \in Labels,
         pc[c] \in PhaseNames, Proceed(c, reply, next)
  PROVE  Ended'
<1>1. CASE Raise(c, reply)
  BY <1>1, RaiseTyped
<1>2. CASE /\ phases' = [phases EXCEPT ![c] = @ \cup {pc[c]}]
           /\ Goto(c, next)
           /\ UNCHANGED faulted
  BY <1>2 DEF TypeOK, Goto, Ended
<1>3. QED
  BY <1>1, <1>2 DEF Proceed

LEMMA WaitForWebhookTyped ==
  ASSUME TypeOK, NEW c \in Calls, NEW r \in Requests, WaitForWebhook(c, r)
  PROVE  TypeOK'
<1>1. pc' \in [Calls -> Labels] /\ answer' \in [Calls -> OptionalOf(Answers)]
  <2>1. CASE Return(c, Bare(401)) \/ Return(c, Bare(400))
    BY <2>1, BareTyped, ReturnTyped
  <2>2. CASE Goto(c, "register_wf")
    BY <2>2 DEF Goto, TypeOK, Labels
  <2>3. QED
    BY <2>1, <2>2 DEF WaitForWebhook
<1>2. req' \in [Calls -> OptionalOf(Requests)]
  BY DEF WaitForWebhook, TypeOK, OptionalOf
<1>3. QED
  BY <1>1, <1>2 DEF TypeOK, WaitForWebhook, conductorVars

LEMMA RegisterWorkflowTyped ==
  ASSUME IInv, NEW c \in Calls, RegisterWorkflow(c)
  PROVE  TypeOK'
<1>1. Ended'
  BY ProceedTyped DEF IInv, RegisterWorkflow, Labels, PhaseNames
<1>2. defs' \in [Calls -> OptionalOf(SUBSET Matches)]
  <2>1. req[c] \in Requests
    BY DEF IInv, Links, Admitted, RegisterWorkflow
  <2>2. req[c].matches \in SUBSET Matches
    BY <2>1 DEF Matches
  <2>3. QED
    BY <2>2 DEF IInv, TypeOK, RegisterWorkflow, PutDef, RunId, OptionalOf
<1>3. QED
  BY <1>1, <1>2 DEF IInv, TypeOK, Ended, RegisterWorkflow

LEMMA RegisterWebhookTyped ==
  ASSUME IInv, NEW c \in Calls, RegisterWebhook(c)
  PROVE  TypeOK'
<1>1. Ended'
  BY ProceedTyped DEF IInv, RegisterWebhook, Labels, PhaseNames
<1>2. hooks' \in [Calls -> OptionalOf(Configs)]
  <2>1. Config(c) \in Configs
    BY ConfigTyped DEF IInv, Links, Admitted, RegisterWebhook
  <2>2. QED
    BY <2>1 DEF IInv, TypeOK, RegisterWebhook, CreateHook, RunId, OptionalOf
<1>3. webhook_id' \in [Calls -> OptionalOf(Calls)]
  BY DEF IInv, TypeOK, RegisterWebhook, RunId, OptionalOf
<1>4. QED
  BY <1>1, <1>2, <1>3 DEF IInv, TypeOK, Ended, RegisterWebhook

LEMMA StartWorkflowTyped ==
  ASSUME IInv, NEW c \in Calls, StartWorkflow(c)
  PROVE  TypeOK'
<1>1. Ended'
  BY ProceedTyped DEF IInv, StartWorkflow, Labels, PhaseNames
<1>2. flows' \in [Calls -> Instances]
  <2>1. CASE StartFlow(RunId(c), RunId(c))
    <3>1. defs[c] \in SUBSET Matches
      BY <2>1 DEF StartFlow, StartInstance, RunId, IInv, TypeOK, OptionalOf
    <3>2. [name |-> c, matches |-> defs[c], status |-> "RUNNING",
           registered |-> FALSE, by |-> None] \in Instances
      BY <3>1 DEF Instances, OptionalOf, Statuses
    <3>3. QED
      BY <2>1, <3>2 DEF StartFlow, StartInstance, RunId, IInv, TypeOK
  <2>2. CASE UNCHANGED flows
    BY <2>2 DEF IInv, TypeOK
  <2>3. QED
    BY <2>1, <2>2 DEF StartWorkflow
<1>3. workflow_id' \in [Calls -> OptionalOf(Calls)]
  BY DEF IInv, TypeOK, StartWorkflow, RunId, OptionalOf
<1>4. QED
  BY <1>1, <1>2, <1>3 DEF IInv, TypeOK, Ended, StartWorkflow

LEMMA SigningRaisesTyped ==
  ASSUME IInv, NEW c \in Calls, SigningRaises(c)
  PROVE  TypeOK'
<1>1. pc' \in [Calls -> Labels] /\ answer' \in [Calls -> OptionalOf(Answers)]
  BY BareTyped, ReturnTyped DEF IInv, SigningRaises
<1>2. QED
  BY <1>1 DEF IInv, TypeOK, SigningRaises, conductorVars

LEMMA FireTyped ==
  ASSUME IInv, NEW c \in Calls, Fire(c)
  PROVE  TypeOK'
<1> USE DEF IInv
<1>1. pc' \in [Calls -> Labels] /\ answer' \in [Calls -> OptionalOf(Answers)]
  <2>1. CASE Goto(c, "poll")
    BY <2>1 DEF Goto, TypeOK, Labels
  <2>2. CASE Return(c, Response(c, FALSE, "DELIVERY_FAILED", phases[c] \cup {"fire"}, "status"))
    <3>1. Response(c, FALSE, "DELIVERY_FAILED", phases[c] \cup {"fire"}, "status") \in Answers
      BY ResponseTyped DEF TypeOK, Finals, PhaseNames
    <3>2. QED
      BY <2>2, <3>1, ReturnTyped
  <2>3. CASE Return(c, Bare(500))
    BY <2>3, BareTyped, ReturnTyped
  <2>4. QED
    BY <2>1, <2>2, <2>3 DEF Fire
<1>2. /\ phases' \in [Calls -> SUBSET PhaseNames]
      /\ delivery' \in [Calls -> {None, "2xx", "status"}]
  BY DEF TypeOK, Fire, PhaseNames
<1>3. faulted' \in [Calls -> BOOLEAN]
  <2>1. PICK b \in BOOLEAN : faulted' = [faulted EXCEPT ![c] = b]
    <3>1. PICK reply \in {"2xx", "status", "lost"} :
            faulted' = [faulted EXCEPT ![c] = @ \/ reply = "lost"
                                                \/ (reply = "status" /\ Acknowledged(c))]
      BY DEF Fire
    <3>2. (faulted[c] \/ reply = "lost" \/ (reply = "status" /\ Acknowledged(c))) \in BOOLEAN
      BY Zenon DEF TypeOK
    <3>3. QED
      BY <3>1, <3>2, Zenon
  <2>2. QED
    BY <2>1 DEF TypeOK
<1>4. \A e \in queue' : e.hook \in Calls /\ e.by \in Calls
  BY DEF TypeOK, Fire, Enqueue, Links, OwnIds
<1>5. QED
  BY <1>1, <1>2, <1>3, <1>4 DEF TypeOK, Fire

LEMMA ConcludeTyped ==
  ASSUME TypeOK, NEW c \in Calls, NEW status \in Statuses \cup {"UNKNOWN"}, Conclude(c, status)
  PROVE  /\ pc' \in [Calls -> Labels]
         /\ phases' \in [Calls -> SUBSET PhaseNames]
         /\ answer' \in [Calls -> OptionalOf(Answers)]
<1>1. phases[c] \cup {"poll_to_complete"} \in SUBSET PhaseNames
  BY DEF TypeOK, PhaseNames
<1>2. Response(c, status = "COMPLETED", status, phases[c] \cup {"poll_to_complete"},
               delivery[c]) \in Answers
  BY <1>1, ResponseTyped DEF TypeOK, Finals
<1>3. QED
  BY <1>1, <1>2, ReturnTyped DEF Conclude, TypeOK

LEMMA PollTyped ==
  ASSUME IInv, NEW c \in Calls, Poll(c)
  PROVE  TypeOK'
<1> USE DEF IInv
<1>1. CASE \E reply \in {"status", "lost", "malformed"} : Raise(c, reply) /\ UNCHANGED final
  <2>1. Ended'
    BY <1>1, RaiseTyped
  <2>2. QED
    BY <1>1, <2>1 DEF TypeOK, Poll, Ended, conductorVars
<1>2. ASSUME NEW status \in {flows[workflow_id[c]].status, "UNKNOWN"},
             final' = [final EXCEPT ![c] = status],
             faulted' = [faulted EXCEPT ![c] = @ \/ status = "UNKNOWN"],
             \/ status \in Terminal /\ Conclude(c, status)
             \/ status \notin Terminal /\ Goto(c, "poll") /\ UNCHANGED phases
      PROVE TypeOK'
  <2>1. status \in Statuses \cup {"UNKNOWN"}
    <3>1. flows[c] \in Instances /\ flows[c].status # "ABSENT" /\ workflow_id[c] = c
      BY DEF Poll, TypeOK, Links, OwnIds
    <3>2. QED
      BY <3>1, <1>2 DEF Instances
  <2>2. /\ pc' \in [Calls -> Labels]
        /\ phases' \in [Calls -> SUBSET PhaseNames]
        /\ answer' \in [Calls -> OptionalOf(Answers)]
    BY <1>2, <2>1, ConcludeTyped DEF TypeOK, Goto, Labels
  <2>3. faulted' \in [Calls -> BOOLEAN]
    BY <1>2, Zenon DEF TypeOK
  <2>4. final' \in [Calls -> Statuses \cup {"UNKNOWN"}]
    BY <1>2, <2>1 DEF TypeOK
  <2>5. QED
    BY <2>2, <2>3, <2>4 DEF TypeOK, Poll, conductorVars
<1>3. QED
  BY <1>1, <1>2 DEF Poll

LEMMA DeadlinePassesTyped ==
  ASSUME IInv, NEW c \in Calls, DeadlinePasses(c)
  PROVE  TypeOK'
<1>1. final[c] \in Statuses \cup {"UNKNOWN"}
  BY DEF IInv, TypeOK
<1>2. QED
  BY <1>1, ConcludeTyped DEF IInv, TypeOK, DeadlinePasses, conductorVars

\* What the conductor's steps make of an instance is an instance.
LEMMA InstancesClosed ==
  ASSUME NEW i \in Instances, NEW s \in Terminal, NEW d \in Calls
  PROVE  /\ [i EXCEPT !.registered = TRUE] \in Instances
         /\ [i EXCEPT !.status = s] \in Instances
         /\ [i EXCEPT !.status = "COMPLETED", !.by = d] \in Instances
<1> DEFINE S == Statuses \cup {"ABSENT"}  O == OptionalOf(Calls)  M == SUBSET Matches
<1>1. i \in [name : O, matches : M, status : S, registered : BOOLEAN, by : O]
  BY DEF Instances
<1>2. s \in S /\ "COMPLETED" \in S /\ d \in O
  BY DEF Statuses, Terminal, OptionalOf
<1> HIDE DEF S, O, M
<1>3. /\ [i EXCEPT !.registered = TRUE]
           \in [name : O, matches : M, status : S, registered : BOOLEAN, by : O]
      /\ [i EXCEPT !.status = s]
           \in [name : O, matches : M, status : S, registered : BOOLEAN, by : O]
      /\ [i EXCEPT !.status = "COMPLETED", !.by = d]
           \in [name : O, matches : M, status : S, registered : BOOLEAN, by : O]
  BY <1>1, <1>2
<1>4. QED
  BY <1>3 DEF Instances, S, O, M

LEMMA ConductorTyped ==
  ASSUME TypeOK, ConductorNext, UNCHANGED callVars
  PROVE  TypeOK'
<1> USE FreshIds
<1>1. ASSUME NEW w \in Flows, RegisterWait(w) PROVE TypeOK'
  <2>1. [flows[w] EXCEPT !.registered = TRUE] \in Instances
    BY InstancesClosed DEF TypeOK, Terminal
  <2>2. flows' \in [Calls -> Instances]
    BY <1>1, <2>1 DEF TypeOK, RegisterWait
  <2>3. QED
    BY <1>1, <2>2 DEF TypeOK, RegisterWait, callVars
<1>2. ASSUME NEW w \in Flows, Abort(w) PROVE TypeOK'
  <2>1. \A s \in Terminal : [flows[w] EXCEPT !.status = s] \in Instances
    BY InstancesClosed DEF TypeOK
  <2>2. flows' \in [Calls -> Instances]
    BY <1>2, <2>1 DEF TypeOK, Abort
  <2>3. QED
    BY <1>2, <2>2 DEF TypeOK, Abort, callVars
<1>3. ASSUME NEW e \in queue, Dispatch(e) PROVE TypeOK'
  <2>1. \A w \in Calls : [flows[w] EXCEPT !.status = "COMPLETED", !.by = e.by] \in Instances
    BY InstancesClosed DEF TypeOK, Terminal
  <2>2. flows' \in [Calls -> Instances]
    BY <1>3, <2>1 DEF TypeOK, Dispatch
  <2>3. QED
    BY <1>3, <2>2 DEF TypeOK, Dispatch, callVars
<1>4. QED
  BY <1>1, <1>2, <1>3 DEF ConductorNext

\* What Conclude answers with, field by field.
LEMMA ConcludeAnswer ==
  ASSUME TypeOK, NEW c \in Calls, NEW status, Conclude(c, status)
  PROVE  /\ answer'[c].http = 200
         /\ answer'[c].final_status = status
         /\ answer'[c].ok <=> status = "COMPLETED"
         /\ pc'[c] = "answered"
<1>1. /\ answer'[c] = Response(c, status = "COMPLETED", status,
                               phases[c] \cup {"poll_to_complete"}, delivery[c])
      /\ pc'[c] = "answered"
  BY DEF TypeOK, Conclude, Return
<1>2. CASE status = "COMPLETED"
  <2>1. (status = "COMPLETED") = TRUE
    BY <1>2
  <2>2. answer'[c] = Response(c, TRUE, status, phases[c] \cup {"poll_to_complete"}, delivery[c])
    BY <1>1, <2>1
  <2>3. QED
    BY <1>1, <1>2, <2>2 DEF Response
<1>3. CASE status # "COMPLETED"
  <2>1. (status = "COMPLETED") = FALSE
    BY <1>3
  <2>2. answer'[c] = Response(c, FALSE, status, phases[c] \cup {"poll_to_complete"}, delivery[c])
    BY <1>1, <2>1
  <2>3. QED
    BY <1>1, <1>3, <2>2 DEF Response
<1>4. QED
  BY <1>2, <1>3

-----------------------------------------------------------------------------
(* Links, action by action.                                                *)

\* What a call's own step leaves alone keeps the links of the other calls.
LEMMA OthersKept ==
  ASSUME Links, NEW c \in Calls, NEW d \in Calls \ {c},
         pc'[d] = pc[d], req'[d] = req[d], webhook_id'[d] = webhook_id[d],
         workflow_id'[d] = workflow_id[d], final'[d] = final[d],
         answer'[d] = answer[d], hooks'[d] = hooks[d], flows'[d] = flows[d]
  PROVE  (Admitted(d) /\ OwnIds(d) /\ OwnWebhook(d) /\ TrueStatus(d))'
  BY DEF Links, Admitted, OwnIds, OwnWebhook, TrueStatus, Answered

LEMMA InitLinks == Init => Links
  BY FreshIds DEF Init, ConductorInit, Absent, Links, Admitted, OwnIds, OwnWebhook,
     TrueStatus, OwnEvents, Answered, Terminal

LEMMA RegisterWorkflowLinks ==
  ASSUME IInv, NEW c \in Calls, RegisterWorkflow(c)
  PROVE  Links'
<1>1. \A d \in Calls \ {c} : (Admitted(d) /\ OwnIds(d) /\ OwnWebhook(d) /\ TrueStatus(d))'
  BY OthersKept DEF IInv, TypeOK, RegisterWorkflow, PutDef, MayBeUnapplied, Proceed,
     Raise, Return, Goto, Response, Bare
<1>2. Admitted(c)'
  BY DEF IInv, TypeOK, Links, Admitted, RegisterWorkflow, PutDef, MayBeUnapplied,
     Proceed, Raise, Return, Goto, Response, Bare
<1>3. OwnIds(c)'
  BY DEF IInv, TypeOK, Links, OwnIds, Config, RegisterWorkflow, PutDef, MayBeUnapplied,
     Proceed, Raise, Return, Goto, Response, Bare
<1>4. OwnWebhook(c)'
  BY DEF IInv, TypeOK, Links, OwnIds, OwnWebhook, Config, RegisterWorkflow, PutDef,
     MayBeUnapplied, Proceed, Raise, Return, Goto, Response, Bare
<1>5. TrueStatus(c)'
  BY DEF IInv, TypeOK, Links, OwnIds, TrueStatus, Answered, Terminal, RegisterWorkflow,
     PutDef, MayBeUnapplied, Proceed, Raise, Return, Goto, Response, Bare
<1>6. OwnEvents'
  BY DEF IInv, TypeOK, Links, OwnEvents, RegisterWorkflow
<1>7. QED
  BY <1>1, <1>2, <1>3, <1>4, <1>5, <1>6 DEF Links

LEMMA RegisterWebhookLinks ==
  ASSUME IInv, NEW c \in Calls, RegisterWebhook(c)
  PROVE  Links'
<1>1. \A d \in Calls \ {c} : (Admitted(d) /\ OwnIds(d) /\ OwnWebhook(d) /\ TrueStatus(d))'
  BY OthersKept DEF IInv, TypeOK, RegisterWebhook, CreateHook, MayBeUnapplied, Proceed,
     Raise, Return, Goto, Response, Bare, RunId
<1>2. Admitted(c)'
  BY DEF IInv, TypeOK, Links, Admitted, RegisterWebhook, CreateHook, MayBeUnapplied,
     Proceed, Raise, Return, Goto, Response, Bare, RunId
<1>3. OwnIds(c)'
  BY DEF IInv, TypeOK, Links, OwnIds, Config, RegisterWebhook, CreateHook,
     MayBeUnapplied, Proceed, Raise, Return, Goto, Response, Bare, RunId
<1>4. OwnWebhook(c)'
  BY DEF IInv, TypeOK, Links, OwnIds, OwnWebhook, Config, RegisterWebhook, CreateHook,
     MayBeUnapplied, Proceed, Raise, Return, Goto, Response, Bare, RunId
<1>5. TrueStatus(c)'
  BY DEF IInv, TypeOK, Links, OwnIds, TrueStatus, Answered, Terminal, RegisterWebhook,
     CreateHook, MayBeUnapplied, Proceed, Raise, Return, Goto, Response, Bare, RunId
<1>6. OwnEvents'
  BY DEF IInv, TypeOK, Links, OwnIds, OwnEvents, RegisterWebhook, CreateHook, RunId, Config
<1>7. QED
  BY <1>1, <1>2, <1>3, <1>4, <1>5, <1>6 DEF Links

LEMMA StartWorkflowLinks ==
  ASSUME IInv, NEW c \in Calls, StartWorkflow(c)
  PROVE  Links'
<1>1. \A d \in Calls \ {c} : (Admitted(d) /\ OwnIds(d) /\ OwnWebhook(d) /\ TrueStatus(d))'
  BY OthersKept DEF IInv, TypeOK, StartWorkflow, StartFlow, StartInstance,
     MayBeUnapplied, Proceed, Raise, Return, Goto, Response, Bare, RunId
<1>2. Admitted(c)'
  BY DEF IInv, TypeOK, Links, Admitted, StartWorkflow, StartFlow, StartInstance,
     MayBeUnapplied, Proceed, Raise, Return, Goto, Response, Bare, RunId
<1>3. OwnIds(c)'
  BY DEF IInv, TypeOK, Links, OwnIds, Config, StartWorkflow, StartFlow, StartInstance,
     MayBeUnapplied, Proceed, Raise, Return, Goto, Response, Bare, RunId
<1>4. OwnWebhook(c)'
  BY DEF IInv, TypeOK, Links, OwnIds, OwnWebhook, Config, StartWorkflow, StartFlow,
     StartInstance, MayBeUnapplied, Proceed, Raise, Return, Goto, Response, Bare, RunId
<1>5. TrueStatus(c)'
  BY DEF IInv, TypeOK, Links, OwnIds, TrueStatus, Answered, Terminal, StartWorkflow,
     StartFlow, StartInstance, MayBeUnapplied, Proceed, Raise, Return, Goto, Response,
     Bare, RunId
<1>6. OwnEvents'
  BY DEF IInv, TypeOK, Links, OwnEvents, StartWorkflow, StartFlow, StartInstance, RunId
<1>7. QED
  BY <1>1, <1>2, <1>3, <1>4, <1>5, <1>6 DEF Links

LEMMA SigningRaisesLinks ==
  ASSUME IInv, NEW c \in Calls, SigningRaises(c)
  PROVE  Links'
<1>1. \A d \in Calls \ {c} : (Admitted(d) /\ OwnIds(d) /\ OwnWebhook(d) /\ TrueStatus(d))'
  BY OthersKept DEF IInv, TypeOK, SigningRaises, conductorVars, Return, Bare
<1>2. Admitted(c)'
  BY DEF IInv, TypeOK, Links, Admitted, SigningRaises, conductorVars, Return, Bare
<1>3. OwnIds(c)'
  BY DEF IInv, TypeOK, Links, OwnIds, Config, SigningRaises, conductorVars, Return, Bare
<1>4. OwnWebhook(c)'
  BY DEF IInv, TypeOK, Links, OwnIds, OwnWebhook, Config, SigningRaises, conductorVars,
     Return, Bare
<1>5. TrueStatus(c)'
  BY DEF IInv, TypeOK, Links, OwnIds, TrueStatus, Answered, Terminal, SigningRaises,
     conductorVars, Return, Bare
<1>6. OwnEvents'
  BY DEF IInv, TypeOK, Links, OwnEvents, SigningRaises, conductorVars
<1>7. QED
  BY <1>1, <1>2, <1>3, <1>4, <1>5, <1>6 DEF Links

LEMMA FireLinks ==
  ASSUME IInv, NEW c \in Calls, Fire(c)
  PROVE  Links'
<1>1. \A d \in Calls \ {c} : (Admitted(d) /\ OwnIds(d) /\ OwnWebhook(d) /\ TrueStatus(d))'
  BY OthersKept DEF IInv, TypeOK, Fire, Enqueue, Return, Goto, Response, Bare
<1>2. Admitted(c)'
  BY DEF IInv, TypeOK, Links, Admitted, Fire, Enqueue, Return, Goto, Response, Bare
<1>3. OwnIds(c)'
  BY DEF IInv, TypeOK, Links, OwnIds, Config, Fire, Enqueue, Return, Goto, Response, Bare
<1>4. OwnWebhook(c)'
  BY DEF IInv, TypeOK, Links, OwnIds, OwnWebhook, Config, Fire, Enqueue, Return, Goto,
     Response, Bare
<1>5. TrueStatus(c)'
  BY DEF IInv, TypeOK, Links, OwnIds, TrueStatus, Answered, Terminal, Fire, Enqueue,
     Return, Goto, Response, Bare
<1>6. OwnEvents'
  BY DEF IInv, TypeOK, Links, OwnIds, OwnEvents, Fire, Enqueue
<1>7. QED
  BY <1>1, <1>2, <1>3, <1>4, <1>5, <1>6 DEF Links

LEMMA PollLinks ==
  ASSUME IInv, NEW c \in Calls, Poll(c)
  PROVE  Links'
<1>1. \A d \in Calls \ {c} : (Admitted(d) /\ OwnIds(d) /\ OwnWebhook(d) /\ TrueStatus(d))'
  BY OthersKept DEF IInv, TypeOK, Poll, conductorVars, Raise, Conclude, Return, Goto,
     Response, Bare
<1>2. Admitted(c)'
  BY DEF IInv, TypeOK, Links, Admitted, Poll, conductorVars, Raise, Conclude, Return,
     Goto, Response, Bare
<1>3. OwnIds(c)'
  BY DEF IInv, TypeOK, Links, OwnIds, Config, Poll, conductorVars, Raise, Conclude,
     Return, Goto, Response, Bare
<1>4. OwnWebhook(c)'
  BY DEF IInv, TypeOK, Links, OwnIds, OwnWebhook, Config, Poll, conductorVars, Raise,
     Conclude, Return, Goto, Response, Bare
<1>5. TrueStatus(c)'
  <2>1. /\ workflow_id[c] = c /\ flows' = flows /\ answer[c] = None
        /\ final[c] \in Terminal => flows[c].status = final[c]
    BY DEF IInv, Links, OwnIds, TrueStatus, Poll, conductorVars
  <2>2. ASSUME NEW reply, Raise(c, reply), UNCHANGED final
        PROVE  TrueStatus(c)'
    BY <2>1, <2>2 DEF IInv, TypeOK, TrueStatus, Answered, Terminal, Raise, Return,
       Response, Bare
  <2>3. ASSUME NEW status \in {flows[c].status, "UNKNOWN"},
               final' = [final EXCEPT ![c] = status],
               status \in Terminal /\ Conclude(c, status)
        PROVE  TrueStatus(c)'
    <3>1. status = flows'[c].status /\ final'[c] = status
      BY <2>1, <2>3 DEF IInv, TypeOK, Terminal
    <3>2. TypeOK
      BY DEF IInv
    <3>3. QED
      BY <3>1, <3>2, <2>3, ConcludeAnswer DEF TrueStatus
  <2>4. ASSUME NEW status \in {flows[c].status, "UNKNOWN"},
               final' = [final EXCEPT ![c] = status],
               status \notin Terminal /\ Goto(c, "poll")
        PROVE  TrueStatus(c)'
    BY <2>1, <2>4 DEF IInv, TypeOK, TrueStatus, Answered, Goto
  <2>5. QED
    BY <2>1, <2>2, <2>3, <2>4 DEF Poll
<1>6. OwnEvents'
  BY DEF IInv, TypeOK, Links, OwnEvents, Poll, conductorVars
<1>7. QED
  BY <1>1, <1>2, <1>3, <1>4, <1>5, <1>6 DEF Links

LEMMA DeadlinePassesLinks ==
  ASSUME IInv, NEW c \in Calls, DeadlinePasses(c)
  PROVE  Links'
<1>1. \A d \in Calls \ {c} : (Admitted(d) /\ OwnIds(d) /\ OwnWebhook(d) /\ TrueStatus(d))'
  BY OthersKept DEF IInv, TypeOK, DeadlinePasses, conductorVars, Conclude, Return, Response
<1>2. Admitted(c)'
  BY DEF IInv, TypeOK, Links, Admitted, DeadlinePasses, conductorVars, Conclude, Return,
     Response
<1>3. OwnIds(c)'
  BY DEF IInv, TypeOK, Links, OwnIds, Config, DeadlinePasses, conductorVars, Conclude,
     Return, Response
<1>4. OwnWebhook(c)'
  BY DEF IInv, TypeOK, Links, OwnIds, OwnWebhook, Config, DeadlinePasses, conductorVars,
     Conclude, Return, Response
<1>5. TrueStatus(c)'
  <2>1. /\ flows' = flows /\ UNCHANGED final
        /\ final[c] \in Terminal => flows[c].status = final[c]
    BY DEF IInv, Links, TrueStatus, DeadlinePasses, conductorVars
  <2>2. QED
    BY <2>1, ConcludeAnswer DEF IInv, TrueStatus, DeadlinePasses
<1>6. OwnEvents'
  BY DEF IInv, TypeOK, Links, OwnEvents, DeadlinePasses, conductorVars
<1>7. QED
  BY <1>1, <1>2, <1>3, <1>4, <1>5, <1>6 DEF Links

LEMMA WaitForWebhookLinks ==
  ASSUME IInv, NEW c \in Calls, NEW r \in Requests, WaitForWebhook(c, r)
  PROVE  Links'
<1>1. \A d \in Calls \ {c} : (Admitted(d) /\ OwnIds(d) /\ OwnWebhook(d) /\ TrueStatus(d))'
  BY OthersKept DEF IInv, TypeOK, WaitForWebhook, conductorVars, Return, Goto, Bare
<1>2. Admitted(c)'
  BY DEF IInv, TypeOK, Links, Admitted, WaitForWebhook, conductorVars, Return, Goto, Bare
<1>3. OwnIds(c)'
  BY DEF IInv, TypeOK, Links, OwnIds, Config, WaitForWebhook, conductorVars, Return, Goto, Bare
<1>4. OwnWebhook(c)'
  BY DEF IInv, TypeOK, Links, OwnIds, OwnWebhook, Config, WaitForWebhook, conductorVars,
     Return, Goto, Bare
<1>5. TrueStatus(c)'
  BY DEF IInv, TypeOK, Links, OwnIds, TrueStatus, Answered, Terminal, WaitForWebhook,
     conductorVars, Return, Goto, Bare
<1>6. OwnEvents'
  BY DEF IInv, TypeOK, Links, OwnEvents, WaitForWebhook, conductorVars
<1>7. QED
  BY <1>1, <1>2, <1>3, <1>4, <1>5, <1>6 DEF Links

LEMMA ConductorLinks ==
  ASSUME IInv, ConductorNext, UNCHANGED callVars
  PROVE  Links'
<1> USE FreshIds DEF IInv
<1>1. ASSUME NEW w \in Flows, RegisterWait(w) PROVE Links'
  BY <1>1 DEF TypeOK, Links, Admitted, OwnIds, OwnWebhook, TrueStatus, OwnEvents, Answered,
     RegisterWait, callVars
<1>2. ASSUME NEW w \in Flows, Abort(w) PROVE Links'
  BY <1>2 DEF TypeOK, Links, Admitted, OwnIds, OwnWebhook, TrueStatus, OwnEvents, Answered,
     Terminal, Abort, callVars
<1>3. ASSUME NEW e \in queue, Dispatch(e) PROVE Links'
  <2>1. \A w \in Matched(e) : w \in Calls /\ flows[w].status = "RUNNING" /\ w = e.by
    BY DEF TypeOK, Links, OwnWebhook, OwnEvents, Matched
  <2>2. \A w \in Calls : \/ flows'[w] = flows[w]
                         \/ /\ flows[w].status = "RUNNING"
                            /\ flows'[w].status = "COMPLETED"
                            /\ flows'[w].by = w
                            /\ flows'[w].name = flows[w].name
    <3> SUFFICES ASSUME NEW w \in Matched(e), w \in Calls
                 PROVE  /\ flows'[w].status = "COMPLETED"
                        /\ flows'[w].by = w
                        /\ flows'[w].name = flows[w].name
      BY <1>3, <2>1 DEF TypeOK, Dispatch
    <3>1. flows'[w] = [flows[w] EXCEPT !.status = "COMPLETED", !.by = e.by]
      BY <1>3 DEF Dispatch
    <3>2. flows[w] \in Instances
      BY DEF TypeOK
    <3>3. QED
      BY <2>1, <3>1, <3>2 DEF Instances
  <2>3. ASSUME NEW d \in Calls
        PROVE  (Admitted(d) /\ OwnIds(d) /\ OwnWebhook(d) /\ TrueStatus(d))'
    <3>1. /\ UNCHANGED <<pc, req, webhook_id, workflow_id, final, answer, hooks>>
          /\ Admitted(d) /\ OwnIds(d) /\ OwnWebhook(d) /\ TrueStatus(d)
      BY <1>3 DEF Dispatch, callVars, Links
    <3>2. CASE flows'[d] = flows[d]
      BY <3>1, <3>2 DEF Admitted, OwnIds, OwnWebhook, TrueStatus, Answered
    <3>3. CASE /\ flows[d].status = "RUNNING"
               /\ flows'[d].status = "COMPLETED"
               /\ flows'[d].by = d
               /\ flows'[d].name = flows[d].name
      <4>1. "RUNNING" \notin Terminal /\ "COMPLETED" \in Terminal
        BY DEF Terminal
      <4>2. QED
        BY <3>1, <3>3, <4>1 DEF Admitted, OwnIds, OwnWebhook, TrueStatus, Answered
    <3>4. QED
      BY <2>2, <3>2, <3>3
  <2>4. OwnEvents'
    <3>1. /\ queue' \subseteq queue /\ hooks' = hooks
          /\ \A f \in queue : f.by \in Calls
      BY <1>3 DEF Dispatch, TypeOK
    <3>2. \A d \in Calls : flows[d].status # "ABSENT" => flows'[d].status # "ABSENT"
      BY <2>2
    <3>3. QED
      BY <3>1, <3>2 DEF Links, OwnEvents
  <2>5. QED
    BY <2>3, <2>4 DEF Links
<1>4. QED
  BY <1>1, <1>2, <1>3 DEF ConductorNext

-----------------------------------------------------------------------------
(* The theorems.                                                           *)

LEMMA Stutters ==
  ASSUME IInv, UNCHANGED vars
  PROVE  IInv'
<1>1. TypeOK'
  BY DEF IInv, TypeOK, vars, callVars, conductorVars
<1>2. Links'
  BY DEF IInv, Links, Admitted, OwnIds, OwnWebhook, TrueStatus, OwnEvents, Answered,
     vars, callVars, conductorVars
<1>3. QED
  BY <1>1, <1>2 DEF IInv

LEMMA InitTyped == Init => TypeOK
  BY FreshIds DEF Init, ConductorInit, TypeOK, Absent, Instances, OptionalOf, Labels

LEMMA NextKeepsIInv ==
  ASSUME IInv, Next
  PROVE  IInv'
<1>1. ASSUME NEW c \in Calls, NEW r \in Requests, WaitForWebhook(c, r) PROVE IInv'
  BY <1>1, WaitForWebhookTyped, WaitForWebhookLinks DEF IInv
<1>2. ASSUME NEW c \in Calls, RegisterWorkflow(c) PROVE IInv'
  BY <1>2, RegisterWorkflowTyped, RegisterWorkflowLinks DEF IInv
<1>3. ASSUME NEW c \in Calls, RegisterWebhook(c) PROVE IInv'
  BY <1>3, RegisterWebhookTyped, RegisterWebhookLinks DEF IInv
<1>4. ASSUME NEW c \in Calls, StartWorkflow(c) PROVE IInv'
  BY <1>4, StartWorkflowTyped, StartWorkflowLinks DEF IInv
<1>5. ASSUME NEW c \in Calls, SigningRaises(c) PROVE IInv'
  BY <1>5, SigningRaisesTyped, SigningRaisesLinks DEF IInv
<1>6. ASSUME NEW c \in Calls, Fire(c) PROVE IInv'
  BY <1>6, FireTyped, FireLinks DEF IInv
<1>7. ASSUME NEW c \in Calls, Poll(c) PROVE IInv'
  BY <1>7, PollTyped, PollLinks DEF IInv
<1>8. ASSUME NEW c \in Calls, DeadlinePasses(c) PROVE IInv'
  BY <1>8, DeadlinePassesTyped, DeadlinePassesLinks DEF IInv
<1>9. ASSUME ConductorNext, UNCHANGED callVars PROVE IInv'
  BY <1>9, ConductorTyped, ConductorLinks DEF IInv
<1>10. QED
  BY <1>1, <1>2, <1>3, <1>4, <1>5, <1>6, <1>7, <1>8, <1>9 DEF Next, Step

\* The invariant the others rest on: every variable keeps to its type, and every
\* link between a call and what it made at the conductor names that call.
THEOREM Invariance == Spec => []IInv
<1>1. Init => IInv
  BY InitTyped, InitLinks DEF IInv
<1>2. IInv /\ [Next]_vars => IInv'
  BY NextKeepsIInv, Stutters
<1>3. QED
  BY <1>1, <1>2, PTL DEF Spec

\* Every variable keeps to its type.
THEOREM TypeCorrect == Spec => []TypeOK
<1>1. IInv => TypeOK
  BY DEF IInv
<1>2. QED
  BY <1>1, Invariance, PTL

\* A terminal final_status is the status of the call's workflow for good, and ok
\* says whether it is COMPLETED.
THEOREM VerdictsAreTrue == Spec => []TerminalVerdictIsTrue
<1>1. IInv => TerminalVerdictIsTrue
  BY DEF IInv, Links, TrueStatus, TerminalVerdictIsTrue
<1>2. QED
  BY <1>1, Invariance, PTL

\* ok=True is said only of the call's own workflow, completed by its own event.
THEOREM YesIsOwn == Spec => []YesOnlyByOwnEvent
<1>1. IInv => YesOnlyByOwnEvent
  BY DEF IInv, Links, TrueStatus, OwnWebhook, YesOnlyByOwnEvent, Terminal
<1>2. QED
  BY <1>1, Invariance, PTL

\* No event precedes the workflow it is for, or reaches a webhook that names another.
THEOREM EventsComeLater == Spec => []EventAfterStart
<1>1. IInv => EventAfterStart
  BY DEF IInv, TypeOK, Links, OwnWebhook, OwnEvents, EventAfterStart
<1>2. QED
  BY <1>1, Invariance, PTL

-----------------------------------------------------------------------------
(* Scenario implements EndToEnd.                                           *)

\* The first answer of an admitted call is the promise's Tell.
LEMMA AnswerTells ==
  ASSUME IInv, NEW c \in Calls, NEW a \in Answers, Return(c, a),
         pc[c] \notin {"idle", "answered"}, UNCHANGED Completed,
         a.http = 200 /\ a.ok => c \in Completed
  PROVE  Promise!Next
<1> DEFINE v == IF a.http # 200 THEN "broken" ELSE IF a.ok THEN "yes" ELSE "no"
<1>1. UNCHANGED Asked
  BY DEF IInv, TypeOK, Return, Asked
<1>2. c \in Asked
  BY DEF Asked
<1>3. Told[c] = "none"
  <2>1. answer[c] = None
    BY DEF IInv, Links, TrueStatus
  <2>2. QED
    BY <2>1 DEF Told, Verdict
<1>4. Told' = [Told EXCEPT ![c] = v]
  <2>1. answer' = [answer EXCEPT ![c] = a] /\ DOMAIN answer = Calls /\ a # None
    BY NoneApart DEF IInv, TypeOK, Return
  <2>2. Verdict(c)' = v
    BY <2>1 DEF Verdict
  <2>3. \A d \in Calls \ {c} : Verdict(d)' = Verdict(d)
    BY <2>1 DEF Verdict
  <2> HIDE DEF v
  <2>4. Told' = [d \in Calls |-> IF d = c THEN v ELSE Verdict(d)]
    BY <2>2, <2>3, Zenon DEF Told
  <2>5. [Told EXCEPT ![c] = v] = [d \in Calls |-> IF d = c THEN v ELSE Verdict(d)]
    BY DEF Told
  <2>6. QED
    BY <2>4, <2>5
<1>5. v \in {"yes", "no", "broken"} /\ (v = "yes" => c \in Completed)
  OBVIOUS
<1>6. Promise!Tell(c, v)
  BY <1>1, <1>2, <1>3, <1>4, <1>5 DEF Promise!Tell
<1>7. QED
  BY <1>5, <1>6 DEF Promise!Next

\* A step between two answers is none of the promise's.
LEMMA OnwardStutters ==
  ASSUME IInv, NEW c \in Calls, NEW next \in Labels \ {"idle"}, Goto(c, next), pc[c] # "idle"
  PROVE  UNCHANGED <<Asked, Told>>
  BY DEF IInv, TypeOK, Goto, Asked, Told, Verdict

LEMMA RaiseTells ==
  ASSUME IInv, NEW c \in Calls, NEW reply, Raise(c, reply),
         pc[c] \notin {"idle", "answered"}, UNCHANGED Completed
  PROVE  Promise!Next
<1>1. Bare(500) \in Answers /\ ~ Bare(500).ok
  BY BareTyped DEF Bare
<1>2. /\ Response(c, FALSE, "ERROR", phases[c], delivery[c]) \in Answers
      /\ ~ Response(c, FALSE, "ERROR", phases[c], delivery[c]).ok
  <2>1. Response(c, FALSE, "ERROR", phases[c], delivery[c]) \in Answers
    BY ResponseTyped DEF IInv, TypeOK, Finals
  <2>2. QED
    BY <2>1 DEF Response
<1>3. QED
  BY <1>1, <1>2, AnswerTells DEF Raise

LEMMA ProceedTells ==
  ASSUME IInv, NEW c \in Calls, NEW reply, NEW next \in Labels \ {"idle"},
         Proceed(c, reply, next), pc[c] \notin {"idle", "answered"}, UNCHANGED Completed
  PROVE  Promise!Next \/ UNCHANGED <<Asked, Completed, Told>>
  BY RaiseTells, OnwardStutters DEF Proceed

LEMMA ConcludeTells ==
  ASSUME IInv, NEW c \in Calls, NEW status \in Statuses \cup {"UNKNOWN"}, Conclude(c, status),
         pc[c] = "poll", UNCHANGED Completed, status \in Terminal => flows[c].status = status
  PROVE  Promise!Next
<1> DEFINE a == Response(c, status = "COMPLETED", status,
                         phases[c] \cup {"poll_to_complete"}, delivery[c])
<1>1. a \in Answers
  <2>1. phases[c] \cup {"poll_to_complete"} \in SUBSET PhaseNames
    BY DEF IInv, TypeOK, PhaseNames
  <2>2. QED
    BY <2>1, ResponseTyped DEF IInv, TypeOK, Finals
<1>2. answer'[c] = a /\ Return(c, a)
  BY DEF IInv, TypeOK, Conclude, Return
<1>3. a.ok => c \in Completed
  <2>1. a.ok => status = "COMPLETED"
    BY <1>2, ConcludeAnswer DEF IInv
  <2>2. status = "COMPLETED" => flows[c].status = "COMPLETED" /\ flows[c].by = c
    BY DEF Terminal, IInv, Links, OwnWebhook
  <2>3. QED
    BY <2>1, <2>2 DEF Completed
<1>4. QED
  BY <1>1, <1>2, <1>3, AnswerTells

LEMMA ArrivalAsks ==
  ASSUME IInv, NEW c \in Calls, NEW r \in Requests, WaitForWebhook(c, r)
  PROVE  Promise!Next
<1>1. /\ c \notin Asked
      /\ Asked' = Asked \cup {c}
      /\ UNCHANGED Completed
  BY DEF IInv, TypeOK, WaitForWebhook, Return, Goto, Asked, Completed, conductorVars
<1>2. CASE Goto(c, "register_wf")
  <2>1. UNCHANGED Told
    BY <1>2 DEF Goto, Told, Verdict
  <2>2. QED
    BY <1>1, <2>1 DEF Promise!Next, Promise!Ask
<1>3. ASSUME NEW http \in {400, 401}, Return(c, Bare(http))
      PROVE  Promise!Next
  <2>1. answer' = [answer EXCEPT ![c] = Bare(http)] /\ DOMAIN answer = Calls
    BY <1>3 DEF Return, IInv, TypeOK
  <2>2. Bare(http) # None /\ Bare(http).http # 200
    <3>1. Bare(http) \in Answers
      BY BareTyped
    <3>2. Bare(http) # None
      BY <3>1, NoneApart
    <3>3. Bare(http).http # 200
      BY DEF Bare
    <3>4. QED
      BY <3>2, <3>3
  <2>3. Told' = [d \in Calls |-> IF d = c THEN "broken" ELSE Verdict(d)]
    BY <2>1, <2>2 DEF Told, Verdict
  <2>4. [Told EXCEPT ![c] = "broken"] = [d \in Calls |-> IF d = c THEN "broken" ELSE Verdict(d)]
    BY DEF Told
  <2>5. QED
    BY <1>1, <2>3, <2>4 DEF Promise!Next, Promise!TurnAway
<1>4. QED
  BY <1>2, <1>3 DEF WaitForWebhook

LEMMA ConductorCompletes ==
  ASSUME IInv, ConductorNext, UNCHANGED callVars
  PROVE  Promise!Next \/ UNCHANGED <<Asked, Completed, Told>>
<1> USE FreshIds
<1>1. UNCHANGED <<Asked, Told>>
  BY DEF callVars, Asked, Told, Verdict
<1>2. ASSUME NEW w \in Flows, RegisterWait(w) \/ Abort(w) PROVE UNCHANGED Completed
  <2>1. \A c \in Calls : /\ flows'[c].by = flows[c].by
                         /\ flows'[c].status = "COMPLETED" <=> flows[c].status = "COMPLETED"
    <3>1. CASE RegisterWait(w)
      BY <3>1 DEF IInv, TypeOK, RegisterWait, Instances
    <3>2. CASE Abort(w)
      BY <3>2 DEF IInv, TypeOK, Abort, Instances
    <3>3. QED
      BY <1>2, <3>1, <3>2
  <2>2. QED
    BY <2>1 DEF Completed
<1>3. ASSUME NEW e \in queue, Dispatch(e) PROVE Promise!Complete
  <2>1. \A w \in Calls : flows[w].status = "COMPLETED" => flows'[w] = flows[w]
    BY <1>3 DEF Dispatch, Matched
  <2>2. Completed \subseteq Completed'
    BY <2>1 DEF Completed
  <2>3. Completed' \subseteq Asked
    <3> SUFFICES ASSUME NEW c \in Completed' PROVE c \in Asked
      OBVIOUS
    <3>1. c \in Calls /\ flows'[c].status = "COMPLETED"
      BY DEF Completed
    <3>2. flows[c].status # "ABSENT"
      BY <1>3, <3>1 DEF Dispatch, Matched
    <3>3. QED
      BY <3>1, <3>2 DEF IInv, Links, OwnIds, Asked
  <2>4. QED
    BY <1>1, <2>2, <2>3 DEF Promise!Complete
<1>4. QED
  BY <1>1, <1>2, <1>3 DEF ConductorNext, Promise!Next

LEMMA StepKeepsPromise ==
  ASSUME IInv, IInv', Next
  PROVE  Promise!Next \/ UNCHANGED <<Asked, Completed, Told>>
<1> USE DEF IInv
<1>1. ASSUME NEW c \in Calls, NEW r \in Requests, WaitForWebhook(c, r)
      PROVE  Promise!Next
  BY <1>1, ArrivalAsks
<1>2. ASSUME NEW c \in Calls, RegisterWorkflow(c)
      PROVE  Promise!Next \/ UNCHANGED <<Asked, Completed, Told>>
  BY <1>2, ProceedTells DEF RegisterWorkflow, Completed, Labels
<1>3. ASSUME NEW c \in Calls, RegisterWebhook(c)
      PROVE  Promise!Next \/ UNCHANGED <<Asked, Completed, Told>>
  BY <1>3, ProceedTells DEF RegisterWebhook, Completed, Labels
<1>4. ASSUME NEW c \in Calls, StartWorkflow(c)
      PROVE  Promise!Next \/ UNCHANGED <<Asked, Completed, Told>>
  <2>1. flows[c].status = "ABSENT" /\ c \in Calls
    BY <1>4 DEF Links, OwnIds, StartWorkflow
  <2>2. UNCHANGED Completed
    BY <1>4, <2>1 DEF TypeOK, StartWorkflow, StartFlow, StartInstance, RunId, Completed
  <2>3. QED
    BY <1>4, <2>2, ProceedTells DEF StartWorkflow, Labels
<1>5. ASSUME NEW c \in Calls, SigningRaises(c)
      PROVE  Promise!Next
  <2>1. Bare(500) \in Answers /\ ~ Bare(500).ok
    BY BareTyped DEF Bare
  <2>2. QED
    BY <1>5, <2>1, AnswerTells DEF SigningRaises, Completed, conductorVars
<1>6. ASSUME NEW c \in Calls, Fire(c)
      PROVE  Promise!Next \/ UNCHANGED <<Asked, Completed, Told>>
  <2> DEFINE refused == Response(c, FALSE, "DELIVERY_FAILED", phases[c] \cup {"fire"}, "status")
  <2>1. UNCHANGED Completed /\ pc[c] = "fire"
    BY <1>6 DEF Fire, Completed
  <2>2. Bare(500) \in Answers /\ ~ Bare(500).ok
    BY BareTyped DEF Bare
  <2>3. refused \in Answers
    BY ResponseTyped DEF TypeOK, Finals, PhaseNames
  <2>4. ~ refused.ok
    BY DEF Response
  <2>5. Goto(c, "poll") \/ Return(c, refused) \/ Return(c, Bare(500))
    BY <1>6 DEF Fire
  <2>6. QED
    BY <2>1, <2>2, <2>3, <2>4, <2>5, AnswerTells, OnwardStutters DEF Labels
<1>7. ASSUME NEW c \in Calls, Poll(c)
      PROVE  Promise!Next \/ UNCHANGED <<Asked, Completed, Told>>
  <2>1. UNCHANGED Completed /\ pc[c] = "poll" /\ workflow_id[c] = c
    BY <1>7 DEF Poll, Completed, conductorVars, Links, OwnIds
  <2>2. ASSUME NEW reply, Raise(c, reply) PROVE Promise!Next
    BY <2>1, <2>2, RaiseTells
  <2>3. ASSUME NEW status \in {flows[c].status, "UNKNOWN"}, status \in Terminal,
               Conclude(c, status)
        PROVE  Promise!Next
    BY <2>1, <2>3, ConcludeTells DEF Statuses, Terminal
  <2>4. CASE Goto(c, "poll")
    BY <2>1, <2>4, OnwardStutters DEF Labels
  <2>5. QED
    BY <1>7, <2>1, <2>2, <2>3, <2>4 DEF Poll
<1>8. ASSUME NEW c \in Calls, DeadlinePasses(c)
      PROVE  Promise!Next
  <2>1. final[c] \in Statuses \cup {"UNKNOWN"}
    BY DEF TypeOK
  <2>2. final[c] \in Terminal => flows[c].status = final[c]
    BY DEF Links, TrueStatus
  <2>3. QED
    BY <1>8, <2>1, <2>2, ConcludeTells DEF DeadlinePasses, Completed, conductorVars
<1>9. ASSUME ConductorNext, UNCHANGED callVars
      PROVE  Promise!Next \/ UNCHANGED <<Asked, Completed, Told>>
  BY <1>9, ConductorCompletes
<1>10. QED
  BY <1>1, <1>2, <1>3, <1>4, <1>5, <1>6, <1>7, <1>8, <1>9 DEF Next, Step

\* The endpoint keeps its promise: one verdict per call, given once, and yes only
\* when the call's own event completed the call's own workflow.
THEOREM ScenarioKeepsPromise == Spec => KeepsPromise
<1>1. Init => Promise!Init
  BY FreshIds DEF Init, ConductorInit, Absent, Promise!Init, Asked, Completed, Told, Verdict
<1>2. IInv /\ IInv' /\ [Next]_vars => [Promise!Next]_<<Asked, Completed, Told>>
  <2>1. UNCHANGED vars => UNCHANGED <<Asked, Completed, Told>>
    BY DEF vars, callVars, conductorVars, Asked, Completed, Told, Verdict
  <2>2. QED
    BY <2>1, StepKeepsPromise
<1>3. QED
  BY <1>1, <1>2, Invariance, PTL DEF Spec, KeepsPromise, Promise!Spec

-----------------------------------------------------------------------------
(* The phases of an answer took place: a call times a phase only once the  *)
(* conductor holds what the phase made, and nothing undoes it.             *)

\* What the phases P vouch for, of a call that learnt these ids and this reply.
Real(c, P, wid, fid, reply) ==
  /\ "register_wf"      \in P => defs[c] = req[c].matches
  /\ "register_webhook" \in P => "register_wf" \in P /\ wid = c /\ hooks[c] = Config(c)
  /\ "start_workflow"   \in P => /\ "register_webhook" \in P
                                 /\ fid = c
                                 /\ flows[c].status # "ABSENT"
                                 /\ flows[c].matches = req[c].matches
  /\ "fire"             \in P => "start_workflow" \in P /\ reply # None
  /\ "poll_to_complete" \in P => reply = "2xx"

\* Where a call is says which phases it has timed at least.
Reached(c) ==
  /\ pc[c] \in {"idle", "register_wf"} => phases[c] = {}
  /\ pc[c] = "register_webhook" => "register_wf" \in phases[c]
  /\ pc[c] = "start_workflow" => "register_webhook" \in phases[c]
  /\ pc[c] = "fire" => "start_workflow" \in phases[c]
  /\ pc[c] = "poll" => "fire" \in phases[c] /\ delivery[c] = "2xx"
  /\ pc[c] # "answered" => "poll_to_complete" \notin phases[c]

Timed(c) ==
  /\ Real(c, phases[c], webhook_id[c], workflow_id[c], delivery[c])
  /\ Answered(c) => Real(c, answer[c].phases, answer[c].webhook_id,
                         answer[c].workflow_id, answer[c].delivery)
  /\ Reached(c)

AllTimed == \A c \in Calls : Timed(c)

LEMMA OthersTimed ==
  ASSUME NEW d \in Calls, Timed(d),
         pc'[d] = pc[d], req'[d] = req[d], webhook_id'[d] = webhook_id[d],
         workflow_id'[d] = workflow_id[d], delivery'[d] = delivery[d],
         phases'[d] = phases[d], answer'[d] = answer[d], defs'[d] = defs[d],
         hooks'[d] = hooks[d],
         flows'[d].matches = flows[d].matches,
         flows[d].status # "ABSENT" => flows'[d].status # "ABSENT"
  PROVE  Timed(d)'
  BY DEF Timed, Real, Reached, Answered, Config, Secret, DefaultSecret, RunId

\* An error ends the call with the phases timed so far.
LEMMA RaiseTimed ==
  ASSUME IInv, NEW c \in Calls, Timed(c), NEW reply, Raise(c, reply),
         UNCHANGED <<webhook_id, workflow_id, delivery>>,
         Real(c, phases[c], webhook_id[c], workflow_id[c], delivery[c])'
  PROVE  Timed(c)'
<1>1. pc'[c] = "answered" /\ phases' = phases
  BY DEF IInv, TypeOK, Raise, Return
<1>2. CASE answer'[c] = Bare(500)
  <2>1. answer'[c].phases = {}
    BY <1>2 DEF Bare
  <2>2. QED
    BY <1>1, <2>1 DEF Timed, Real, Reached
<1>3. CASE answer'[c] = Response(c, FALSE, "ERROR", phases[c], delivery[c])
  <2>1. /\ answer'[c].phases = phases[c]
        /\ answer'[c].webhook_id = webhook_id[c]
        /\ answer'[c].workflow_id = workflow_id[c]
        /\ answer'[c].delivery = delivery[c]
    BY <1>3 DEF Response
  <2>2. QED
    BY <1>1, <2>1 DEF Timed, Real, Reached
<1>4. QED
  BY <1>2, <1>3 DEF IInv, TypeOK, Raise, Return

\* A phase is timed on the way to the next.
LEMMA ProceedTimed ==
  ASSUME IInv, NEW c \in Calls, Timed(c), NEW reply, NEW next, Proceed(c, reply, next),
         pc[c] # "answered", UNCHANGED delivery, Reached(c)' \/ reply # "2xx",
         reply = "2xx" \/ UNCHANGED <<webhook_id, workflow_id>>,
         Real(c, phases[c], webhook_id[c], workflow_id[c], delivery[c])'
  PROVE  Timed(c)'
<1>1. CASE Raise(c, reply)
  BY <1>1, RaiseTimed DEF Raise
<1>2. CASE reply = "2xx" /\ Goto(c, next)
  <2>1. ~ Answered(c)'
    BY <1>2 DEF IInv, Links, TrueStatus, Goto, Answered
  <2>2. QED
    BY <1>2, <2>1 DEF Timed
<1>3. QED
  BY <1>1, <1>2 DEF Proceed

\* What an exchange does to the call that makes it, and to no other.
LEMMA ProceedEffect ==
  ASSUME TypeOK, NEW c \in Calls, NEW reply, NEW next, Proceed(c, reply, next)
  PROVE  /\ reply = "2xx" => /\ phases'[c] = phases[c] \cup {pc[c]}
                             /\ pc'[c] = next
         /\ reply # "2xx" => phases' = phases /\ pc'[c] = "answered"
         /\ \A d \in Calls \ {c} : /\ pc'[d] = pc[d]
                                   /\ phases'[d] = phases[d]
                                   /\ answer'[d] = answer[d]
<1>1. CASE Raise(c, reply)
  BY <1>1 DEF TypeOK, Raise, Return
<1>2. CASE /\ reply = "2xx"
           /\ phases' = [phases EXCEPT ![c] = @ \cup {pc[c]}]
           /\ Goto(c, next)
  BY <1>2 DEF TypeOK, Goto
<1>3. QED
  BY <1>1, <1>2 DEF Proceed

LEMMA InitTimed == Init => AllTimed
  BY DEF Init, AllTimed, Timed, Real, Reached, Answered

LEMMA WaitForWebhookTimed ==
  ASSUME IInv, AllTimed, NEW c \in Calls, NEW r \in Requests, WaitForWebhook(c, r)
  PROVE  AllTimed'
<1>1. ASSUME NEW d \in Calls \ {c} PROVE Timed(d)'
  BY OthersTimed DEF IInv, TypeOK, AllTimed, WaitForWebhook, conductorVars, Return, Goto
<1>2. Timed(c)'
  <2>1. phases'[c] = {} /\ pc'[c] \in {"register_wf", "answered"}
    BY DEF IInv, TypeOK, AllTimed, Timed, Reached, WaitForWebhook, Return, Goto
  <2>2. answer[c] = None
    BY DEF IInv, Links, TrueStatus, WaitForWebhook
  <2>3. Answered(c)' => answer'[c].phases = {}
    BY <2>2 DEF IInv, TypeOK, Answered, WaitForWebhook, Return, Goto, Bare
  <2>4. QED
    BY <2>1, <2>3 DEF Timed, Real, Reached
<1>3. QED
  BY <1>1, <1>2 DEF AllTimed

LEMMA RegisterWorkflowTimed ==
  ASSUME IInv, AllTimed, NEW c \in Calls, RegisterWorkflow(c)
  PROVE  AllTimed'
<1>1. ASSUME NEW d \in Calls \ {c} PROVE Timed(d)'
  BY OthersTimed, ProceedEffect DEF IInv, TypeOK, AllTimed, RegisterWorkflow, PutDef, RunId
<1>2. Timed(c)'
  <2>1. PICK reply \in {"2xx", "status", "lost"} :
          /\ PutDef(c, req[c].matches) \/ MayBeUnapplied(reply)
          /\ Proceed(c, reply, "register_webhook")
    BY DEF RegisterWorkflow, RunId
  <2>2. phases[c] = {} /\ Timed(c) /\ UNCHANGED <<req, webhook_id, workflow_id, delivery>>
    BY DEF AllTimed, Timed, Reached, RegisterWorkflow
  <2>3. phases'[c] \subseteq {"register_wf"}
    BY <2>1, <2>2, ProceedEffect DEF IInv, RegisterWorkflow
  <2>4. "register_wf" \in phases'[c] => reply = "2xx"
    BY <2>1, <2>2 DEF Proceed, Raise
  <2>5. reply = "2xx" => defs'[c] = req[c].matches
    BY <2>1 DEF PutDef, MayBeUnapplied, IInv, TypeOK
  <2>6. Real(c, phases[c], webhook_id[c], workflow_id[c], delivery[c])'
    BY <2>2, <2>3, <2>4, <2>5 DEF Real
  <2>7. Reached(c)' \/ reply # "2xx"
    BY <2>1, <2>2, <2>3, ProceedEffect DEF IInv, RegisterWorkflow, Reached
  <2>8. QED
    BY <2>1, <2>2, <2>6, <2>7, ProceedTimed DEF RegisterWorkflow
<1>3. QED
  BY <1>1, <1>2 DEF AllTimed

LEMMA RegisterWebhookTimed ==
  ASSUME IInv, AllTimed, NEW c \in Calls, RegisterWebhook(c)
  PROVE  AllTimed'
<1>1. ASSUME NEW d \in Calls \ {c} PROVE Timed(d)'
  BY OthersTimed, ProceedEffect DEF IInv, TypeOK, AllTimed, RegisterWebhook, CreateHook, RunId
<1>2. Timed(c)'
  <2>1. PICK reply \in {"2xx", "status", "lost", "malformed"} :
          /\ CreateHook(c, Config(c)) \/ (MayBeUnapplied(reply) /\ UNCHANGED hooks)
          /\ webhook_id' = IF reply = "2xx" THEN [webhook_id EXCEPT ![c] = c] ELSE webhook_id
          /\ Proceed(c, reply, "start_workflow")
    BY DEF RegisterWebhook, RunId
  <2>2. /\ Timed(c) /\ UNCHANGED <<defs, flows, req, workflow_id, delivery>>
        /\ pc[c] = "register_webhook" /\ "register_wf" \in phases[c]
    BY DEF AllTimed, Timed, Reached, RegisterWebhook
  <2>3. Config(c)' = Config(c)
    BY <2>2 DEF Config, Secret, DefaultSecret
  <2>4. reply = "2xx" \/ hooks[c] = Config(c) => hooks'[c] = Config(c)
    BY <2>1 DEF CreateHook, MayBeUnapplied, IInv, TypeOK
  <2>5. /\ reply = "2xx" => webhook_id'[c] = c
        /\ reply # "2xx" => webhook_id' = webhook_id
    BY <2>1 DEF IInv, TypeOK
  <2>6. /\ reply = "2xx" => /\ phases'[c] = phases[c] \cup {"register_webhook"}
                            /\ pc'[c] = "start_workflow"
        /\ reply # "2xx" => phases' = phases
    BY <2>1, <2>2, ProceedEffect DEF IInv
  <2> HIDE DEF Config
  <2>7. Real(c, phases[c], webhook_id[c], workflow_id[c], delivery[c])'
    <3>1. CASE reply = "2xx"
      BY <3>1, <2>2, <2>3, <2>4, <2>5, <2>6 DEF Timed, Real
    <3>2. CASE reply # "2xx"
      BY <3>2, <2>2, <2>3, <2>4, <2>5, <2>6 DEF Timed, Real
    <3>3. QED
      BY <3>1, <3>2
  <2>8. Reached(c)' \/ reply # "2xx"
    BY <2>2, <2>6 DEF Timed, Reached
  <2>9. QED
    BY <2>1, <2>2, <2>5, <2>7, <2>8, ProceedTimed
<1>3. QED
  BY <1>1, <1>2 DEF AllTimed

LEMMA StartWorkflowTimed ==
  ASSUME IInv, AllTimed, NEW c \in Calls, StartWorkflow(c)
  PROVE  AllTimed'
<1>1. ASSUME NEW d \in Calls \ {c} PROVE Timed(d)'
  BY OthersTimed, ProceedEffect DEF IInv, TypeOK, AllTimed, StartWorkflow, StartFlow,
     StartInstance, RunId
<1>2. Timed(c)'
  <2>1. PICK reply \in {"2xx", "status", "lost"} :
          /\ StartFlow(c, c) \/ (MayBeUnapplied(reply) /\ UNCHANGED flows)
          /\ workflow_id' = IF reply = "2xx" THEN [workflow_id EXCEPT ![c] = c] ELSE workflow_id
          /\ Proceed(c, reply, "fire")
    BY DEF StartWorkflow, RunId
  <2>2. /\ Timed(c) /\ UNCHANGED <<defs, hooks, req, webhook_id, delivery>>
        /\ pc[c] = "start_workflow" /\ "register_webhook" \in phases[c]
    BY DEF AllTimed, Timed, Reached, StartWorkflow
  <2>3. Config(c)' = Config(c)
    BY <2>2 DEF Config, Secret, DefaultSecret
  <2>4. "start_workflow" \notin phases[c] /\ defs[c] = req[c].matches
    BY <2>2 DEF Timed, Real, IInv, Links, OwnIds
  <2>5. reply = "2xx" => flows'[c].matches = defs[c] /\ flows'[c].status = "RUNNING"
    BY <2>1 DEF StartFlow, StartInstance, MayBeUnapplied, IInv, TypeOK
  <2>6. /\ reply = "2xx" => workflow_id'[c] = c
        /\ reply # "2xx" => workflow_id' = workflow_id
    BY <2>1 DEF IInv, TypeOK
  <2>7. /\ reply = "2xx" => phases'[c] = phases[c] \cup {"start_workflow"} /\ pc'[c] = "fire"
        /\ reply # "2xx" => phases' = phases
    BY <2>1, <2>2, ProceedEffect DEF IInv
  <2>8. Real(c, phases[c], webhook_id[c], workflow_id[c], delivery[c])'
    <3>1. CASE reply = "2xx"
      BY <3>1, <2>2, <2>3, <2>4, <2>5, <2>6, <2>7 DEF Timed, Real
    <3>2. CASE reply # "2xx"
      BY <3>2, <2>2, <2>3, <2>4, <2>6, <2>7 DEF Timed, Real
    <3>3. QED
      BY <3>1, <3>2
  <2>9. Reached(c)' \/ reply # "2xx"
    BY <2>2, <2>7 DEF Timed, Reached
  <2>10. QED
    BY <2>1, <2>2, <2>6, <2>8, <2>9, ProceedTimed
<1>3. QED
  BY <1>1, <1>2 DEF AllTimed
LEMMA SigningRaisesTimed ==
  ASSUME IInv, AllTimed, NEW c \in Calls, SigningRaises(c)
  PROVE  AllTimed'
<1>1. ASSUME NEW d \in Calls \ {c} PROVE Timed(d)'
  BY OthersTimed DEF IInv, TypeOK, AllTimed, SigningRaises, conductorVars, Return
<1>2. Timed(c)'
  <2>1. answer'[c].phases = {} /\ pc'[c] = "answered"
    BY DEF IInv, TypeOK, SigningRaises, Return, Bare
  <2>2. /\ Timed(c)
        /\ UNCHANGED <<defs, hooks, flows, req, webhook_id, workflow_id, delivery, phases>>
    BY DEF AllTimed, SigningRaises, conductorVars
  <2>3. Real(c, phases[c], webhook_id[c], workflow_id[c], delivery[c])'
    BY <2>2 DEF Timed, Real, Config, Secret, DefaultSecret
  <2>4. QED
    BY <2>1, <2>3 DEF Timed, Real, Reached
<1>3. QED
  BY <1>1, <1>2 DEF AllTimed

\* A call's move is its own, to its answer or to its next exchange.
LEMMA MoveEffect ==
  ASSUME TypeOK, NEW c \in Calls
  PROVE  /\ \A a : Return(c, a) =>
              /\ pc'[c] = "answered" /\ answer'[c] = a
              /\ \A d \in Calls \ {c} : pc'[d] = pc[d] /\ answer'[d] = answer[d]
         /\ \A next : Goto(c, next) =>
              /\ pc'[c] = next /\ answer'[c] = answer[c]
              /\ \A d \in Calls \ {c} : pc'[d] = pc[d] /\ answer'[d] = answer[d]
  BY DEF TypeOK, Return, Goto

LEMMA FireTimed ==
  ASSUME IInv, AllTimed, NEW c \in Calls, Fire(c)
  PROVE  AllTimed'
<1> DEFINE refused == Response(c, FALSE, "DELIVERY_FAILED", phases[c] \cup {"fire"}, "status")
<1>1. PICK reply \in {"2xx", "status", "lost"} :
        /\ \/ reply = "2xx" /\ Goto(c, "poll")
           \/ reply = "status" /\ Return(c, refused)
           \/ reply = "lost" /\ Return(c, Bare(500))
        /\ IF reply = "lost"
           THEN UNCHANGED <<phases, delivery>>
           ELSE /\ phases' = [phases EXCEPT ![c] = @ \cup {"fire"}]
                /\ delivery' = [delivery EXCEPT ![c] = reply]
  BY DEF Fire
<1>2. /\ pc[c] = "fire" /\ UNCHANGED <<defs, hooks, flows, req, webhook_id, workflow_id>>
      /\ answer[c] = None /\ webhook_id[c] = c /\ workflow_id[c] = c
  BY DEF IInv, Links, OwnIds, TrueStatus, Fire
<1>3. ASSUME NEW d \in Calls \ {c} PROVE Timed(d)'
  <2>1. pc'[d] = pc[d] /\ answer'[d] = answer[d]
    BY <1>1, <1>3, MoveEffect DEF IInv
  <2>2. phases'[d] = phases[d] /\ delivery'[d] = delivery[d]
    BY <1>1 DEF IInv, TypeOK
  <2>3. QED
    BY <1>2, <2>1, <2>2, OthersTimed DEF AllTimed
<1>4. Timed(c)'
  <2>1. /\ Timed(c) /\ "start_workflow" \in phases[c] /\ "poll_to_complete" \notin phases[c]
    BY <1>2 DEF AllTimed, Timed, Reached
  <2>2. Config(c)' = Config(c)
    BY <1>2 DEF Config, Secret, DefaultSecret
  <2>3. /\ reply = "lost" => phases'[c] = phases[c] /\ delivery'[c] = delivery[c]
        /\ reply # "lost" => phases'[c] = phases[c] \cup {"fire"} /\ delivery'[c] = reply
    BY <1>1 DEF IInv, TypeOK
  <2>4. /\ reply = "2xx" => pc'[c] = "poll" /\ answer'[c] = None
        /\ reply = "status" => pc'[c] = "answered" /\ answer'[c] = refused
        /\ reply = "lost" => pc'[c] = "answered" /\ answer'[c] = Bare(500)
    <3> HIDE DEF refused
    <3>1. CASE reply = "2xx"
      BY <1>1, <1>2, <3>1, MoveEffect DEF IInv
    <3>2. CASE reply = "status"
      BY <1>1, <3>2, MoveEffect DEF IInv
    <3>3. CASE reply = "lost"
      BY <1>1, <3>3, MoveEffect DEF IInv
    <3>4. QED
      BY <3>1, <3>2, <3>3
  <2>5. reply # "lost" => reply # None
    BY NoneApart
  <2>6. /\ refused.phases = phases[c] \cup {"fire"} /\ refused.delivery = "status"
        /\ refused.webhook_id = c /\ refused.workflow_id = c
        /\ Bare(500).phases = {}
    BY <1>2 DEF Response, Bare
  <2> HIDE DEF refused
  <2>7. Real(c, phases[c], webhook_id[c], workflow_id[c], delivery[c])'
    <3>1. CASE reply = "lost"
      BY <3>1, <1>2, <2>1, <2>2, <2>3 DEF Timed, Real
    <3>2. CASE reply # "lost"
      BY <3>2, <1>2, <2>1, <2>2, <2>3, <2>5 DEF Timed, Real
    <3>3. QED
      BY <3>1, <3>2
  <2>8. Reached(c)'
    BY <2>1, <2>3, <2>4 DEF Reached
  <2>9. Answered(c)' => Real(c, answer[c].phases, answer[c].webhook_id,
                             answer[c].workflow_id, answer[c].delivery)'
    <3>1. CASE reply = "2xx"
      BY <3>1, <2>4 DEF Answered
    <3>2. CASE reply = "status"
      BY <3>2, <1>2, <2>3, <2>4, <2>6, <2>7
    <3>3. CASE reply = "lost"
      BY <3>3, <2>4, <2>6 DEF Real
    <3>4. QED
      BY <3>1, <3>2, <3>3
  <2>10. QED
    BY <2>7, <2>8, <2>9 DEF Timed
<1>5. QED
  BY <1>3, <1>4 DEF AllTimed

\* The last phase is that of a call whose delivery was accepted.
LEMMA ConcludeTimed ==
  ASSUME IInv, AllTimed, NEW c \in Calls, NEW status, Conclude(c, status), pc[c] = "poll",
         UNCHANGED <<conductorVars, req, webhook_id, workflow_id, delivery>>
  PROVE  AllTimed'
<1> DEFINE P == phases[c] \cup {"poll_to_complete"}
           a == Response(c, status = "COMPLETED", status, P, delivery[c])
<1>1. ASSUME NEW d \in Calls \ {c} PROVE Timed(d)'
  BY OthersTimed DEF IInv, TypeOK, AllTimed, Conclude, conductorVars, Return
<1>2. Timed(c)'
  <2>1. phases'[c] = P /\ pc'[c] = "answered" /\ answer'[c] = a
    BY DEF IInv, TypeOK, Conclude, Return
  <2>2. /\ a.phases = P /\ a.webhook_id = webhook_id[c]
        /\ a.workflow_id = workflow_id[c] /\ a.delivery = delivery[c]
    BY DEF Response
  <2>3. Timed(c) /\ delivery[c] = "2xx" /\ UNCHANGED <<defs, hooks, flows>>
    BY DEF AllTimed, Timed, Reached, conductorVars
  <2>4. Config(c)' = Config(c)
    BY DEF Config, Secret, DefaultSecret
  <2> HIDE DEF a
  <2>5. Real(c, phases[c], webhook_id[c], workflow_id[c], delivery[c])'
    BY <2>1, <2>3, <2>4 DEF Timed, Real
  <2>6. QED
    BY <2>1, <2>2, <2>5 DEF Timed, Reached
<1>3. QED
  BY <1>1, <1>2 DEF AllTimed

LEMMA PollTimed ==
  ASSUME IInv, AllTimed, NEW c \in Calls, Poll(c)
  PROVE  AllTimed'
<1>1. /\ pc[c] = "poll"
      /\ UNCHANGED <<conductorVars, defs, hooks, flows, req, webhook_id, workflow_id, delivery>>
  BY DEF Poll, conductorVars
<1>2. ASSUME NEW status, Conclude(c, status) PROVE AllTimed'
  BY <1>1, <1>2, ConcludeTimed
<1>3. CASE Goto(c, "poll") /\ UNCHANGED phases
  <2>1. pc' = pc /\ answer' = answer
    BY <1>1, <1>3 DEF IInv, TypeOK, Goto
  <2>2. QED
    BY <1>1, <1>3, <2>1, OthersTimed DEF AllTimed
<1>4. ASSUME NEW reply, Raise(c, reply) PROVE AllTimed'
  <2>1. ASSUME NEW d \in Calls \ {c} PROVE Timed(d)'
    BY <1>1, <1>4, OthersTimed DEF IInv, TypeOK, AllTimed, Raise, Return
  <2>2. Real(c, phases[c], webhook_id[c], workflow_id[c], delivery[c])'
    BY <1>1, <1>4 DEF AllTimed, Timed, Real, Raise, Config, Secret, DefaultSecret
  <2>3. Timed(c)'
    BY <1>1, <1>4, <2>2, RaiseTimed DEF AllTimed
  <2>4. QED
    BY <2>1, <2>3 DEF AllTimed
<1>5. QED
  BY <1>2, <1>3, <1>4 DEF Poll

LEMMA DeadlinePassesTimed ==
  ASSUME IInv, AllTimed, NEW c \in Calls, DeadlinePasses(c)
  PROVE  AllTimed'
  BY ConcludeTimed DEF DeadlinePasses

\* The conductor keeps what it was given: no step of its own removes an instance or
\* changes what it waits for.
LEMMA ConductorTimed ==
  ASSUME IInv, AllTimed, ConductorNext, UNCHANGED callVars
  PROVE  AllTimed'
<1> USE FreshIds
<1>1. /\ UNCHANGED <<defs, hooks>>
      /\ \A w \in Calls : /\ flows'[w].matches = flows[w].matches
                          /\ flows[w].status # "ABSENT" => flows'[w].status # "ABSENT"
  <2>1. ASSUME NEW w \in Flows, RegisterWait(w) PROVE <1>1!1 /\ <1>1!2
    BY <2>1 DEF IInv, TypeOK, Instances, RegisterWait
  <2>2. ASSUME NEW w \in Flows, Abort(w) PROVE <1>1!1 /\ <1>1!2
    BY <2>2 DEF IInv, TypeOK, Instances, Abort, Terminal
  <2>3. ASSUME NEW e \in queue, Dispatch(e) PROVE <1>1!1 /\ <1>1!2
    <3>1. ASSUME NEW w \in Calls
          PROVE  /\ flows'[w].matches = flows[w].matches
                 /\ flows[w].status # "ABSENT" => flows'[w].status # "ABSENT"
      <4>1. flows[w] \in Instances
        BY DEF IInv, TypeOK
      <4>2. \/ flows'[w] = flows[w]
            \/ flows'[w] = [flows[w] EXCEPT !.status = "COMPLETED", !.by = e.by]
        BY <2>3 DEF Dispatch
      <4>3. QED
        BY <4>1, <4>2 DEF Instances
    <3>2. UNCHANGED <<defs, hooks>>
      BY <2>3 DEF Dispatch
    <3>3. QED
      BY <3>1, <3>2
  <2>4. QED
    BY <2>1, <2>2, <2>3 DEF ConductorNext
<1>2. ASSUME NEW d \in Calls PROVE Timed(d)'
  BY <1>1, OthersTimed DEF callVars, AllTimed
<1>3. QED
  BY <1>2 DEF AllTimed

LEMMA NextKeepsTimed ==
  ASSUME IInv, AllTimed, [Next]_vars
  PROVE  AllTimed'
<1>1. CASE UNCHANGED vars
  <2>1. ASSUME NEW d \in Calls PROVE Timed(d)'
    BY <1>1, OthersTimed DEF vars, callVars, conductorVars, AllTimed
  <2>2. QED
    BY <2>1 DEF AllTimed
<1>2. CASE Next
  BY <1>2, WaitForWebhookTimed, RegisterWorkflowTimed, RegisterWebhookTimed,
     StartWorkflowTimed, SigningRaisesTimed, FireTimed, PollTimed, DeadlinePassesTimed,
     ConductorTimed DEF Next, Step
<1>3. QED
  BY <1>1, <1>2

\* Every phase an answer times took place at the conductor, after the ones before it.
THEOREM PhasesTookPlace == Spec => []PhasesAreReal
<1>1. Init => AllTimed
  BY InitTimed
<1>2. IInv /\ AllTimed /\ [Next]_vars => AllTimed'
  BY NextKeepsTimed
<1>3. AllTimed => PhasesAreReal
  BY DEF AllTimed, Timed, Real, PhasesAreReal
<1>4. QED
  BY <1>1, <1>2, <1>3, Invariance, PTL DEF Spec

-----------------------------------------------------------------------------
(* Which well-formed requests are refused: what the call registers and     *)
(* what it signs are read from the same request.                           *)

\* A header set by the signer carries what was set.
LEMMA HeadersCarry ==
  ASSUME NEW name, NEW value
  PROVE  Carries(Headers({name}, value).headers, name, value)
  BY DEF Headers, Carries

\* The fields of what a call registers and of what it signs with.
LEMMA ConfigFields ==
  ASSUME NEW c
  PROVE  /\ Config(c).verifier = req[c].verifier
         /\ Config(c).headerKey = VendorHeaderKey(req[c].verifier)
         /\ Config(c).secretValue = Secret(c)
         /\ Config(c).headers = req[c].config_headers
         /\ Config(c).urlVerified = req[c].url_verified
  BY DEF Config

\* The event is sent with every header the signer made.
LEMMA SentCarries ==
  ASSUME NEW c, NEW name, NEW value, Carries(Signing(c).headers, name, value)
  PROVE  Carries(Sent(c), name, value)
  BY Zenon DEF Carries, Sent

\* The one exception of a signer that a well-formed request runs into.
LEMMA SignsUnlessUnsignable ==
  ASSUME NEW c, WellFormed(req[c])
  PROVE  Signing(c).result = "signed" <=> ~ Unsignable(c)
<1> DEFINE key == VendorHeaderKey(req[c].verifier)
           has == req[c].config_headers
           ctx == SigningContext(Secret(c), Payload(c), key,
                                 IF key \in DOMAIN has THEN has[key] ELSE "", "None")
           s   == Signing(c)
<1>1. s = Sign(req[c].verifier, ctx)
  BY DEF Signing
<1>2. ctx.secret = Secret(c)
  <2> DEFINE value == IF key \in DOMAIN has THEN has[key] ELSE ""
  <2> HIDE DEF key, value
  <2>1. QED
    BY DEF SigningContext
<1>3. \A names, value : Headers(names, value).result = "signed"
  BY DEF Headers
<1>4. \A a, b, value : Stamped(a, b, value).result = "signed"
  BY DEF Stamped
<1>5. \A x : Raises(x).result = x
  BY DEF Raises
<1> HIDE DEF ctx, s
<1> SUFFICES s.result = "signed" <=> ~ Unsignable(c)
  BY DEF s
<1>6. CASE req[c].verifier = "HMAC_BASED"
  <2>1. Secret(c).base64
    BY <1>6 DEF WellFormed, Secret, DefaultSecret
  <2>2. s = HmacBased(ctx)
    BY <1>1, <1>6, Zenon DEF Sign
  <2>3. QED
    BY <1>2, <1>3, <1>6, <2>1, <2>2 DEF HmacBased, Unsignable
<1>7. CASE req[c].verifier = "SENDGRID"
  <2>1. s = Sendgrid(ctx)
    BY <1>1, <1>7, Zenon DEF Sign
  <2>2. CASE CryptographyInstalled /\ Secret(c).pem
    BY <1>2, <1>4, <2>1, <2>2 DEF Sendgrid, Unsignable
  <2>3. CASE ~ (CryptographyInstalled /\ Secret(c).pem)
    BY <1>2, <1>5, <1>7, <2>1, <2>3 DEF Sendgrid, Unsignable
  <2>4. QED
    BY <2>2, <2>3
<1>8. CASE req[c].verifier = "HEADER_BASED"
  <2>1. s = HeaderBased(ctx)
    BY <1>1, <1>8, Zenon DEF Sign
  <2>2. QED
    BY <1>3, <1>8, <2>1 DEF HeaderBased, Unsignable
<1>9. CASE req[c].verifier = "SLACK_BASED"
  <2>1. s = SlackBased(ctx)
    BY <1>1, <1>9, Zenon DEF Sign
  <2>2. QED
    BY <1>4, <1>9, <2>1 DEF SlackBased, Unsignable
<1>10. CASE req[c].verifier = "STRIPE"
  <2>1. s = Stripe(ctx)
    BY <1>1, <1>10, Zenon DEF Sign
  <2>2. s.result = "signed"
    BY <1>3, <2>1, Zenon DEF Stripe
  <2>3. QED
    BY <1>10, <2>2 DEF Unsignable
<1>11. CASE req[c].verifier = "SIGNATURE_BASED"
  <2>1. s = SignatureBased(ctx)
    BY <1>1, <1>11, Zenon DEF Sign
  <2>2. QED
    BY <1>3, <1>11, <2>1 DEF SignatureBased, Unsignable
<1>12. CASE req[c].verifier = "TWITTER"
  <2>1. s = Twitter(ctx)
    BY <1>1, <1>12, Zenon DEF Sign
  <2>2. QED
    BY <1>3, <1>12, <2>1 DEF Twitter, Unsignable
<1>13. QED
  BY <1>6, <1>7, <1>8, <1>9, <1>10, <1>11, <1>12 DEF WellFormed, Verifiers

\* HEADER_BASED: every registered header is sent as registered, or is unsent.
LEMMA HeadersSentOrNot ==
  ASSUME NEW c, WellFormed(req[c]), req[c].verifier = "HEADER_BASED"
  PROVE  Verified(Config(c), Sent(c), Payload(c)) <=> Unsent(req[c]) = {}
<1> DEFINE has   == req[c].config_headers
           value == IF "X-Sig" \in DOMAIN has THEN has["X-Sig"] ELSE ""
           ctx   == SigningContext(Secret(c), Payload(c), "X-Sig", value, "None")
<1>1. Signing(c) = HeaderBased(ctx)
  <2>1. VendorHeaderKey(req[c].verifier) = "X-Sig"
    BY DEF VendorHeaderKey
  <2>2. Signing(c) = Sign("HEADER_BASED", ctx)
    BY <2>1 DEF Signing
  <2>3. QED
    BY <2>2, Zenon DEF Sign
<1>2. ctx.header_name = "X-Sig" /\ ctx.header_value = value
  <2> HIDE DEF value
  <2>1. QED
    BY DEF SigningContext
<1> HIDE DEF ctx, value
<1>3. Signing(c).headers = [h \in {"X-Sig"} |-> Literal(value)]
  BY <1>1, <1>2 DEF HeaderBased, Headers
<1>4. /\ DOMAIN Sent(c) = {"Content-Type", "X-Sig"}
      /\ Sent(c)["Content-Type"] = Literal("application/json")
      /\ Sent(c)["X-Sig"] = Literal(value)
  BY <1>3 DEF Sent
<1>5. \A x, y : Literal(x) = Literal(y) <=> x = y
  BY DEF Literal, Mac
<1>6. \A h \in DOMAIN has : Carries(Sent(c), h, Literal(has[h])) <=> h \notin Unsent(req[c])
  <2>1. SUFFICES ASSUME NEW h \in DOMAIN has
                 PROVE  Carries(Sent(c), h, Literal(has[h])) <=> h \notin Unsent(req[c])
    OBVIOUS
  <2>2. CASE h = "X-Sig"
    <3>1. value = has[h]
      BY <2>1, <2>2 DEF value
    <3>2. QED
      BY <1>4, <2>2, <3>1 DEF Carries, Unsent
  <2>3. CASE h = "Content-Type"
    <3>1. Carries(Sent(c), h, Literal(has[h])) <=> has[h] = "application/json"
      BY <1>4, <1>5, <2>3, Zenon DEF Carries
    <3>2. QED
      BY <2>1, <2>3, <3>1 DEF Unsent
  <2>4. CASE h \notin {"X-Sig", "Content-Type"}
    BY <1>4, <2>1, <2>4 DEF Carries, Unsent
  <2>5. QED
    BY <2>2, <2>3, <2>4
<1>7. /\ Config(c).verifier = "HEADER_BASED" /\ Config(c).headers = has
  BY ConfigFields
<1>8. DOMAIN has # {}
  BY DEF WellFormed
<1>9. Verified(Config(c), Sent(c), Payload(c)) <=>
        \A h \in DOMAIN has : Carries(Sent(c), h, Literal(has[h]))
  BY <1>7, <1>8, Zenon DEF Verified
<1>10. Unsent(req[c]) \subseteq DOMAIN has
  BY DEF Unsent
<1>11. QED
  BY <1>6, <1>9, <1>10

\* STRIPE: the signature verifies, so that the body's version decides.
LEMMA StripeVersionDecides ==
  ASSUME NEW c, req[c].verifier = "STRIPE"
  PROVE  Verified(Config(c), Sent(c), Payload(c)) <=> "api_version" \in Payload(c)
<1> DEFINE key == VendorHeaderKey(req[c].verifier)
           has == req[c].config_headers
           ctx == SigningContext(Secret(c), Payload(c), key,
                                 IF key \in DOMAIN has THEN has[key] ELSE "", "None")
<1>1. Signing(c) = Stripe(ctx)
  BY Zenon DEF Signing, Sign
<1>2. ctx.secret = Secret(c) /\ ctx.body = Payload(c) /\ Ts(ctx) = "now"
  <2> DEFINE value == IF key \in DOMAIN has THEN has[key] ELSE ""
  <2> HIDE DEF key, value
  <2>1. QED
    BY DEF SigningContext, Ts
<1> HIDE DEF ctx
<1>3. PICK scheme : /\ Signing(c) = Headers({"Stripe-Signature"},
                                             Mac(scheme, Secret(c).id, Payload(c), "now"))
                    /\ scheme = "t,v1=hex"
  BY <1>1, <1>2, Zenon DEF Stripe
<1>4. Carries(Sent(c), "Stripe-Signature", Mac(scheme, Secret(c).id, Payload(c), "now"))
  <2>1. Carries(Signing(c).headers, "Stripe-Signature",
                Mac(scheme, Secret(c).id, Payload(c), "now"))
    BY <1>3, HeadersCarry, Zenon
  <2>2. QED
    BY <2>1, SentCarries
<1>5. Config(c).verifier = "STRIPE" /\ Config(c).secretValue = Secret(c)
  BY ConfigFields
<1>6. QED
  BY <1>3, <1>4, <1>5, Zenon DEF Verified

\* The conductor acknowledges what it does not turn away.
LEMMA AcknowledgedUnlessTurnedAway ==
  ASSUME NEW c, WellFormed(req[c]), hooks[webhook_id[c]] = Config(c)
  PROVE  Acknowledged(c) <=> ~ TurnedAway(c)
<1> DEFINE key == VendorHeaderKey(req[c].verifier)
           has == req[c].config_headers
           ctx == SigningContext(Secret(c), Payload(c), key,
                                 IF key \in DOMAIN has THEN has[key] ELSE "", "None")
           g   == Config(c)
           s   == Signing(c)
           b   == Payload(c)
<1>1. s = Sign(req[c].verifier, ctx)
  BY DEF Signing
<1>2. ctx.secret = Secret(c) /\ ctx.body = b /\ ctx.header_name = key
  <2> DEFINE value == IF key \in DOMAIN has THEN has[key] ELSE ""
  <2> HIDE DEF key, value
  <2>1. QED
    BY DEF SigningContext
<1>3. /\ g.verifier = req[c].verifier /\ g.headerKey = key /\ g.secretValue = Secret(c)
      /\ g.headers = has /\ g.urlVerified = req[c].url_verified
  BY ConfigFields
<1>4. Acknowledged(c) <=> Verified(g, Sent(c), b) \/ req[c].verifier = "SENDGRID"
  BY Zenon DEF Acknowledged
<1>5. \A name, value : Carries(s.headers, name, value) => Carries(Sent(c), name, value)
  BY SentCarries
<1> HIDE DEF ctx, g, s, b
<1>6. CASE req[c].verifier = "HMAC_BASED"
  <2>1. Secret(c).base64
    BY <1>6 DEF WellFormed, Secret, DefaultSecret
  <2>2. s = Headers({key}, Mac("base64", Secret(c).id, b, "None"))
    <3>1. s = HmacBased(ctx)
      BY <1>1, <1>6, Zenon DEF Sign
    <3>2. QED
      BY <3>1, <2>1, <1>2 DEF HmacBased
  <2>3. Carries(Sent(c), g.headerKey, Mac("base64", g.secretValue.id, b, "None"))
    BY <2>2, <1>3, <1>5, HeadersCarry
  <2>4. Verified(g, Sent(c), b)
    BY <1>3, <1>6, <2>1, <2>3, Zenon DEF Verified
  <2>5. QED
    BY <1>4, <1>6, <2>4 DEF TurnedAway
<1>7. CASE req[c].verifier = "HEADER_BASED"
  BY <1>4, <1>7, HeadersSentOrNot DEF TurnedAway, g, b
<1>8. CASE req[c].verifier = "SLACK_BASED"
  <2>1. g.urlVerified
    BY <1>3, <1>8 DEF WellFormed
  <2>2. Verified(g, Sent(c), b)
    BY <1>3, <1>8, <2>1, Zenon DEF Verified
  <2>3. QED
    BY <1>4, <1>8, <2>2 DEF TurnedAway
<1>9. CASE req[c].verifier = "STRIPE"
  BY <1>4, <1>9, StripeVersionDecides DEF TurnedAway, g, b
<1>10. CASE req[c].verifier = "SIGNATURE_BASED"
  <2>1. s = SignatureBased(ctx)
    BY <1>1, <1>10, Zenon DEF Sign
  <2>2. s = Headers({key}, Mac("sha256=hex", Secret(c).id, b, "None"))
    BY <2>1, <1>2 DEF SignatureBased
  <2>3. Carries(Sent(c), g.headerKey, Mac("sha256=hex", g.secretValue.id, b, "None"))
    BY <2>2, <1>3, <1>5, HeadersCarry
  <2>4. Verified(g, Sent(c), b)
    BY <1>3, <1>10, <2>3, Zenon DEF Verified
  <2>5. QED
    BY <1>4, <1>10, <2>4 DEF TurnedAway
<1>11. CASE req[c].verifier = "TWITTER"
  <2>1. s = Twitter(ctx)
    BY <1>1, <1>11, Zenon DEF Sign
  <2>2. key = "x-twitter-webhooks-signature"
    BY <1>11 DEF VendorHeaderKey
  <2>3. s = Headers({key}, Mac("sha256=base64", Secret(c).id, b, "None"))
    BY <2>1, <2>2, <1>2 DEF Twitter
  <2>4. Carries(Sent(c), g.headerKey, Mac("sha256=base64", g.secretValue.id, b, "None"))
    BY <2>3, <1>3, <1>5, HeadersCarry
  <2>5. Verified(g, Sent(c), b)
    BY <1>3, <1>11, <2>4, Zenon DEF Verified
  <2>6. QED
    BY <1>4, <1>11, <2>5 DEF TurnedAway
<1>12. CASE req[c].verifier = "SENDGRID"
  BY <1>4, <1>12 DEF TurnedAway
<1>13. QED
  BY <1>6, <1>7, <1>8, <1>9, <1>10, <1>11, <1>12 DEF WellFormed, Verifiers

\* A well-formed request is polled only when it was neither unsignable nor turned away,
\* and what it is answered without a fault tells the three apart.
Welcome(c) ==
  /\ pc[c] = "poll" /\ WellFormed(req[c]) => ~ Unsignable(c) /\ ~ TurnedAway(c)
  /\ Answered(c) /\ ~ faulted[c] /\ WellFormed(req[c]) =>
        /\ answer[c].http = IF Unsignable(c) THEN 500 ELSE 200
        /\ answer[c].final_status = "DELIVERY_FAILED" <=> TurnedAway(c)
        /\ answer[c].final_status # "ERROR"

AllWelcome == \A c \in Calls : Welcome(c)

\* All three are about the request alone.
LEMMA SameRequest ==
  ASSUME NEW d \in Calls, req'[d] = req[d]
  PROVE  /\ WellFormed(req[d])' <=> WellFormed(req[d])
         /\ Unsignable(d)' <=> Unsignable(d)
         /\ TurnedAway(d)' <=> TurnedAway(d)
<1>1. WellFormed(req[d])' <=> WellFormed(req[d])
  BY Zenon DEF WellFormed
<1>2. Unsignable(d)' <=> Unsignable(d)
  BY DEF Unsignable, Secret, DefaultSecret, RunId
<1>3. TurnedAway(d)' <=> TurnedAway(d)
  BY DEF TurnedAway, Unsent, Payload
<1>4. QED
  BY <1>1, <1>2, <1>3

LEMMA OthersWelcome ==
  ASSUME NEW d \in Calls, Welcome(d), pc'[d] = pc[d], req'[d] = req[d],
         answer'[d] = answer[d], faulted'[d] = faulted[d]
  PROVE  Welcome(d)'
<1>1. /\ WellFormed(req[d])' <=> WellFormed(req[d])
      /\ Unsignable(d)' <=> Unsignable(d)
      /\ TurnedAway(d)' <=> TurnedAway(d)
  BY SameRequest
<1>2. pc'[d] = "poll" /\ WellFormed(req[d])' => ~ Unsignable(d)' /\ ~ TurnedAway(d)'
  BY <1>1, Zenon DEF Welcome
<1>3. Answered(d)' /\ ~ faulted'[d] /\ WellFormed(req[d])' =>
        /\ answer'[d].http = IF Unsignable(d)' THEN 500 ELSE 200
        /\ answer'[d].final_status = "DELIVERY_FAILED" <=> TurnedAway(d)'
        /\ answer'[d].final_status # "ERROR"
  <2>1. SUFFICES ASSUME Answered(d)', ~ faulted'[d], WellFormed(req[d])'
                 PROVE  /\ answer'[d].http = IF Unsignable(d)' THEN 500 ELSE 200
                        /\ answer'[d].final_status = "DELIVERY_FAILED" <=> TurnedAway(d)'
                        /\ answer'[d].final_status # "ERROR"
    OBVIOUS
  <2>2. Answered(d) /\ ~ faulted[d] /\ WellFormed(req[d])
    BY <1>1, <2>1, Zenon DEF Answered
  <2>3. /\ answer[d].http = IF Unsignable(d) THEN 500 ELSE 200
        /\ answer[d].final_status = "DELIVERY_FAILED" <=> TurnedAway(d)
        /\ answer[d].final_status # "ERROR"
    BY <2>2, Zenon DEF Welcome
  <2>4. QED
    BY <1>1, <2>3
<1>4. QED
  BY <1>2, <1>3, Zenon DEF Welcome

\* A call without an answer, or with a fault, is bound to nothing until it polls.
LEMMA UnansweredWelcome ==
  ASSUME NEW c \in Calls, pc'[c] # "poll", answer'[c] = None \/ faulted'[c]
  PROVE  Welcome(c)'
  BY DEF Welcome, Answered

LEMMA RaiseFaults ==
  ASSUME TypeOK, NEW c \in Calls, NEW reply, Raise(c, reply)
  PROVE  /\ faulted'[c] /\ pc'[c] = "answered"
         /\ \A d \in Calls \ {c} :
              pc'[d] = pc[d] /\ answer'[d] = answer[d] /\ faulted'[d] = faulted[d]
  BY DEF TypeOK, Raise, Return

\* An exchange leads to no answer or to a fault.
LEMMA ProceedWelcome ==
  ASSUME IInv, AllWelcome, NEW c \in Calls, NEW reply, NEW next, Proceed(c, reply, next),
         UNCHANGED req, pc[c] # "answered", next # "poll"
  PROVE  AllWelcome'
<1>1. answer[c] = None
  BY DEF IInv, Links, TrueStatus
<1>2. CASE Raise(c, reply)
  BY <1>2, RaiseFaults, OthersWelcome, UnansweredWelcome DEF IInv, AllWelcome
<1>3. CASE Goto(c, next) /\ UNCHANGED faulted
  <2>1. /\ answer'[c] = None /\ pc'[c] = next
        /\ \A d \in Calls \ {c} : pc'[d] = pc[d] /\ answer'[d] = answer[d]
    BY <1>1, <1>3, MoveEffect DEF IInv
  <2>2. QED
    BY <1>3, <2>1, OthersWelcome, UnansweredWelcome DEF AllWelcome
<1>4. QED
  BY <1>2, <1>3 DEF Proceed

LEMMA WaitForWebhookWelcome ==
  ASSUME IInv, AllWelcome, NEW c \in Calls, NEW r \in Requests, WaitForWebhook(c, r)
  PROVE  AllWelcome'
<1>1. ASSUME NEW d \in Calls \ {c} PROVE Welcome(d)'
  <2>1. pc'[d] = pc[d] /\ answer'[d] = answer[d]
    BY MoveEffect DEF IInv, WaitForWebhook
  <2>2. req'[d] = req[d] /\ faulted'[d] = faulted[d]
    BY DEF IInv, TypeOK, WaitForWebhook
  <2>3. QED
    BY <2>1, <2>2, OthersWelcome DEF AllWelcome
<1>2. Welcome(c)'
  <2>1. req'[c] = r
    BY DEF IInv, TypeOK, WaitForWebhook
  <2>2. CASE ~ WellFormed(r)
    BY <2>1, <2>2, Zenon DEF Welcome, WellFormed
  <2>3. CASE WellFormed(r)
    <3>1. RequireToken(r.authorization) /\ r.verifier \in Verifiers
      BY <2>3 DEF WellFormed
    <3>2. Goto(c, "register_wf") /\ answer[c] = None
      BY <3>1 DEF WaitForWebhook, IInv, Links, TrueStatus
    <3>3. answer'[c] = None /\ pc'[c] = "register_wf"
      BY <3>2, MoveEffect DEF IInv
    <3>4. QED
      BY <3>3, UnansweredWelcome
  <2>4. QED
    BY <2>2, <2>3
<1>3. QED
  BY <1>1, <1>2 DEF AllWelcome

LEMMA SigningRaisesWelcome ==
  ASSUME IInv, AllWelcome, NEW c \in Calls, SigningRaises(c)
  PROVE  AllWelcome'
<1>1. UNCHANGED <<req, faulted>> /\ Return(c, Bare(500))
  BY DEF SigningRaises
<1>2. Welcome(c)'
  <2>1. /\ pc'[c] = "answered"
        /\ answer'[c].http = 500 /\ answer'[c].final_status = "NONE"
    BY <1>1 DEF IInv, TypeOK, Return, Bare
  <2>2. WellFormed(req[c]) => Unsignable(c) /\ ~ TurnedAway(c)
    BY SignsUnlessUnsignable DEF SigningRaises, Unsignable, TurnedAway
  <2>3. QED
    BY <1>1, <2>1, <2>2, SameRequest DEF Welcome
<1>3. \A d \in Calls \ {c} : pc'[d] = pc[d] /\ answer'[d] = answer[d]
  BY MoveEffect DEF IInv, SigningRaises
<1>4. QED
  BY <1>1, <1>2, <1>3, OthersWelcome DEF AllWelcome

\* The webhook is the one the call registered, so that the conductor acknowledges the
\* event or turns it away as its request says; any other refusal is a fault.
LEMMA FireWelcome ==
  ASSUME IInv, AllTimed, AllWelcome, NEW c \in Calls, Fire(c)
  PROVE  AllWelcome'
<1>1. PICK reply \in {"2xx", "status", "lost"} :
        /\ Acknowledged(c) \/ MayBeUnapplied(reply)
        /\ \/ reply = "2xx" /\ Goto(c, "poll")
           \/ /\ reply = "status"
              /\ Return(c, Response(c, FALSE, "DELIVERY_FAILED", phases[c] \cup {"fire"}, "status"))
           \/ reply = "lost" /\ Return(c, Bare(500))
        /\ faulted' = [faulted EXCEPT ![c] = @ \/ reply = "lost"
                                               \/ (reply = "status" /\ Acknowledged(c))]
  BY DEF Fire
<1>2. /\ UNCHANGED req /\ answer[c] = None /\ pc[c] = "fire" /\ webhook_id[c] = c
      /\ Signing(c).result = "signed"
  BY DEF Fire, IInv, Links, TrueStatus, OwnIds
<1>3. ASSUME NEW d \in Calls \ {c} PROVE Welcome(d)'
  <2>1. pc'[d] = pc[d] /\ answer'[d] = answer[d]
    BY <1>1, MoveEffect DEF IInv
  <2>2. faulted'[d] = faulted[d]
    BY <1>1 DEF IInv, TypeOK
  <2>3. QED
    BY <1>2, <2>1, <2>2, OthersWelcome DEF AllWelcome
<1>4. Welcome(c)'
  <2>1. hooks[c] = Config(c)
    BY <1>2 DEF AllTimed, Timed, Reached, Real
  <2>2. WellFormed(req[c]) => (Acknowledged(c) <=> ~ TurnedAway(c))
    BY <1>2, <2>1, AcknowledgedUnlessTurnedAway
  <2>3. WellFormed(req[c]) => ~ Unsignable(c)
    BY <1>2, SignsUnlessUnsignable
  <2>4. /\ WellFormed(req[c])' <=> WellFormed(req[c])
        /\ Unsignable(c)' <=> Unsignable(c)
        /\ TurnedAway(c)' <=> TurnedAway(c)
    BY <1>2, SameRequest
  <2>5. faulted'[c] = (faulted[c] \/ reply = "lost" \/ (reply = "status" /\ Acknowledged(c)))
    BY <1>1, Zenon DEF IInv, TypeOK
  <2>6. CASE reply = "2xx"
    <3>1. answer'[c] = None
      BY <1>1, <1>2, <2>6, MoveEffect DEF IInv
    <3>2. Acknowledged(c)
      BY <1>1, <2>6 DEF MayBeUnapplied
    <3>3. QED
      BY <2>2, <2>3, <2>4, <3>1, <3>2, Zenon DEF Welcome, Answered
  <2>7. CASE reply = "status"
    <3>1. Return(c, Response(c, FALSE, "DELIVERY_FAILED", phases[c] \cup {"fire"}, "status"))
      BY <1>1, <2>7
    <3>2. /\ pc'[c] = "answered"
          /\ answer'[c].http = 200 /\ answer'[c].final_status = "DELIVERY_FAILED"
      BY <3>1 DEF IInv, TypeOK, Return, Response
    <3>3. ~ faulted'[c] => ~ Acknowledged(c)
      BY <2>5, <2>7, Zenon
    <3>4. QED
      BY <2>2, <2>3, <2>4, <3>2, <3>3 DEF Welcome
  <2>8. CASE reply = "lost"
    <3>1. faulted'[c]
      BY <2>5, <2>8, Zenon
    <3>2. pc'[c] = "answered"
      BY <1>1, <2>8 DEF IInv, TypeOK, Return
    <3>3. QED
      BY <3>1, <3>2, UnansweredWelcome
  <2>9. QED
    BY <2>6, <2>7, <2>8
<1>5. QED
  BY <1>3, <1>4 DEF AllWelcome

LEMMA ConcludeWelcome ==
  ASSUME IInv, AllWelcome, NEW c \in Calls, NEW status \in Statuses \cup {"UNKNOWN"},
         pc[c] = "poll", Conclude(c, status), UNCHANGED req,
         \A d \in Calls \ {c} : faulted'[d] = faulted[d]
  PROVE  AllWelcome'
<1>1. Welcome(c)'
  <2>1. WellFormed(req[c]) => ~ Unsignable(c) /\ ~ TurnedAway(c)
    BY DEF AllWelcome, Welcome
  <2>2. /\ pc'[c] = "answered"
        /\ answer'[c].http = 200 /\ answer'[c].final_status \notin {"DELIVERY_FAILED", "ERROR"}
    BY ConcludeAnswer DEF IInv, Statuses, Terminal
  <2>3. QED
    BY <2>1, <2>2, SameRequest DEF Welcome
<1>2. \A d \in Calls \ {c} : pc'[d] = pc[d] /\ answer'[d] = answer[d]
  BY MoveEffect DEF IInv, Conclude
<1>3. QED
  BY <1>1, <1>2, OthersWelcome DEF AllWelcome

LEMMA PollWelcome ==
  ASSUME IInv, AllWelcome, NEW c \in Calls, Poll(c)
  PROVE  AllWelcome'
<1>1. /\ pc[c] = "poll" /\ UNCHANGED req /\ answer[c] = None
      /\ workflow_id[c] = c /\ flows[c].status \in Statuses
  <2>1. flows[c] \in Instances /\ flows[c].status # "ABSENT" /\ workflow_id[c] = c
    BY DEF Poll, IInv, TypeOK, Links, OwnIds
  <2>2. QED
    BY <2>1 DEF Poll, IInv, Links, TrueStatus, Instances
<1>2. ASSUME NEW reply, Raise(c, reply) PROVE AllWelcome'
  BY <1>1, <1>2, RaiseFaults, OthersWelcome, UnansweredWelcome DEF IInv, AllWelcome
<1>3. ASSUME NEW status \in {flows[c].status, "UNKNOWN"},
             faulted' = [faulted EXCEPT ![c] = @ \/ status = "UNKNOWN"],
             Conclude(c, status) \/ Goto(c, "poll")
      PROVE  AllWelcome'
  <2>1. \A d \in Calls \ {c} : faulted'[d] = faulted[d]
    BY <1>3 DEF IInv, TypeOK
  <2>2. CASE Conclude(c, status)
    BY <1>1, <2>1, <2>2, ConcludeWelcome
  <2>3. CASE Goto(c, "poll")
    <3>1. /\ answer'[c] = None
          /\ \A d \in Calls \ {c} : pc'[d] = pc[d] /\ answer'[d] = answer[d]
      BY <1>1, <2>3, MoveEffect DEF IInv
    <3>2. Welcome(c)'
      BY <1>1, <3>1, SameRequest DEF AllWelcome, Welcome, Answered
    <3>3. QED
      BY <1>1, <2>1, <3>1, <3>2, OthersWelcome DEF AllWelcome
  <2>4. QED
    BY <1>3, <2>2, <2>3
<1>4. QED
  BY <1>1, <1>2, <1>3 DEF Poll

LEMMA DeadlinePassesWelcome ==
  ASSUME IInv, AllWelcome, NEW c \in Calls, DeadlinePasses(c)
  PROVE  AllWelcome'
<1>1. final[c] \in Statuses \cup {"UNKNOWN"}
  BY DEF IInv, TypeOK
<1>2. QED
  BY <1>1, ConcludeWelcome DEF DeadlinePasses

LEMMA NextKeepsWelcome ==
  ASSUME IInv, AllTimed, AllWelcome, [Next]_vars
  PROVE  AllWelcome'
<1>1. CASE UNCHANGED callVars
  BY <1>1, OthersWelcome DEF AllWelcome, callVars
<1>2. ASSUME NEW c \in Calls,
             RegisterWorkflow(c) \/ RegisterWebhook(c) \/ StartWorkflow(c)
      PROVE  AllWelcome'
  BY <1>2, ProceedWelcome DEF RegisterWorkflow, RegisterWebhook, StartWorkflow
<1>3. QED
  BY <1>1, <1>2, WaitForWebhookWelcome, SigningRaisesWelcome, FireWelcome, PollWelcome,
     DeadlinePassesWelcome DEF Next, Step, vars

\* Without a fault of the network or of the conductor a well-formed request ends in an
\* HTTP error exactly when it is unsignable, in a refused delivery exactly when it is
\* turned away, and never in a failed exchange.
THEOREM RefusalsAreAsStated == Spec => []RefusalsAreExact
<1>1. Init => AllTimed /\ AllWelcome
  BY InitTimed DEF Init, AllWelcome, Welcome, Answered
<1>2. IInv /\ AllTimed /\ AllWelcome /\ [Next]_vars => (AllTimed /\ AllWelcome)'
  BY NextKeepsTimed, NextKeepsWelcome
<1>3. AllWelcome => RefusalsAreExact
  BY Zenon DEF AllWelcome, Welcome, RefusalsAreExact
<1>4. QED
  BY <1>1, <1>2, <1>3, Invariance, PTL DEF Spec
=============================================================================
