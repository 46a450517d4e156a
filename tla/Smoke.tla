------------------------------- MODULE Smoke -------------------------------
(***************************************************************************)
(* The three drivers that do one thing after the other:                    *)
(*   "smoke"   conductor-smoke/smoke.py: for each selected verifier a      *)
(*             definition, a webhook, a workflow and an event of its own;  *)
(*   "multi"   conductor-smoke/multi_verifier_smoke.py: one definition,    *)
(*             three webhooks, then a workflow and an event for each;      *)
(*   "replay"  conductor-smoke/replay_smoke.py: one event twice, first     *)
(*             against one workflow and then against two.                  *)
(* A driver is its plan, the sequence of its remote calls.  The conductor  *)
(* is Conductor, the emitter what FireService promises of it.              *)
(***************************************************************************)
EXTENDS Conductor, Naturals, Sequences

CONSTANTS Cases,       \* how many workflows and webhooks there may be
          Selections   \* what --verifiers of "smoke" may name

AllCases == Verifiers \ {"SENDGRID"}

ASSUME EnoughCases == Cases \in Nat /\ Cases >= 3
ASSUME Numbered == Flows = 1 .. Cases /\ Hooks = 1 .. Cases /\ Sources = 1 .. Cases + 1
ASSUME NoneApart ==
  /\ None \notin 0 .. 3
  /\ None \notin {"PASS", "FAIL", "2xx", "status"} \cup Terminal
  /\ None \notin [verifier : Verifiers, headerKey : {"X-Sig", "x-twitter-webhooks-signature"},
                 secretValue : [id : {"secret"} \X Flows, base64 : {TRUE}, pem : {FALSE}],
                 receiver : Names, urlVerified : BOOLEAN,
                 headers : UNION {[H -> {"value"} \X Flows] : H \in SUBSET {"X-Sig"}}]
ASSUME Named == Names = Verifiers \cup {"multi", "replay"}
ASSUME SelectionsFit ==
  \A s \in Selections : s \in Seq(Verifiers) /\ Len(s) <= Cases

VARIABLES driver,      \* which of the three
          selected,    \* the verifiers "smoke" tries, in order
          at,          \* the step of the plan it is at
          calling,     \* a call of /fire is under way
          exit,        \* its exit code, None before
          verdict,     \* of each case: None, "PASS" or "FAIL"
          seen,        \* what the poll of each workflow returned, None before
          code,        \* the status the conductor answered each event with
          deliveries,  \* FireService
          told         \* FireService

driverVars  == <<driver, selected, at, calling, exit>>
judgeVars   == <<verdict, seen>>
serviceVars == <<deliveries, told>>
vars == <<conductorVars, driverVars, judgeVars, code, serviceVars>>

Service == INSTANCE FireService WITH Callers <- Sources

-----------------------------------------------------------------------------
(* The plans.  A step names its operation and its workflow, webhook or     *)
(* event.                                                                  *)

\* What run_one does for the i-th case.
CaseSteps == <<"define", "hook", "start", "fire", "poll">>

SmokePlan == [n \in 1 .. 5 * Len(selected) |-> <<CaseSteps[1 + ((n - 1) % 5)], 1 + (n - 1) \div 5>>]

MultiPlan ==
  << <<"define", 1>>, <<"hook", 1>>, <<"hook", 2>>, <<"hook", 3>> >>
  \o [n \in 1 .. 9 |-> <<CaseSteps[3 + ((n - 1) % 3)], 1 + (n - 1) \div 3>>]

\* Mutation: the second event is fired before the first is seen to have been enough.
ReplayPlanHasty ==
  << <<"define", 1>>, <<"hook", 1>>,
     <<"start", 1>>, <<"fire", 1>>, <<"fire", 2>>, <<"poll", 1>>, <<"status", 1>> >>

ReplayPlan ==
  << <<"define", 1>>, <<"hook", 1>>,
     <<"start", 1>>, <<"fire", 1>>, <<"poll", 1>>, <<"fire", 2>>, <<"status", 1>>,
     <<"start", 2>>, <<"start", 3>>, <<"fire", 3>>, <<"status", 2>>, <<"status", 3>>,
     <<"fire", 4>>, <<"status", 2>>, <<"status", 3>> >>

Plan == IF driver = "smoke" THEN SmokePlan
        ELSE IF driver = "multi" THEN MultiPlan ELSE ReplayPlan

\* The driver is about to do `op` for i.
Is(op, i) == exit = None /\ at \in DOMAIN Plan /\ Plan[at] = <<op, i>> /\ ~ calling

-----------------------------------------------------------------------------
(* What a case registers and sends.                                        *)

\* Mutation: the definitions of all cases have one name.
NameOfRun(i) == IF driver = "smoke" THEN selected[1] ELSE driver

NameOf(i) == IF driver = "smoke" THEN selected[i] ELSE driver

Verifier(i) == IF driver = "smoke" THEN selected[i]
               ELSE <<"HMAC_BASED", "SIGNATURE_BASED", "HEADER_BASED">>[i]

\* All events of "replay" go to one webhook.
HookOf(e) == IF driver = "replay" THEN 1 ELSE e

\* Mutation: TWITTER's header is not pinned.
HeaderKeyConfigurable(i) == "X-Sig"

HeaderKey(i) ==
  IF Verifier(i) = "TWITTER" THEN "x-twitter-webhooks-signature" ELSE "X-Sig"

\* Every case makes its own secret.
Secret(i) == [id |-> <<"secret", i>>, base64 |-> TRUE, pem |-> FALSE]

HeaderValue(i) == IF Verifier(i) = "HEADER_BASED" THEN <<"value", i>> ELSE ""

Config(i) ==
  [verifier    |-> Verifier(i),
   headerKey   |-> HeaderKey(i),
   secretValue |-> Secret(i),
   receiver    |-> NameOf(i),
   headers     |-> [h \in IF Verifier(i) = "HEADER_BASED" THEN {"X-Sig"} ELSE {} |->
                      HeaderValue(i)],
   urlVerified |-> Verifier(i) = "SLACK_BASED"]

Body(i) == IF Verifier(i) = "STRIPE" THEN {"event", "api_version"} ELSE {"event"}

Signed(i) ==
  Sign(Verifier(i),
       SigningContext(Secret(i), Body(i), HeaderKey(i), HeaderValue(i), "None")).headers

-----------------------------------------------------------------------------
Init ==
  /\ ConductorInit
  /\ Service!Init
  /\ driver \in {"smoke", "multi", "replay"}
  /\ IF driver = "smoke" THEN selected \in Selections ELSE selected = <<>>
  /\ at = 0 /\ calling = FALSE /\ exit = None
  /\ verdict = [i \in Flows |-> None]
  /\ seen = [i \in Flows |-> None]
  /\ code = [e \in Sources |-> None]

Advance == at' = at + 1 /\ UNCHANGED <<driver, selected, exit>>

End(c) == exit' = c /\ UNCHANGED <<driver, selected, at>>

\* "smoke" refuses a verifier it has no case for, and asks whether both services are up.
Begin ==
  /\ at = 0 /\ exit = None
  /\ \/ /\ driver = "smoke" => \A i \in DOMAIN selected : selected[i] \in AllCases
        /\ Advance \/ (driver = "smoke" /\ End(3))
     \/ /\ driver = "smoke" /\ \E i \in DOMAIN selected : selected[i] \notin AllCases
        /\ End(2)
  /\ UNCHANGED <<conductorVars, calling, judgeVars, code, serviceVars>>

\* Mutation: an exception ends "smoke" too.
FailForAll(i) == End(1) /\ UNCHANGED verdict

\* Mutation: the next case is one step too far.
FailTooFar(i) ==
  IF driver = "smoke"
  THEN /\ verdict' = [verdict EXCEPT ![i] = "FAIL"]
       /\ at' = 5 * i + 2
       /\ UNCHANGED <<driver, selected, exit>>
  ELSE End(1) /\ UNCHANGED verdict

\* The remote call, a signer or a reply raised: "smoke" goes on to the next case.
Fail(i) ==
  IF driver = "smoke"
  THEN /\ verdict' = [verdict EXCEPT ![i] = "FAIL"]
       /\ at' = 5 * i + 1
       /\ UNCHANGED <<driver, selected, exit>>
  ELSE End(1) /\ UNCHANGED verdict

\* What was applied may be answered with an error or not at all.
Exchange(i, applied, notApplied) ==
  \/ applied /\ Advance /\ UNCHANGED verdict
  \/ (applied \/ notApplied) /\ Fail(i)

Define(i) ==
  /\ Is("define", i)
  /\ Exchange(i, PutDef(NameOf(i), {"event"}), UNCHANGED defs)
  /\ UNCHANGED <<hooks, flows, queue, calling, seen, code, serviceVars>>

RegisterWebhook(i) ==
  /\ Is("hook", i)
  /\ Exchange(i, CreateHook(i, Config(i)), UNCHANGED hooks)
  /\ UNCHANGED <<defs, flows, queue, calling, seen, code, serviceVars>>

Start(i) ==
  /\ Is("start", i)
  /\ Exchange(i, StartFlow(i, NameOf(i)), UNCHANGED flows)
  /\ UNCHANGED <<defs, hooks, queue, calling, seen, code, serviceVars>>

\* After the settle, a sleep that synchronises with nothing.
Fire(e) ==
  /\ Is("fire", e)
  /\ calling' = TRUE
  /\ UNCHANGED <<conductorVars, driver, selected, at, exit, judgeVars, code, serviceVars>>

\* Only "smoke" looks at the conductor's status at once.
FireAnswered(e) ==
  /\ calling /\ Plan[at] = <<"fire", e>>
  /\ calling' = FALSE
  /\ \/ /\ Service!Fired(e)
        /\ IF driver = "smoke" /\ code[e] # "2xx" THEN Fail(e)
           ELSE Advance /\ UNCHANGED verdict
     \/ (Service!Refused(e) \/ told' = [told EXCEPT ![e] = "unknown"]) /\ Fail(e)
  /\ UNCHANGED <<conductorVars, seen, code, deliveries>>

\* During the call or after the driver gave up on it.
Deliver(e) ==
  /\ (calling /\ Plan[at] = <<"fire", e>>) \/ told[e] # "nothing"
  /\ Service!Deliver(e)
  /\ \E reply \in {"2xx", "status"} :
       /\ code' = [code EXCEPT ![e] = reply]
       /\ LET h == HookOf(e) IN
          \/ Verified(hooks[h], Signed(h), Body(h)) /\ Enqueue(h, Body(h), e)
          \/ reply = "status" /\ UNCHANGED queue
  /\ UNCHANGED <<defs, hooks, flows, driverVars, judgeVars>>

-----------------------------------------------------------------------------
(* Polling and the verdicts.                                               *)

Passes(i, s) == s = "COMPLETED" /\ code[i] = "2xx"

\* "replay" judges nothing.
Polled(i, s) ==
  /\ seen' = [seen EXCEPT ![i] = s]
  /\ verdict' = IF driver = "replay" THEN verdict
                ELSE [verdict EXCEPT ![i] = IF Passes(i, s) THEN "PASS" ELSE "FAIL"]
  /\ Advance

\* A success may lack the status field.
Poll(i) ==
  /\ Is("poll", i)
  /\ \/ \E s \in {flows[i].status, "UNKNOWN"} :
          IF s \in Terminal THEN Polled(i, s)
                            ELSE UNCHANGED <<driver, selected, at, exit, judgeVars>>
     \/ Fail(i) /\ UNCHANGED seen
  /\ UNCHANGED <<conductorVars, calling, code, serviceVars>>

PollTimesOut(i) ==
  /\ Is("poll", i)
  /\ Polled(i, "TIMEOUT")
  /\ UNCHANGED <<conductorVars, calling, code, serviceVars>>

\* Printed, and not kept.
Status(i) ==
  /\ Is("status", i)
  /\ Advance \/ End(1)
  /\ UNCHANGED <<conductorVars, calling, judgeVars, code, serviceVars>>

Judged == IF driver = "smoke" THEN DOMAIN selected
          ELSE IF driver = "multi" THEN 1 .. 3 ELSE {}

Finish ==
  /\ exit = None /\ at = Len(Plan) + 1
  /\ End(IF \A i \in Judged : verdict[i] = "PASS" THEN 0 ELSE 1)
  /\ UNCHANGED <<conductorVars, calling, judgeVars, code, serviceVars>>

-----------------------------------------------------------------------------
\* The ends of an instance other than COMPLETED are alike to these drivers.
ConductorStep ==
  \/ \E w \in Flows : RegisterWait(w) \/ (Abort(w) /\ flows'[w].status = "TERMINATED")
  \/ \E e \in queue : Dispatch(e)

Next ==
  \/ Begin \/ Finish
  \/ \E i \in Flows : \/ Define(i) \/ RegisterWebhook(i) \/ Start(i)
                      \/ Poll(i) \/ PollTimesOut(i) \/ Status(i)
  \/ \E e \in Sources : Fire(e) \/ FireAnswered(e) \/ Deliver(e)
  \/ ConductorStep /\ UNCHANGED <<driverVars, judgeVars, code, serviceVars>>

Spec == Init /\ [][Next]_vars

-----------------------------------------------------------------------------
(* Properties.                                                             *)

TypeOK ==
  /\ driver \in {"smoke", "multi", "replay"}
  /\ selected \in Selections \cup {<<>>}
  /\ at \in 0 .. Len(Plan) + 1
  /\ calling => at \in DOMAIN Plan /\ Plan[at] \in {<<"fire", e>> : e \in Sources}
  /\ exit \in {None, 0, 1, 2, 3}
  /\ verdict \in [Flows -> {None, "PASS", "FAIL"}]
  /\ seen \in [Flows -> Terminal \cup {None, "TIMEOUT"}]
  /\ code \in [Sources -> {None, "2xx", "status"}]
  /\ \A e \in Sources : deliveries[e] = 1 <=> code[e] # None

\* Whether no earlier case registered the definition this one starts.
Alone(i) == driver = "smoke" /\ \A j \in DOMAIN selected \ {i} : selected[j] # selected[i]

\* PASS is the truth: the case's own event was accepted and completed its workflow.  A
\* case that shares its definition is to be trusted when all passed: an event that is
\* late may complete the workflow of a later case.
PassIsOwn ==
  \A i \in Judged : verdict[i] = "PASS" /\ (Alone(i) \/ exit = 0) =>
     flows[i].status = "COMPLETED" /\ flows[i].by = i /\ code[i] = "2xx"

\* The configuration a case registers and the headers and body it fires are made in two
\* places, per verifier, and the conductor's verifier is satisfied by every one of them.
CasesAgree ==
  \A e \in Sources : calling /\ Plan[at] = <<"fire", e>> =>
     LET h == HookOf(e) IN hooks[h] # None /\ Verified(hooks[h], Signed(h), Body(h))

\* One verifier that fails, by a bad answer or an exception, costs no other its turn: a
\* summary lists them all.
EveryCaseJudged ==
  driver = "smoke" /\ exit \in {0, 1} => \A i \in DOMAIN selected : verdict[i] # None

\* "observed: conductor accepts both deliveries; second is a no-op" (replay_smoke.py, line
\* 155) is true if the driver has seen the completion before it fired again.
ReplayIsSkipped ==
  driver = "replay" /\ code[1] = "2xx" /\ code[2] = "2xx" /\ seen[1] = "COMPLETED" =>
     flows[1].status = "COMPLETED" /\ flows[1].by = 1
=============================================================================
