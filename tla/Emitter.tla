------------------------------ MODULE Emitter ------------------------------
(***************************************************************************)
(* The webhook-emitter service (emitter.py): one process, restarted by     *)
(* systemd when it dies, that loads its templates once at start and serves *)
(* concurrent calls from a pool of threads.                                *)
(*                                                                         *)
(* A call of /fire or /fire-named sends one POST to the target and holds   *)
(* its thread until the target answers or httpx gives up; the message may  *)
(* be lost, or arrive after nobody waits for it.  A call of the scenario   *)
(* endpoint holds a thread of the same pool until its deadline; what it    *)
(* does meanwhile is module Scenario.  The operator edits the config file  *)
(* at any time, and the process may die at any time.                       *)
(*                                                                         *)
(* A delivery is described the same way by the body of /fire and by a      *)
(* template: [target, verifier, secret, header_name, header_value,         *)
(* payload].  A payload is a function from fields to values.               *)
(***************************************************************************)
EXTENDS Auth, Signers, FiniteSets

CONSTANTS Callers,     \* the calls
          Requests,    \* what a call may ask for
          Files,       \* contents the config file may have, None for no file
          Workers      \* size of the thread pool that runs handlers

ASSUME WorkersPositive == Workers \in Nat \ {0}
ASSUME FilesHoldTemplates ==
  \A f \in Files \ {None} : \A n \in DOMAIN f :
    {"valid", "target", "verifier", "secret", "header_name", "header_value", "payload"}
      \subseteq DOMAIN f[n]

ASSUME TokensAreStrings ==
  /\ EmitterToken # None => EmitterToken \in Seq(Nat)
  /\ \A q \in Requests : q.authorization # None => q.authorization.token \in Seq(Nat)

VARIABLES file,        \* the config file on disk
          serving,     \* the process is up and accepts calls
          templates,   \* its _TEMPLATES
          loaded,      \* history: the file the running process read
          pc,          \* where each call is
          req,         \* its request
          sent,        \* the message it posted, None before
          answer,      \* its answer: [http, body], None before
          wire,        \* messages on their way to the target
          deliveries,  \* how often the target got the call's event
          reply        \* the target's answer to it, None before

processVars == <<serving, templates, loaded>>
callVars    == <<pc, req, sent, answer>>
targetVars  == <<wire, deliveries, reply>>
vars        == <<file, processVars, callVars, targetVars>>

NoTemplates == [n \in {} |-> None]

-----------------------------------------------------------------------------
(* Pure parts of the handlers.                                             *)

\* A file with one entry that is no Template makes _load_templates raise.
Loadable(f) == f # None => \A n \in DOMAIN f : f[n].valid

Protected(endpoint) == endpoint \in {"fire", "fire-named", "templates", "scenario"}

\* Python's {**old, **new}.
Override(old, new) ==
  [x \in DOMAIN old \cup DOMAIN new |-> IF x \in DOMAIN new THEN new[x] ELSE old[x]]

\* Fields of the call replace the template's.
Body(template, payload) == Override(template.payload, payload)

Redact(t) == IF t.secret.id = "" THEN t ELSE [t EXCEPT !.secret.id = "***"]

Listing == [n \in DOMAIN templates |-> Redact(templates[n])]

Known(q) == q.endpoint = "fire-named" => q.name \in DOMAIN templates

\* The FireRequest a call of /fire carries, or that of /fire-named is built into.
FireRequest(q) ==
  IF q.endpoint = "fire" THEN q.delivery
  ELSE Override([timestamp |-> "None"],
                [templates[q.name] EXCEPT !.payload = Body(templates[q.name], q.payload)])

Signing(d) ==
  Sign(d.verifier,
       SigningContext(d.secret, d.payload, d.header_name, d.header_value, d.timestamp))

Message(r, d) ==
  [from    |-> r, target |-> d.target, body |-> d.payload,
   headers |-> Override([h \in {"Content-Type"} |-> Literal("application/json")],
                        Signing(d).headers)]

-----------------------------------------------------------------------------
Init ==
  /\ file \in Files
  /\ serving = FALSE
  /\ templates = NoTemplates
  /\ loaded = None
  /\ pc = [r \in Callers |-> "idle"]
  /\ req = [r \in Callers |-> None]
  /\ sent = [r \in Callers |-> None]
  /\ answer = [r \in Callers |-> None]
  /\ wire = {}
  /\ deliveries = [r \in Callers |-> 0]
  /\ reply = [r \in Callers |-> None]

(* The process.                                                            *)

\* Mutation: an entry that is no Template is skipped.
BootSkipsBad ==
  /\ ~ serving
  /\ serving' = TRUE
  /\ loaded' = file
  /\ templates' = IF file = None THEN NoTemplates
                  ELSE [n \in {m \in DOMAIN file : file[m].valid} |-> file[n]]
  /\ UNCHANGED <<file, callVars, targetVars>>

\* Mutation: a config file that does not exist is an error.
BootNeedsFile ==
  /\ ~ serving
  /\ file # None
  /\ Loadable(file)
  /\ serving' = TRUE
  /\ loaded' = file
  /\ templates' = file
  /\ UNCHANGED <<file, callVars, targetVars>>

\* main() loads the templates and only then serves.  A file it cannot load ends it
\* before it serves, and systemd tries again until the file is another.
Boot ==
  /\ ~ serving
  /\ Loadable(file)
  /\ serving' = TRUE
  /\ loaded' = file
  /\ templates' = IF file = None THEN NoTemplates ELSE file
  /\ UNCHANGED <<file, callVars, targetVars>>

Live == {r \in Callers : pc[r] \in {"received", "admitted", "posting", "running"}}

\* The process dies: its callers lose their connections, messages under way do not.
Crash ==
  /\ serving
  /\ serving' = FALSE
  /\ loaded' = None
  /\ templates' = NoTemplates
  /\ pc' = [r \in Callers |-> IF r \in Live THEN "dropped" ELSE pc[r]]
  /\ UNCHANGED <<file, req, sent, answer, targetVars>>

Edit(f) == file' = f /\ f # file /\ UNCHANGED <<processVars, callVars, targetVars>>

-----------------------------------------------------------------------------
(* The calls.  Handlers and the gate are plain functions, so each runs on a *)
(* thread of the pool; only one that waits for others keeps it.             *)

FreeThread == Cardinality({r \in Callers : pc[r] \in {"posting", "running"}}) < Workers

Answer(r, http, status, listing) ==
  /\ pc' = [pc EXCEPT ![r] = "answered"]
  /\ answer' = [answer EXCEPT ![r] = [http |-> http, status |-> status, listing |-> listing]]

Arrive(r, q) ==
  /\ serving
  /\ pc[r] = "idle"
  /\ pc' = [pc EXCEPT ![r] = "received"]
  /\ req' = [req EXCEPT ![r] = q]
  /\ UNCHANGED <<file, processVars, sent, answer, targetVars>>

Gate(r) ==
  /\ pc[r] = "received"
  /\ Protected(req[r].endpoint)
  /\ FreeThread
  /\ \/ /\ RequireToken(req[r].authorization)
        /\ pc' = [pc EXCEPT ![r] = "admitted"]
        /\ UNCHANGED answer
     \/ ~ RequireToken(req[r].authorization) /\ Answer(r, 401, None, NoTemplates)
  /\ UNCHANGED <<file, processVars, req, sent, targetVars>>

Ready(r) ==
  /\ \/ pc[r] = "admitted"
     \/ pc[r] = "received" /\ ~ Protected(req[r].endpoint)
  /\ FreeThread

Fires(q) == q.endpoint \in {"fire", "fire-named"}

\* /healthz, /verifiers and /templates answer from what the process holds.
Inform(r) ==
  /\ Ready(r)
  /\ req[r].endpoint \in {"healthz", "verifiers", "templates"}
  /\ Answer(r, 200, None, IF req[r].endpoint = "templates" THEN Listing ELSE NoTemplates)
  /\ UNCHANGED <<file, processVars, req, sent, targetVars>>

\* A scenario call that is admitted works at the conductor's, on its thread.
RunScenario(r) ==
  /\ Ready(r)
  /\ req[r].endpoint = "scenario"
  /\ pc' = [pc EXCEPT ![r] = "running"]
  /\ UNCHANGED <<file, processVars, req, sent, answer, targetVars>>

\* At its deadline at the latest, with its verdict, a refusal of the verifier or an exception.
EndScenario(r) ==
  /\ pc[r] = "running"
  /\ \E http \in {200, 400, 500} : Answer(r, http, None, NoTemplates)
  /\ UNCHANGED <<file, processVars, req, sent, targetVars>>

\* No message is sent for an unknown template, a verifier that is none, a secret the
\* signer cannot use, or a target that is no URL.
Reject(r) ==
  /\ Ready(r)
  /\ Fires(req[r])
  /\ \/ ~ Known(req[r]) /\ Answer(r, 404, None, NoTemplates)
     \/ /\ Known(req[r])
        /\ LET d == FireRequest(req[r]) IN
             \/ Signing(d).result = "KeyError" /\ Answer(r, 400, None, NoTemplates)
             \/ /\ \/ Signing(d).result \notin {"signed", "KeyError"}
                   \/ Signing(d).result = "signed" /\ d.target = "not a URL"
                /\ Answer(r, 500, None, NoTemplates)
  /\ UNCHANGED <<file, processVars, req, sent, targetVars>>

Post(r) ==
  /\ Ready(r)
  /\ Fires(req[r])
  /\ Known(req[r])
  /\ LET d == FireRequest(req[r]) IN
       /\ Signing(d).result = "signed"
       /\ d.target # "not a URL"
       /\ sent' = [sent EXCEPT ![r] = Message(r, d)]
       /\ wire' = wire \cup {Message(r, d)}
  /\ pc' = [pc EXCEPT ![r] = "posting"]
  /\ UNCHANGED <<file, processVars, req, answer, deliveries, reply>>

\* Whatever the target said is told in a 200.
Respond(r) ==
  /\ pc[r] = "posting"
  /\ reply[r] # None
  /\ Answer(r, 200, reply[r], NoTemplates)
  /\ UNCHANGED <<file, processVars, req, sent, targetVars>>

\* Mutation: a failed POST is answered with another status.
FailOtherwise(r) ==
  /\ pc[r] = "posting"
  /\ Answer(r, 504, None, NoTemplates)
  /\ UNCHANGED <<file, processVars, req, sent, targetVars>>

\* Mutation: the client has no timeout, and waits for what may never come.
FailOnlyAnswered(r) ==
  /\ pc[r] = "posting"
  /\ reply[r] # None
  /\ Answer(r, 502, None, NoTemplates)
  /\ UNCHANGED <<file, processVars, req, sent, targetVars>>

\* Mutation: a failed POST is sent again.
FailRetries(r) ==
  /\ pc[r] = "posting"
  /\ \/ Answer(r, 502, None, NoTemplates) /\ UNCHANGED wire
     \/ wire' = wire \cup {sent[r]} /\ UNCHANGED <<pc, answer>>
  /\ UNCHANGED <<file, processVars, req, sent, deliveries, reply>>

\* A transport error, or 15 s without an answer: the message may be anywhere.
Fail(r) ==
  /\ pc[r] = "posting"
  /\ Answer(r, 502, None, NoTemplates)
  /\ UNCHANGED <<file, processVars, req, sent, targetVars>>

-----------------------------------------------------------------------------
(* The network and the target, external.                                   *)

Reach(m) ==
  /\ wire' = wire \ {m}
  /\ deliveries' = [deliveries EXCEPT ![m.from] = @ + 1]
  /\ \E status \in {"2xx", "4xx"} : reply' = [reply EXCEPT ![m.from] = status]
  /\ UNCHANGED <<file, processVars, callVars>>

Vanish(m) ==
  /\ wire' = wire \ {m}
  /\ UNCHANGED <<file, processVars, callVars, deliveries, reply>>

-----------------------------------------------------------------------------
Step(r) == \/ Gate(r) \/ Inform(r) \/ RunScenario(r) \/ EndScenario(r)
           \/ Reject(r) \/ Post(r) \/ Respond(r) \/ Fail(r)

Next ==
  \/ Boot \/ Crash
  \/ \E f \in Files : Edit(f)
  \/ \E r \in Callers : Step(r) \/ \E q \in Requests : Arrive(r, q)
  \/ \E m \in wire : Reach(m) \/ Vanish(m)

Spec == Init /\ [][Next]_vars

\* systemd starts the process again, threads run, no httpx exchange outlasts its timeout
\* and no scenario call its deadline.  The network, the operator and crashes owe nothing.
Fairness == WF_vars(Boot) /\ \A r \in Callers : WF_vars(Step(r))

FairSpec == Spec /\ Fairness

-----------------------------------------------------------------------------
(* Properties.                                                             *)

TypeOK ==
  /\ file \in Files /\ loaded \in Files \cup {None}
  /\ serving \in BOOLEAN
  /\ pc \in [Callers -> {"idle", "received", "admitted", "posting", "running",
                         "answered", "dropped"}]
  /\ req \in [Callers -> Requests \cup {None}]
  /\ \A r \in Callers :
       /\ sent[r] # None => sent[r].from = r
       /\ answer[r] # None => /\ answer[r].http \in {200, 400, 401, 404, 500, 502}
                              /\ answer[r].status \in {None, "2xx", "4xx"}
       /\ reply[r] \in {None, "2xx", "4xx"}
  /\ deliveries \in [Callers -> Nat]
  /\ \A m \in wire : m.from \in Callers

\* The headers of a message that are neither a literal nor a timestamp.
Signatures(m) == {h \in DOMAIN m.headers : m.headers[h].scheme \notin {"literal", "stamp"}}

\* The very token, no shorter and no longer one, where there is one to know.
Bears(authorization) ==
  EmitterToken # None => /\ authorization # None
                         /\ authorization.scheme = "bearer"
                         /\ authorization.token = EmitterToken

\* A call without the token, and a call of an open endpoint, never makes the target
\* see anything: not now and not by a message that arrives after the answer.  Whatever
\* it asks for, the templates included, it is told no more than 401.
OnlyAdmittedReach ==
  \A r \in Callers :
     /\ deliveries[r] > 0 \/ sent[r] # None => Fires(req[r]) /\ Bears(req[r].authorization)
     /\ answer[r] # None /\ req[r].endpoint \notin {"healthz", "verifiers"} =>
          Bears(req[r].authorization) \/ answer[r].http = 401

\* Message m is what file f says of the template that call q names, with q's own
\* fields in the body, and what is signed in it is the very body that is sent.
FitsTemplate(m, q, f) ==
  /\ q.name \in DOMAIN f
  /\ m.target = f[q.name].target
  /\ \A h \in Signatures(m) : m.headers[h].key = f[q.name].secret.id
                              /\ m.headers[h].body = m.body
  /\ \A field \in DOMAIN m.body :
       m.body[field] = IF field \in DOMAIN q.payload
                       THEN q.payload[field] ELSE f[q.name].payload[field]

\* While the process waits for the target, what it sent for a named template is one
\* template of the file this process read at its start, whatever the operator has made
\* of the file since, with the caller's fields in place of the default ones; that file
\* was good to its last entry, and what is signed is the very body that was sent.
SentAsConfigured ==
  \A r \in Callers : pc[r] = "posting" /\ req[r].endpoint = "fire-named" =>
     /\ loaded # None /\ \A n \in DOMAIN loaded : loaded[n].valid
     /\ FitsTemplate(sent[r], req[r], loaded)

\* A call that got in ends, even behind calls that hold every thread.
EveryCallEnds == \A r \in Callers : pc[r] = "received" ~> pc[r] \in {"answered", "dropped"}

\* Once the file stays loadable the service is up again after every crash.
ServiceComesBack == <>[]Loadable(file) => []<>serving

\* The promise to the callers, and what each of them knows.
Meaning(q, http) ==
  IF ~ Fires(q) THEN "nothing"
  ELSE IF http = 200 THEN "fired"
  ELSE IF http = 502 THEN "unknown" ELSE "refused"

Told(r) == IF pc[r] = "dropped" THEN "unknown"
           ELSE IF pc[r] = "answered" THEN Meaning(req[r], answer[r].http)
           ELSE "nothing"

Promise == INSTANCE FireService WITH told <- [r \in Callers |-> Told(r)]

KeepsFirePromise == Promise!Spec
=============================================================================
