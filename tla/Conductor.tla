----------------------------- MODULE Conductor -----------------------------
(***************************************************************************)
(* The conductor server, external to the repository: the part of its       *)
(* webhook receive path the scenario endpoint and the smoke harnesses use. *)
(* It keeps workflow definitions, webhook configurations, workflow         *)
(* instances and a queue of accepted events.                               *)
(*                                                                         *)
(* Every workflow here is the single WAIT_FOR_WEBHOOK task those clients   *)
(* register.  Its task registers itself some time after the start, and an  *)
(* event that finds no registered task is gone: it is not kept for later.  *)
(* A match condition and the body field that satisfies it are one value,   *)
(* so that an event satisfies a task when the task's conditions are among  *)
(* the event's fields.                                                     *)
(***************************************************************************)
EXTENDS Optional, Signers

CONSTANTS Names,    \* workflow names
          Hooks,    \* webhook ids
          Flows,    \* workflow ids
          Sources   \* who fires events

VARIABLES defs,     \* name -> match conditions of the registered definition
          hooks,    \* webhook id -> webhook configuration
          flows,    \* workflow id -> instance
          queue     \* accepted events the webhook worker has not dispatched

conductorVars == <<defs, hooks, flows, queue>>

Terminal == {"COMPLETED", "FAILED", "TERMINATED", "TIMED_OUT"}

\* `by` remembers whose event completed the instance.
Absent == [name |-> None, matches |-> {}, status |-> "ABSENT",
           registered |-> FALSE, by |-> None]

ConductorInit ==
  /\ defs  = [n \in Names |-> None]
  /\ hooks = [h \in Hooks |-> None]
  /\ flows = [w \in Flows |-> Absent]
  /\ queue = {}

-----------------------------------------------------------------------------
(* What the API's calls change when the server applies them.               *)

PutDef(name, matches) == defs' = [defs EXCEPT ![name] = matches]

CreateHook(h, config) == hooks' = [hooks EXCEPT ![h] = config]

DeleteDef(name) == defs' = [defs EXCEPT ![name] = None]

DeleteHook(h) == hooks' = [hooks EXCEPT ![h] = None]

\* `matches` is what the definition's conditions become for this instance.
StartInstance(w, name, matches) ==
  /\ defs[name] # None
  /\ flows' = [flows EXCEPT ![w] = [name |-> name, matches |-> matches,
              status |-> "RUNNING", registered |-> FALSE, by |-> None]]

StartFlow(w, name) == StartInstance(w, name, defs[name])

Enqueue(h, body, source) ==
  queue' = queue \cup {[hook |-> h, body |-> body, by |-> source]}

\* Whether an event satisfies the verifier its webhook is configured with.
Carries(headers, name, value) == name \in DOMAIN headers /\ headers[name] = value

Verified(config, headers, body) ==
  LET key == config.headerKey
      id  == config.secretValue.id
  IN CASE config.verifier = "HMAC_BASED" ->
            /\ config.secretValue.base64
            /\ Carries(headers, key, Mac("base64", id, body, "None"))
       [] config.verifier = "SIGNATURE_BASED" ->
            Carries(headers, key, Mac("sha256=hex", id, body, "None"))
       [] config.verifier = "HEADER_BASED" ->
            /\ DOMAIN config.headers # {}
            /\ \A h \in DOMAIN config.headers :
                  Carries(headers, h, Literal(config.headers[h]))
       [] config.verifier = "SLACK_BASED" -> config.urlVerified \/ "challenge" \in body
       [] config.verifier = "STRIPE" ->
            /\ "api_version" \in body
            /\ Carries(headers, "Stripe-Signature", Mac("t,v1=hex", id, body, "now"))
       [] config.verifier = "TWITTER" ->
            Carries(headers, key, Mac("sha256=base64", id, body, "None"))
       [] OTHER -> FALSE

\* A Slack body with a challenge is the URL handshake: answered, never queued.
Handshake(config, body) == config.verifier = "SLACK_BASED" /\ "challenge" \in body

-----------------------------------------------------------------------------
(* The server's own steps.                                                 *)

RegisterWait(w) ==
  /\ flows[w].status = "RUNNING"
  /\ ~ flows[w].registered
  /\ flows' = [flows EXCEPT ![w].registered = TRUE]
  /\ UNCHANGED <<defs, hooks, queue>>

\* The whole bucket: every registered task the event satisfies completes.  An event
\* whose webhook was removed since satisfies none.
Matched(e) == {w \in Flows : /\ hooks[e.hook] # None
                             /\ flows[w].status = "RUNNING"
                             /\ flows[w].registered
                             /\ flows[w].name = hooks[e.hook].receiver
                             /\ flows[w].matches \subseteq e.body}

Dispatch(e) ==
  /\ queue' = queue \ {e}
  /\ flows' = [w \in Flows |->
                 IF w \in Matched(e)
                 THEN [flows[w] EXCEPT !.status = "COMPLETED", !.by = e.by]
                 ELSE flows[w]]
  /\ UNCHANGED <<defs, hooks>>

\* An operator or a policy of the server ends an instance.
Abort(w) ==
  /\ flows[w].status = "RUNNING"
  /\ \E s \in Terminal \ {"COMPLETED"} : flows' = [flows EXCEPT ![w].status = s]
  /\ UNCHANGED <<defs, hooks, queue>>

ConductorNext ==
  \/ \E w \in Flows : RegisterWait(w) \/ Abort(w)
  \/ \E e \in queue : Dispatch(e)
=============================================================================
