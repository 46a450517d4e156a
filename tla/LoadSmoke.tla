----------------------------- MODULE LoadSmoke -----------------------------
(***************************************************************************)
(* The load driver (conductor-smoke/load_smoke.py): one definition and one *)
(* webhook for all, then `total` workflows, at most `concurrency` at a     *)
(* time, each started, fired at through the emitter and polled; then the   *)
(* cleanup, the report and the exit code.                                  *)
(*                                                                         *)
(* The conductor is Conductor, the emitter what FireService promises of    *)
(* it: an event may still reach the conductor after the driver gave up on  *)
(* the call.  The first SIGINT cancels the main task, which notices where  *)
(* it next awaits, and the second interrupts whatever runs (asyncio.run as *)
(* of Python 3.11).                                                        *)
(***************************************************************************)
EXTENDS Conductor, Naturals

CONSTANTS Runs,         \* the workflows, told apart by their idx
          Warmup,       \* those left out of the latency figures
          Secret,       \* the secret of hmac_case
          Parent,       \* the definition's name and the webhook's id,
          Hook,         \* made of the driver's run id
          CommandLines  \* --concurrency and --keep-defs of each

ASSUME WarmupAmongRuns     == Warmup \subseteq Runs
ASSUME ConcurrencyPositive ==
  CommandLines \subseteq [concurrency : Nat \ {0}, keep_defs : BOOLEAN]
ASSUME OneOfEach == Names = {Parent} /\ Hooks = {Hook} /\ Flows = Runs /\ Sources = Runs
ASSUME NoneIsNoExitCode == None # 0

VARIABLES args,         \* its command line
          stage,        \* where the driver is
          sigint,       \* the first SIGINT: "none", "pending" or "raised"
          report,       \* what it printed, None before
          exit,         \* its exit code, None before
          permits,      \* of the semaphore
          pc,           \* where each run is
          status,       \* run.status
          polled,       \* last_status of its poll
          error,        \* run.error: "none", "exception" or "poll timeout"
          fired,        \* run.t_event_fired is set
          deliveries,   \* FireService: how often the conductor got its event
          told,         \* FireService: what /fire told it
          littered      \* history: a registration or a removal did not end well

driverVars  == <<args, stage, sigint, report, exit>>
runVars     == <<permits, pc, status, polled, error, fired>>
serviceVars == <<deliveries, told>>
vars        == <<conductorVars, driverVars, runVars, serviceVars, littered>>

Service == INSTANCE FireService WITH Callers <- Runs

-----------------------------------------------------------------------------
(* What the driver registers and sends.                                    *)

\* Mutation: the waiting task matches what all runs have in common.
ConditionsOnRunId(r) == {<<"runId", Parent>>}

\* "$.idx" of the event must be the workflow's own idx.
Conditions(r) == {<<"idx", r>>}

Body(r) == {<<"idx", r>>, <<"runId", Parent>>}

Config ==
  [verifier |-> "HMAC_BASED", headerKey |-> "X-Sig", secretValue |-> Secret,
   receiver |-> Parent, headers |-> [h \in {} |-> ""], urlVerified |-> FALSE]

Signed(r) ==
  Sign("HMAC_BASED", SigningContext(Secret, Body(r), "X-Sig", "", "None")).headers

-----------------------------------------------------------------------------
Init ==
  /\ ConductorInit
  /\ Service!Init
  /\ args \in CommandLines
  /\ stage = "ping" /\ sigint = "none" /\ report = None /\ exit = None
  /\ permits = args.concurrency
  /\ pc = [r \in Runs |-> "waiting"]
  /\ status = [r \in Runs |-> "PENDING"]
  /\ polled = [r \in Runs |-> "UNKNOWN"]
  /\ error = [r \in Runs |-> "none"]
  /\ fired = [r \in Runs |-> FALSE]
  /\ littered = FALSE

(* The driver.                                                             *)

Goto(s) == stage' = s /\ UNCHANGED <<args, sigint, report, exit>>

\* A cancellation that found nothing left to await still ends the main task.
End(code) ==
  /\ stage' = "end"
  /\ exit' = IF sigint = "none" THEN code ELSE 130
  /\ UNCHANGED <<args, sigint>>

\* Uncaught: a traceback, SIGINT or not.
Crash == stage' = "end" /\ exit' = 1 /\ UNCHANGED <<args, sigint, report>>

Ping ==
  /\ stage = "ping"
  /\ \/ Goto("register_wf")
     \/ End(2) /\ UNCHANGED report
  /\ UNCHANGED <<conductorVars, runVars, serviceVars, littered>>

\* Nothing is removed when a registration fails: the try has not begun.
RegisterWorkflow ==
  /\ stage = "register_wf"
  /\ \/ PutDef(Parent, {"idx"}) /\ Goto("register_webhook") /\ UNCHANGED littered
     \/ (PutDef(Parent, {"idx"}) \/ UNCHANGED defs) /\ Crash /\ littered' = TRUE
  /\ UNCHANGED <<hooks, flows, queue, runVars, serviceVars>>

RegisterWebhook ==
  /\ stage = "register_webhook"
  /\ \/ CreateHook(Hook, Config) /\ Goto("run") /\ UNCHANGED littered
     \/ (CreateHook(Hook, Config) \/ UNCHANGED hooks) /\ Crash /\ littered' = TRUE
  /\ UNCHANGED <<defs, flows, queue, runVars, serviceVars>>

Over == {"done", "cancelled", "abandoned"}

AfterRuns == IF args.keep_defs THEN "report" ELSE "delete_webhook"

\* Mutation: the first run that fails ends the gathering.
GatherFirstFailure ==
  /\ stage = "run" /\ sigint = "none"
  /\ (\A r \in Runs : pc[r] \in Over) \/ (\E r \in Runs : error[r] = "exception")
  /\ Goto(AfterRuns)
  /\ UNCHANGED <<conductorVars, runVars, serviceVars, littered>>

\* No worker raises, so gather waits for all of them.
Gather ==
  /\ stage = "run" /\ sigint = "none"
  /\ \A r \in Runs : pc[r] \in Over
  /\ Goto(AfterRuns)
  /\ UNCHANGED <<conductorVars, runVars, serviceVars, littered>>

\* Every worker is cancelled where it waits, which `except Exception` lets pass.
CancelRuns ==
  /\ pc' = [r \in Runs |-> IF pc[r] = "done" THEN "done"
                           ELSE IF pc[r] = "start" THEN "abandoned" ELSE "cancelled"]
  /\ told' = [r \in Runs |-> IF pc[r] = "firing" THEN "unknown" ELSE told[r]]
  /\ UNCHANGED <<conductorVars, permits, status, polled, error, fired, deliveries, littered>>

\* Mutation: the removals follow the gathering and are in no finally.
CancelNoFinally ==
  /\ stage = "run" /\ sigint = "pending"
  /\ sigint' = "raised"
  /\ stage' = "end" /\ exit' = 130 /\ UNCHANGED <<args, report>>
  /\ CancelRuns

\* The finally clause runs all the same, and then nothing is reported.
Cancel ==
  /\ stage = "run" /\ sigint = "pending"
  /\ sigint' = "raised"
  /\ IF args.keep_defs THEN stage' = "end" /\ exit' = 130
                 ELSE stage' = "delete_webhook" /\ UNCHANGED exit
  /\ UNCHANGED <<args, report>>
  /\ CancelRuns

\* A removal that fails is not noticed, and is not tried again.
DeregisterWebhook ==
  /\ stage = "delete_webhook"
  /\ Goto("delete_wf")
  /\ \/ DeleteHook(Hook) /\ UNCHANGED littered
     \/ UNCHANGED hooks /\ littered' = TRUE
  /\ UNCHANGED <<defs, flows, queue, runVars, serviceVars>>

DeregisterWorkflow ==
  /\ stage = "delete_wf"
  /\ IF sigint = "raised" THEN End(130) /\ UNCHANGED report ELSE Goto("report")
  /\ \/ DeleteDef(Parent) /\ UNCHANGED littered
     \/ UNCHANGED defs /\ littered' = TRUE
  /\ UNCHANGED <<hooks, flows, queue, runVars, serviceVars>>

-----------------------------------------------------------------------------
(* The report.  Figures are the sets of runs they are computed from.       *)

Figures ==
  LET ok   == {r \in Runs : status[r] = "COMPLETED"}
      lost == {r \in Runs : error[r] = "poll timeout"}
  IN [ok |-> ok, lost |-> lost, failed |-> Runs \ (ok \cup lost),
      throughput |-> ok,
      e2e        |-> ok \ Warmup,
      settle     |-> {r \in Runs : fired[r]}]

\* Mutation: only what failed counts.
ExitCodeNotStrict(rep) == IF rep.failed = {} THEN 0 ELSE 1

ExitCode(rep) == IF rep.failed = {} /\ rep.lost = {} THEN 0 ELSE 1

BuildReport ==
  /\ stage = "report"
  /\ report' = Figures
  /\ End(ExitCode(Figures))
  /\ UNCHANGED <<conductorVars, runVars, serviceVars, littered>>

Interrupt ==
  /\ stage # "end"
  /\ sigint = "none"
  /\ sigint' = "pending"
  /\ UNCHANGED <<conductorVars, runVars, serviceVars, args, stage, report, exit, littered>>

\* Where the driver does not await, the second SIGINT is a KeyboardInterrupt at once,
\* which no handler but main's catches.
InterruptAgain ==
  /\ sigint # "none"
  /\ stage \notin {"run", "end"}
  /\ stage' = "end" /\ exit' = 130
  /\ littered' = (littered \/ stage \notin {"ping", "report"})
  /\ UNCHANGED <<conductorVars, runVars, serviceVars, args, sigint, report>>

-----------------------------------------------------------------------------
(* One run.                                                                *)

Running == stage = "run" /\ sigint = "none"

Set(r, label) == pc' = [pc EXCEPT ![r] = label]

\* Mutation: a run that fails keeps its permit.
FinishKeepsPermit(r, s, e) ==
  /\ Set(r, "done")
  /\ status' = [status EXCEPT ![r] = s]
  /\ error' = [error EXCEPT ![r] = e]
  /\ permits' = IF e = "exception" THEN permits ELSE permits + 1

\* The worker leaves the semaphore however the run ended.
Finish(r, s, e) ==
  /\ Set(r, "done")
  /\ status' = [status EXCEPT ![r] = s]
  /\ error' = [error EXCEPT ![r] = e]
  /\ permits' = permits + 1

\* Any exception of the run, whatever took effect before it.
Except(r) == Finish(r, "FAILED", "exception")

\* Mutation: no semaphore.
AcquireUnbounded(r) ==
  /\ Running
  /\ pc[r] = "waiting"
  /\ permits' = permits - 1
  /\ Set(r, "start")
  /\ UNCHANGED <<conductorVars, driverVars, status, polled, error, fired, serviceVars, littered>>

Acquire(r) ==
  /\ Running
  /\ pc[r] = "waiting"
  /\ permits > 0
  /\ permits' = permits - 1
  /\ Set(r, "start")
  /\ UNCHANGED <<conductorVars, driverVars, status, polled, error, fired, serviceVars, littered>>

\* The reply may be an error or not come.
Start(r) ==
  /\ Running
  /\ pc[r] = "start"
  /\ \/ /\ StartInstance(r, Parent, Conditions(r))
        /\ Set(r, "fire")
        /\ UNCHANGED <<permits, status, error>>
     \/ Except(r) /\ UNCHANGED flows
  /\ UNCHANGED <<defs, hooks, queue, driverVars, polled, fired, serviceVars, littered>>

\* The conductor may apply a start nobody waits for any more.
LateStart(r) ==
  /\ pc[r] \in {"done", "abandoned"}
  /\ flows[r].status = "ABSENT"
  /\ StartInstance(r, Parent, Conditions(r))
  /\ UNCHANGED <<defs, hooks, queue, driverVars, runVars, serviceVars, littered>>

\* After the settle, a sleep that synchronises with nothing.
Fire(r) ==
  /\ Running
  /\ pc[r] = "fire"
  /\ Set(r, "firing")
  /\ UNCHANGED <<conductorVars, driverVars, permits, status, polled, error, fired,
                 serviceVars, littered>>

\* Mutation: the poll starts whatever /fire said.
FireAnsweredUnchecked(r) ==
  /\ Running
  /\ pc[r] = "firing"
  /\ \/ Service!Fired(r) \/ Service!Refused(r)
     \/ told' = [told EXCEPT ![r] = "unknown"]
  /\ fired' = [fired EXCEPT ![r] = TRUE]
  /\ Set(r, "poll")
  /\ UNCHANGED <<conductorVars, driverVars, permits, status, polled, error, deliveries, littered>>

\* /fire answers "fired" whatever status the conductor gave the event, and the driver
\* does not look at that status.
FireAnswered(r) ==
  /\ Running
  /\ pc[r] = "firing"
  /\ \/ /\ Service!Fired(r)
        /\ fired' = [fired EXCEPT ![r] = TRUE]
        /\ Set(r, "poll")
        /\ UNCHANGED <<permits, status, error>>
     \/ /\ Service!Refused(r) \/ told' = [told EXCEPT ![r] = "unknown"]
        /\ Except(r)
        /\ UNCHANGED fired
  /\ UNCHANGED <<conductorVars, driverVars, polled, deliveries, littered>>

\* A success may lack the status field.
Poll(r) ==
  /\ Running
  /\ pc[r] = "poll"
  /\ \/ \E s \in {flows[r].status, "UNKNOWN"} :
          /\ polled' = [polled EXCEPT ![r] = s]
          /\ IF s \in Terminal THEN Finish(r, s, "none")
             ELSE UNCHANGED <<pc, status, error, permits>>
     \/ Except(r) /\ UNCHANGED polled
  /\ UNCHANGED <<conductorVars, driverVars, fired, serviceVars, littered>>

\* 90 s without a terminal status.
PollTimesOut(r) ==
  /\ Running
  /\ pc[r] = "poll"
  /\ Finish(r, polled[r], "poll timeout")
  /\ UNCHANGED <<conductorVars, driverVars, polled, fired, serviceVars, littered>>

-----------------------------------------------------------------------------
(* The emitter delivers, during the call or after the driver gave up on it;*)
(* the conductor may refuse what it is given, or be unable to take it.     *)

Deliver(r) ==
  /\ pc[r] = "firing" \/ told[r] # "nothing"
  /\ Service!Deliver(r)
  /\ \/ /\ hooks[Hook] # None
        /\ Verified(hooks[Hook], Signed(r), Body(r))
        /\ Enqueue(Hook, Body(r), r)
     \/ UNCHANGED queue
  /\ UNCHANGED <<defs, hooks, flows, driverVars, runVars, littered>>

-----------------------------------------------------------------------------
DriverStep == \/ Ping \/ RegisterWorkflow \/ RegisterWebhook \/ Gather \/ Cancel
              \/ DeregisterWebhook \/ DeregisterWorkflow \/ BuildReport

RunStep(r) == Acquire(r) \/ Start(r) \/ Fire(r) \/ FireAnswered(r) \/ Poll(r)

Next ==
  \/ DriverStep \/ Interrupt \/ InterruptAgain
  \/ \E r \in Runs : RunStep(r) \/ PollTimesOut(r) \/ LateStart(r) \/ Deliver(r)
  \/ ConductorNext /\ UNCHANGED <<driverVars, runVars, serviceVars, littered>>

Spec == Init /\ [][Next]_vars

\* The event loop goes on, every httpx exchange ends within its timeout and the clock
\* reaches the deadline of a poll.  Emitter, conductor and operator owe nothing.
Fairness == WF_vars(DriverStep) /\ \A r \in Runs : WF_vars(RunStep(r)) /\ WF_vars(PollTimesOut(r))

FairSpec == Spec /\ Fairness

-----------------------------------------------------------------------------
(* Properties.                                                             *)

Statuses == Terminal \cup {"RUNNING", "UNKNOWN"}

TypeOK ==
  /\ stage \in {"ping", "register_wf", "register_webhook", "run", "delete_webhook",
                "delete_wf", "report", "end"}
  /\ sigint \in {"none", "pending", "raised"}
  /\ exit \in {None, 0, 1, 2, 130}
  /\ report # None => report \in [{"ok", "lost", "failed", "throughput", "e2e", "settle"}
                                    -> SUBSET Runs]
  /\ permits \in 0 .. args.concurrency
  /\ pc \in [Runs -> {"waiting", "start", "fire", "firing", "poll"} \cup Over]
  /\ status \in [Runs -> Statuses \cup {"PENDING"}]
  /\ polled \in [Runs -> Statuses]
  /\ error \in [Runs -> {"none", "exception", "poll timeout"}]
  /\ fired \in [Runs -> BOOLEAN]
  /\ deliveries \in [Runs -> 0 .. 1]
  /\ told \in [Runs -> {"nothing", "fired", "refused", "unknown"}]
  /\ littered \in BOOLEAN

\* Exit code 0 is the truth about the conductor: every one of the workflows is
\* COMPLETED there, and each by the event its own run fired.
CleanExitIsTrue ==
  exit = 0 => \A r \in Runs : flows[r].status = "COMPLETED" /\ flows[r].by = r

\* Every run is counted once, and a run is called lost only when its event did reach
\* the conductor: an event that never got there is a failure, not a loss.
LossesAreLosses ==
  report # None =>
     /\ report.ok \cup report.failed \cup report.lost = Runs
     /\ report.ok \cap report.lost = {}
     /\ \A r \in report.lost : told[r] = "fired" /\ deliveries[r] = 1

\* The driver never takes the webhook away from a run that still fires or polls.
CleanupWaits ==
  [][hooks[Hook] # None /\ hooks'[Hook] = None => \A r \in Runs : pc[r] \in Over]_vars

\* However the runs end, by themselves or by a SIGINT, nothing stays registered
\* unless it was to be kept or the conductor or a second SIGINT prevented it.
NothingLeftBehind ==
  stage = "end" /\ ~ littered /\ ~ args.keep_defs => defs[Parent] = None /\ hooks[Hook] = None

\* The driver ends, however many of its runs fail and hold up the others.
LoadEnds == <>(stage = "end")

\* Each run is a call with one verdict, of which "yes" is a COMPLETED of its own:
\* EndToEnd under this mapping.
Verdict(r) == IF pc[r] # "done" THEN "none"
              ELSE IF error[r] = "exception" THEN "broken"
              ELSE IF status[r] = "COMPLETED" THEN "yes" ELSE "no"

Promise == INSTANCE EndToEnd WITH
  Calls     <- Runs,
  asked     <- {r \in Runs : pc[r] = "done" \/ flows[r].status # "ABSENT"},
  completed <- {r \in Runs : flows[r].status = "COMPLETED" /\ flows[r].by = r},
  verdict   <- [r \in Runs |-> Verdict(r)]

KeepsPromise == Promise!Spec
=============================================================================
