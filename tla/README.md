# Verification of webhook-emitter

TLA+ models of the webhook emitter (`emitter.py`, `signers.py`, `scenarios.py`)
and of the drivers that use it (`conductor-smoke/`), checked with TLC
on small instances, and theorems about all of them, proved with TLAPS for every
number of calls, runs, targets, workflows and cases.

## 1. Inventory: the system and its parts

The repository is one small HTTP service and a set of command-line harnesses that
exercise a *conductor* workflow server through it.

```
  caller --POST /fire, /fire-named--> emitter --signed POST--> any target
  caller --POST /scenarios/wait-for-webhook--> emitter
                                                 |  PUT definition, POST webhook,
                                                 |  POST start, signed event, GET status
                                                 v
  smoke harnesses --the same API calls-->     conductor
        \--POST /fire--> emitter --signed event--^
```

### 1.1 Signers (`signers.py`)
*State* none. *Operations* `sign(verifier, ctx)` and the seven schemes it
dispatches to. *Correctness* the signature covers the bytes that are sent, with the
key and the timestamp they are sent with; an unknown verifier is a `KeyError`.
*Hard* HMAC_BASED decodes its secret first, SENDGRID needs a PEM key and an optional
package: both raise late, in the middle of a handler.

### 1.2 Bearer-token gate (`emitter.py:36-64`)
*State* `EMITTER_TOKEN`, read from the environment per request. *Operations*
`require_token`, `_consteq`. *Correctness* with a token set, only a request that
carries exactly that token passes. *Hard* `zip` stops at the shorter string, so the
length test carries the weight; each endpoint has to name the dependency itself.

### 1.3 Emitter service (`emitter.py`, `systemd/webhook-emitter.service`)
*State* `_TEMPLATES`, loaded once by `main()`; the calls under way, one thread of
the pool each. *Operations* `/healthz`, `/verifiers`, `/templates`, `/fire`,
`/fire-named`; start, crash and restart by systemd. *Interactions* one POST to the
target per call, with a 15 s timeout and no retry. *Correctness* at most one delivery
per call, and a caller is told "delivered" only of an event the target got; a refused
call never reaches the target; what is sent is one whole template of the file the
process read; every call ends and the service comes back. *Hard* timeouts racing late
deliveries, crashes with calls under way, edits of the config file, a bad entry in it,
a pool that silent targets and scenario calls fill.

### 1.4 Scenario endpoint (`scenarios.py`)
*State* per call: run id, phase, ids learnt, phase timings, last status polled.
*Operations* `wait_for_webhook`: register the definition, register the webhook, start,
sign and fire, poll to a deadline, answer. *Interactions* six kinds of HTTP exchange
with the conductor, between which the conductor and other calls move. *Correctness*
a yes only for the call's own workflow completed by the call's own event; a terminal
status that is reported is true; a phase that is timed took place; what is
registered agrees with what is signed, and the requests for which it does not are known;
every call is answered. *Hard* concurrency,
partial failure after each exchange, the race of the event with the registration of
the waiting task, the deadline.

### 1.5 Conductor (external)
The server the endpoint and the harnesses talk to. It is not in the repository and
is modelled from how `scenarios.py` and `conductor-smoke/` use and describe it.

### 1.6 Import-time mounting (`emitter.py`, `scenarios.py:124-135`)
`Depends(_require_token())` runs while `scenarios` is being imported and imports
`emitter`, which imports `scenarios`. Which one is imported first decides what the
router holds when it is included. The console entry imports `emitter` first:
`require_token` (line 41) exists by the time line 178 imports `scenarios`, and the router
is included with its route. `python emitter.py` works too: the file is `__main__`,
`scenarios` imports a second copy as `emitter`, and `__main__` includes the router once
that is through. Whoever imports `scenarios` first gets an `emitter.app` that included
the router before it had a route, and a log line that says it is mounted.

### 1.7 Smoke harnesses (`conductor-smoke/*.py`)
`smoke.py` runs the scenario's flow for one verifier after the other through a running
emitter, each with a definition, a webhook and a workflow of its own;
`multi_verifier_smoke.py` has three webhooks with three verifiers on one definition;
`replay_smoke.py` fires one event twice; `bucket_smoke.py` and `dual_emitter_smoke.py`
fire one event, or one from each of two emitters, at several workflows on one match;
`composite_smoke.py` runs a workflow in which the webhook is one of four parallel
branches, checks it task by task, then one that terminates itself, and removes what it
registered. *State* the ids they learnt, the workflows still pending, the verdicts.
*Correctness* PASS only when the workflow completed, by the event that was meant to; what
a case registers agrees with what it fires; one case that fails costs no other its turn;
the checks fit the definitions they check; nothing stays registered that was to go, not
even after a SIGINT. *Hard* a sleep is all that orders the registration of waiting tasks
before the event; several workflows share one match; an event delivered late finds the
workflow of the next case; exceptions leave through `finally`.

### 1.8 Load driver (`conductor-smoke/load_smoke.py`)
*State* one definition and one webhook for all runs, the permits of a semaphore, per run
its status, error and times. *Operations* ping, register, run all with bounded
concurrency, remove, report, exit code. *Interactions* start and poll at the conductor,
`/fire` at the emitter, SIGINT through asyncio. *Correctness* exit 0 only if every
workflow completed by its own event; each run counted once, and "lost" only of an event
that was delivered; the webhook stays as long as a run needs it and goes however the
runs end; the driver ends. *Hard* exceptions of one run among many, lost replies, late
events, cancellation in the middle.

### 1.9 Persistence matrix (`conductor-smoke/matrix.sh`)
*State* the targets still to run, two result lists, whatever is on `CONDUCTOR_PORT`.
*Operations* down, build, up, wait for health, harness, down, judge. *Correctness* each
target judged once, a PASS earned against the target's own stack, nothing left up.
*Hard* `set -e` is off inside `if run_one`, so failures of docker pass unnoticed; the port
outlives the stack it was asked for; the health probe (line 89) has no time limit, so that
a server that accepts it and never answers holds the script up for as long as it lives.

### 1.10 Plan
Core first: what a caller of the service is told, then what the service does, then the
drivers.

| Step | Modules | State |
|---|---|---|
| 1 | `Signers`, `Auth`, `Conductor`, `EndToEnd`, `Scenario`, `ScenarioProofs` | done |
| 2 | `FireService`, `Emitter`, `EmitterProofs` | done |
| 3 | `LoadSmoke` (composes `Conductor`, `FireService`, `EndToEnd`), `Matrix` and the proofs about them | done |
| 4 | `Fanout`: `bucket_smoke.py` and `dual_emitter_smoke.py` on `Conductor` and `FireService`; `FanoutProofs` | done |
| 5 | `Smoke`: `smoke.py`, `multi_verifier_smoke.py` and `replay_smoke.py`, three plans of remote calls on `Conductor` and `FireService`; `SmokeProofs` | done |
| 6 | `Composite`: `composite_smoke.py` with its task graphs, on `Conductor` and `FireService`; `CompositeProofs` | done |

Every safety property, action property and refinement that a passing run checks is now a
theorem. What remains with the model checker is liveness, and what remains of the plan is
to state more: that the events of the three harness modules keep `FireService`'s promise as
the drivers see it, and action properties of their plans (a step once taken is not taken
again, a verdict does not change).

## 2. How the models correspond to the code

| Module | Models | State and actions |
|---|---|---|
| `Optional` | Python's `None` | a constant different from every other value |
| `Signers` | `signers.py` | one operator per scheme; `Sign` is the dispatch |
| `Auth` | `emitter.py:36-64` | `RequireToken`, `Consteq`; the token is a sequence of codes |
| `Conductor` | the conductor, external | definitions, webhooks, instances, a queue of accepted events; its worker, the registration of waiting tasks and other ends are its own actions |
| `EndToEnd` | the promise of `scenarios.py:1-13` | who was asked, whose event completed their workflow, what each was told |
| `Scenario` | `scenarios.py` | one action per HTTP exchange of each call, on top of `Conductor` |
| `FireService` | the promise of `POST /fire` | deliveries per call and what the caller knows |
| `Emitter` | `emitter.py`, the systemd unit | the process, its file and templates, one action per step of a call, network and target |
| `LoadSmoke` | `load_smoke.py` | the driver's stages, one action per exchange of each run, SIGINT; on top of `Conductor`, with `FireService` for the emitter |
| `Matrix` | `matrix.sh` | the script's steps, the server that has the port, docker failing or not |
| `Fanout` | `bucket_smoke.py`, `dual_emitter_smoke.py` | the driver's stages, one action per start, fire and poll; on top of `Conductor`, with `FireService` for the emitters |
| `Smoke` | `smoke.py`, `multi_verifier_smoke.py`, `replay_smoke.py` | a plan of remote calls per driver and the step it is at, one action per kind of call; on top of `Conductor`, with `FireService` for the emitter |
| `Composite` | `composite_smoke.py` | the task graphs of its definitions and an engine that runs them; the driver's plan with its two `try` blocks; on top of `Conductor`, with `FireService` for the emitter |
| `MCScenario`, `MCEmitter`, `MCLoadSmoke`, `MCMatrix`, `MCFanout`, `MCSmoke`, `MCComposite` | instances for TLC | requests, secrets, files, runs, targets, command lines |
| `ScenarioProofs`, `EmitterProofs`, `LoadSmokeProofs`, `MatrixProofs`, `FanoutProofs`, `SmokeProofs`, `CompositeProofs` | theorems about the module of that name | its inductive invariant in named parts, one lemma per action (section 5) |

### Scenario
`pc[c]` is where call *c* is in the handler, named after the phase the code is about
to time. `WaitForWebhook` is the dependency and the verifier check; `RegisterWorkflow`,
`RegisterWebhook`, `StartWorkflow`, `Fire` and `Poll` are the exchanges;
`SigningRaises` is an exception out of `sign`; `DeadlinePasses` is the loop's test
failing. Each exchange chooses its reply among what can happen: applied and confirmed,
refused with an error status (applied or not), lost with a transport error or timeout
(applied or not), and a success whose body the client cannot use. `raise_for_status`
leads to the handler of `httpx.HTTPStatusError`; every other exception leaves the
endpoint as a bare 500. `faulted` is a history variable: whether an exchange of the
call went wrong on the network's or the server's account.

A body, a match condition and the field that satisfies it are one value, so that an
event satisfies a task when the task's conditions are among the event's fields; the two
forms from which `_payload_from_matches` derives nothing are named `nested` and
`dollar`. uuid4 and the conductor's ids are fresh, so the call itself stands for its
run id, webhook id and workflow id; the mutant `RunIdShared` drops exactly that.
MACs are symbolic: a record of scheme, key, body and timestamp.

`WellFormed` is what the descriptions of the fields ask for (lines 35-60) and no more. The
code refuses some of these requests all the same, and `RefusalsAreExact` says which:
- *turned away* (a delivery the conductor refuses): HEADER_BASED with a header other than
  `X-Sig`, which is registered with the webhook (lines 172-173) and never sent (lines 117-121,
  197), unless it is the Content-Type that is sent anyway; STRIPE with a body that has no
  `api_version`, whether it was given or derived from `matches` (line 143);
- *unsignable* (HTTP 500 after the workflow was started): SENDGRID with a secret that is no
  PEM key, the generated one (lines 111-114) included, or without the optional package.

`Sent` is what the event is sent with: the signer's headers over the call's Content-Type;
what httpx adds of its own is left out. Every other well-formed request is accepted unless an
exchange of its call fails. What the conductor makes of a SENDGRID signature is unknown: that
it refuses one counts as a fault of its own.

### Emitter
The operator may edit the file and the process may crash at any moment; `Boot` is
`main()`. Handlers are plain functions, which Starlette runs on a bounded pool of
threads; only a handler waiting for the target keeps its thread for long, so
`FreeThread` counts those. `Post` puts a message on the wire, `Reach` and `Vanish` are
what the network may do with it, also after `Fail` (15 s, a transport error) or `Crash`
ended the call. `Told` maps what a caller has in hand to `FireService`. A call of the
scenario endpoint is here only what it is to the others: a thread taken between
`RunScenario` and `EndScenario`. What it does on it is module `Scenario`.

### LoadSmoke
`args` is the command line, one of `CommandLines`: `--concurrency` and `--keep-defs`.
`stage` is where `amain` is and `pc[r]` where run *r* is. `Acquire` is `async with sem`,
`Start`, `Fire`/`FireAnswered` and `Poll` the exchanges of `run_one_workflow`, `Except` its
`except Exception`, `Finish` its end and the release of the permit. The emitter is what
`FireService` promises: `Deliver` may come during the call or after the driver gave up
on it, and hands the conductor the signed event, which queues it or does not. The first
SIGINT cancels the main task: `Cancel` throws the cancellation into the runs where they
wait and enters the `finally` clause; outside the gathering the task notices nothing
until it ends (`End`). A later SIGINT interrupts synchronous code (`InterruptAgain`).
`littered` is a history variable: a registration or a removal went wrong. The report's
figures are the sets of runs they are computed over.

### Matrix
One action per command of `run_one` and of the loop; a turn of `wait_health` asks the
port and reads the logs in one step, and a harness is one step with an exit code.
`occupant` is the backing whose server has the port, `foreign` for any other server. All
compose files are used from one directory and so belong to one compose project, which is
why `Down` removes whichever stack is up. `KEEP_UP` is whether `--keep-up` was given.
`tested` and `disturbed` are history variables. A server that is `hung` accepts connections
and does not answer: `WaitHealth` has no step then (`Hung`), because the probe at line 89 does
not return. The same command at line 79 asks the emitter before anything is started; there the
model leaves it open whether the step is ever taken.

### Fanout
`driver` says which of the two drivers runs; they have the stages in common, and differ
in how many events they fire, how they start and poll, and what a poll that fails does to
them (`bucket` goes on, `dual` raises). One Conductor webhook and one definition serve all
workflows, so `Dispatch` of one event completes every registered one. `Fire` is a thread
leaving the barrier, `FireAnswered` the reply to `/fire`, `Deliver` what the emitter may do
with the event meanwhile or later. `gaveUp` is a history variable: an exception nobody
catches, a refused delivery or a deadline ended the driver.

### Smoke
`driver` is chosen once; `Plan` is the sequence of its remote calls, each with the number
of its workflow, webhook or event, and `at` the one it is at. A call of `/fire` takes two
steps, `Fire` and `FireAnswered`, and `Deliver` hands the conductor the event during the
call or after the driver gave up on it. `Exchange` is a call that is confirmed, or raises,
applied or not: `Fail` gives the case a FAIL and goes on with the next case in `smoke`,
whose `run_one` catches every exception, and ends the other two drivers with a
traceback. `code` is the conductor's status in the emitter's answer. The plan of
`smoke` is made from `selected`, so a verifier named twice shares its definition and
workflow name with its namesake, as in the code.

### Composite
A definition is a set of pairs of a task and one that waits for it: the fork's branches,
what the join lists, the branches of the dynamic fork. `Graph` makes of the pairs what each
task waits for. `Has` is the presence of a task in
the workflow the poll returns, which is what `_tasks_by_ref` reads. The engine is
external: `Decide` completes all system tasks that are ready in one go, as a decider
does; HTTP and JOIN tasks, iterations of the loop, start and end of the child, the waiting
task and TERMINATE are steps of their own. The waiting task of the parent is an entry of
`flows` in `Conductor`; it exists from the start and can register once the fork has
reached it. `EndInstance` stands for every end from outside under one status, because the
checks treat FAILED and TIMED_OUT as they treat TERMINATED, or as less of a success.
The driver is a plan again; steps 5 to 7 and 12 to 13 are in `try` blocks. `Raise` is an
exception on its way out, `raising` that it is passing a `finally` clause. `Interrupt` is
SIGINT: it is no `Exception`, so that a removal does not swallow it and the removals after
it are skipped. Exit code 1 stands for 130 too. `littered` and `disturbed` are history
variables.

## 3. What the runs check

| Run | Instance | Shows |
|---|---|---|
| `scenario_pair` | two concurrent calls, same secret and matches, one accepted and one refused kind of request | `YesOnlyByOwnEvent`, `EventAfterStart`, and that `Scenario` implements `EndToEnd` (`KeepsPromise`) in every interleaving of the calls, the conductor and the faults |
| `scenario_requests` | one call with any of the requests of `ManyRequests`: each verifier with right and wrong secret, headers, payload; tokens that are missing, shorter, longer, permuted | `TerminalVerdictIsTrue`, `PhasesAreReal`, `RefusalsAreExact`, and under fairness `EveryCallAnswered` |
| `scenario_yes_no` | the same | finding: a transport error or an unusable reply is answered with a bare 500, not with the promised yes/no |
| `scenario_secret` | the same | finding: the secret generated for SENDGRID is no private key |
| `emitter` | two calls on one thread, crashes, four contents of the file | `OnlyAdmittedReach`, `SentAsConfigured`, the implementation of `FireService`, and under fairness `EveryCallEnds`, `ServiceComesBack` |
| `load` | two runs at once with the removals, or in turn on one permit with `--keep-defs` | `CleanExitIsTrue`, `LossesAreLosses`, `CleanupWaits`, `NothingLeftBehind`, that a run's verdict keeps the promise of `EndToEnd`, and under fairness `LoadEnds` |
| `matrix_all` | three targets, one without a compose file, four turns of `wait_health`, with and without `--keep-up`; servers that fail, recover or stop answering | `EveryTargetJudged`, `PassWasTested`, `NothingLeftUp`, and under fairness `MatrixEnds` |
| `matrix_foreign` | the same | finding: PASS for a backing the harness never reached |
| `fanout` | two workflows on one match, one event or one from each of two emitters | `PassIsTrue`, `NoFalseAlarm`, and under fairness `FanoutEnds` |
| `fanout_both` | the same | finding: PASS of the dual driver although one of the events had no effect |
| `smoke` | all three drivers; `smoke` with its six verifiers two at a time, with one named twice, an unsupported one, none | `PassIsOwn`, `CasesAgree`, `EveryCaseJudged`, `ReplayIsSkipped` |
| `composite` | the two workflows and the child, with and without `--keep-defs` | `AllBranchesJoin`, `ChecksFitDefinitions`, `CleanExitIsTrue`, `NothingLeftBehind` |

What the properties say of the last two:

- `PassIsOwn`. A verifier's PASS means that its own event was accepted and completed its
  own workflow, if its definition is its own. Where cases share a definition
  (`multi_verifier_smoke.py`, or a verifier named twice) this is true only of a summary in
  which all passed: an event that reaches the conductor after its poll gave up completes
  the workflow of the next case, which is then a PASS of a verifier whose own event did
  nothing. TLC finds that behaviour when the condition `Alone(i) \/ exit = 0` is left out.
- `ReplayIsSkipped`. "second is a no-op against an already-terminal task" is printed from
  the two status codes alone; it is true when the poll between the two events has seen
  COMPLETED. After a poll that timed out the sentence is printed all the same and may be
  false.
- `ChecksFitDefinitions`. An instance that ended and that nobody ended from outside passes
  every check, so a check that fails is the server's or the network's doing.
- `NothingLeftBehind` has as conditions that every registration and removal went well; the
  code removes nothing when the second registration fails, and ignores failed removals.

*Bounds.* Calls meet only at the conductor, by webhook and workflow name, so two calls
show every pairwise interference; the theorems of section 5 drop the bound. One call is
enough for what a call computes from its request, and leaves room for every request.
Two callers on one thread are the smallest pool that can be full with a call waiting
behind it. Two runs of the load driver are enough for one to take the other's event, fail
before the other, or hold its permit; the two command lines are those that make them wait
for each other and those that let them meet. Three targets give each stack one before and one after it; four turns of the
health loop, of which the last two read the logs, stand for sixty. Two workflows are what the dual
driver starts, and for the bucket the smallest number of which one can complete without the
other. Two cases of `smoke` are enough for one to fail before, after or on top of the
other; three and four are what the `multi` and `replay` plans contain. The composite's
instances are its own. Nothing is capped by a guard: every state space is finite because a call
never goes back.

Every property of a passing run has a mutant: a definition of the model changed the way
a plausible bug in the code would, under which TLC finds the property violated. Mutants
stand before the definition they mutate, marked "Mutation".

## 4. Fairness
`Scenario`: weak fairness of each call's steps and of its deadline. The code justifies
it: every exchange runs under `httpx.Client(timeout=10.0)`, so it ends, and
`time.monotonic()` reaches a finite deadline. The conductor owes nothing: a call must
be answered though its workflow never moves. An infinite `timeout_s` is outside the
assumption.

`Emitter`: weak fairness of `Boot` (`Restart=on-failure` in the systemd unit, after 5 s)
and of each call's steps (15 s timeout). Network, target, operator and crashes owe
nothing. Fairness of a call that waits for a thread is weak: the threads it waits for
end by themselves, and no call keeps overtaking it because each call runs once. A scenario
call ends by its own deadline, as in `Scenario`; an infinite `timeout_s` would hold its
thread as long as its workflow runs.

`LoadSmoke`: weak fairness of the driver's next step, of each run's steps and of the poll's
deadline. The event loop runs every ready task, each request has a timeout (5 to 30 s)
and the poll one of 90 s. A semaphore hands permits on in order; weak fairness is less
than that and suffices, because each run takes a permit once. Emitter, conductor and
SIGINT owe nothing.

`Matrix`: weak fairness of the script's commands, docker and the harness, which are taken to
end: the harnesses are the drivers above, with timeouts of their own; docker is assumed to
return. A turn of `wait_health` is owed strong fairness and no more: it has `curl -sf` without
`--max-time` in it, so it ends if the server answers or goes away time and again. A server
that hangs for ever makes the script wait for ever, and `MatrixEnds` says that nothing else
does: not a stack that never becomes healthy, for which the loop counts to `HEALTH_TIMEOUT`.
The probe of the emitter at line 79 is owed nothing, and `MatrixEnds` starts behind it. No
server ever has to become healthy.

`Smoke` and `Composite` assume none: their properties are about what is true when they
end.

`Fanout`: weak fairness of the driver's next step and of each deadline: each request has
a timeout (5 to 20 s) and polling one of 60 s (bucket, for all) or 15 s (dual, for each).
A poll itself owes nothing. Emitters and conductor owe nothing.

## 5. What is proved

Each proof module has the same plan: an inductive invariant `IInv`, a conjunction of named
parts; one lemma per action that the action keeps it; `Invariance`, `Spec => []IInv`; and
the properties as consequences. `IInv` was checked by TLC on the instance of the module's
run before it was proved. The properties themselves are not inductive: most speak of the
end, and hold because of what the conductor, the network or the process may have done long
before. `IInv` carries that.

Assumptions on constants are stated where the constants are declared, and every one is
evaluated by a run. They are of four kinds: ids are what the code makes them
(`FreshIds`, `OneOfEach`, `SharedIds`, `Numbered`, `Named`, `OneOfEachTarget`); sizes are
sensible (`WorkersPositive`, `ConcurrencyPositive`, `CountsAreNatural`, `EnoughCases`,
`SelectionsFit`, `WarmupAmongRuns`, `TargetsAreBackings`); the config file is one
`_load_templates` can have read (`FilesHoldTemplates`) and tokens are strings
(`TokensAreStrings`); and `None` and `"foreign"` are none
of the values they stand beside (`NoneApart`, `NoneIsNoExitCode`, `ForeignIsNoBacking`),
which TLA+ would otherwise leave open. `CryptographyChoice` says that the optional package
is installed or not.

### Scenario, for any set of calls and of requests
- `Invariance`, with `IInv` the conjunction of `TypeOK` and `Links`. `Links` ties each id
  a call holds to what the conductor keeps under it (the webhook names the call's own
  workflow, an event in the queue was fired by the call whose webhook it came through and
  after its workflow was started, a completed workflow was completed by its own call's
  event), and ties what a call has polled or answered to the status of its workflow, which
  never changes once it is terminal.
- `TypeCorrect`, `YesIsOwn` (`YesOnlyByOwnEvent`), `VerdictsAreTrue`
  (`TerminalVerdictIsTrue`), `EventsComeLater` (`EventAfterStart`): consequences of it.
- `PhasesTookPlace` (`PhasesAreReal`) needs more: `Timed`, which says what each phase that
  is timed has left at the conductor, in the call and in its answer, and which phases a
  call at each place has behind it.
- `RefusalsAreAsStated` (`RefusalsAreExact`) needs `Welcome`, which carries from the delivery
  to the answer that a call that polls was neither unsignable nor turned away. It rests, verifier
  by verifier, on what `Sign` makes of a well-formed request (`SignsUnlessUnsignable`) and on
  what the conductor makes of the headers that are sent (`AcknowledgedUnlessTurnedAway`).
- `ScenarioKeepsPromise`: `Spec => Promise!Spec`. Each action maps to a step of
  `EndToEnd` or to a stutter, step by step, under the invariant.

### Emitter, for any callers, requests, config files and size of the pool
- `Invariance`. A message may arrive long after its call was answered or the process has
  died, so what is known of it is carried from the `Post` on: `Traced` (only an admitted
  call leaves a trace on the wire or at the target), `Once` (one message per call, in one
  place), `Refusal` (a call that is told it was refused left none), `OwnTemplates` (a
  process has the templates of the file it read).
- `Typed`, `OnlyAdmittedCallsReach` (`OnlyAdmittedReach`) and `PostsAreAsConfigured`
  (`SentAsConfigured`), the last by `SignsThePayload`: what each of the seven signers puts
  in a header is a literal, a timestamp, or made from the secret over the very payload.
- `ConsteqIsEquality`: `_consteq` is equality of strings of any length. `OnlyAdmittedReach`
  compares tokens as strings and not by the gate's own test, so that it rests on this.
- `EmitterKeepsFirePromise`: `Spec => KeepsFirePromise`, the implementation of
  `FireService`. A crash maps to `Unknown` for all calls under way at once.

### LoadSmoke, for any number of runs and any command lines
- `Invariance`. `OwnEvents` and `OwnFlow` carry from the registration to the poll that a
  run's workflow waits for the run's own event; `Permits` adds up permits and the runs that
  hold one; `Registered` says where the definition and the webhook are at each stage;
  `Reported` that the report is of runs that are over.
- `Typed` (the semaphore's count stays within 0 .. concurrency), `ZeroIsTrue`
  (`CleanExitIsTrue`), `LossesAreReal` (`LossesAreLosses`), `CleanupIsWhole`
  (`NothingLeftBehind`).
- `WebhookOutlivesRuns`: `Spec => CleanupWaits`, an action property.
- `LoadKeepsPromise`: `Spec => KeepsPromise`, the implementation of `EndToEnd`.

### Matrix, for any list of targets, compose files and deadlines
- `Invariance`. `Progress` says which targets are judged so far, each one way; `OwnServer`,
  `PassesTested` and `TornDown` whose server has the port at each stage of the current
  target; `ExitIsOfResults` what an exit code says of the results.
- `Typed`, `TargetsAreJudged` (`EveryTargetJudged`), `PassesWereTested` (`PassWasTested`),
  `StacksAreTakenDown` (`NothingLeftUp`).

### Fanout, for either driver and any number of workflows and emitters
- `Invariance`. `FlowKnown` and `EventKnown` say that what a driver saw stays true: a
  terminal status does not change and an event that got through is not delivered again;
  `Judged` says what each way to the end of the driver leaves behind.
- `Typed`, `PassesAreTrue` (`PassIsTrue`), `FailuresAreReal` (`NoFalseAlarm`).

### Smoke, for any number of cases and any selections
- `Invariance`. Cases that share a definition share its events, and a late event may
  complete a workflow that is not its own. That a summary without a FAIL is right about
  every case goes from the first case to the last: an event that completed a workflow is
  spent (`FlowKnown`), so while all earlier cases passed, their events are gone and the
  only one left for a case's workflow is the case's own (`CaseKnown`). `Turn`, `HookKnown`
  and `EventKnown` place registrations and events in the plan; `ReplayKnown` is the same
  for the first poll of `replay_smoke.py`.
- `Typed`, `PassesAreOwn` (`PassIsOwn`), `CasesAreConsistent` (`CasesAgree`),
  `AllGetTheirTurn` (`EveryCaseJudged`), `SecondIsNoOp` (`ReplayIsSkipped`).

### Composite, for any secret
- `Invariance`. One part for each of who acts: `Driver` (a driver past its poll has a
  verdict, unless an exception took it there), `Left` (a definition is there from its
  registration to its removal), `Events` (the waiting task is completed by the driver's
  event or not at all), `Engine` (what a task that is done has left behind), `Ends` (an
  instance that nobody disturbed ends only as its definition has it: the child cannot fail
  to start, because its definition is there as long as the parent can run).
- `Typed`, `BranchesJoin` (`AllBranchesJoin`), `ZeroIsTrue` (`CleanExitIsTrue`),
  `ChecksAreSatisfied` (`ChecksFitDefinitions`), `CleanupIsWhole` (`NothingLeftBehind`).
  `AllBeforeFinal` goes back through the graph from `finalRef` to `seedRef`.
- The plan and the graphs are the program's own, so the run already covers them; the proof
  adds the reason.

### Only model-checked
`EveryCallAnswered`, `EveryCallEnds`, `ServiceComesBack`, `LoadEnds`, `MatrixEnds` and
`FanoutEnds`: liveness under fairness, which needs ENABLED and is out of the prover's reach.
The findings are counterexamples and need no proof. MACs are symbolic in the proofs as they
are in the runs.

## 6. What is not modelled
- Request validation by pydantic (HTTP 422) and the routing of FastAPI.
- The order of imports (1.6): straight-line code with too few states for a run.
- Text: headers' exact rendering, JSON layout, details of error messages; the unit tests
  pin the bytes. Durations, except that a deadline may pass at any time.
- Whether a request to the conductor that timed out is applied *after* the call has moved
  on: a call that gets a transport error ends, so nobody observes the difference, except
  for the event of `/fire`, which `Emitter` models as late delivery.
- What the conductor's SENDGRID verifier makes of a signature: either outcome.
- White space around a presented token, which the code strips. An empty `EMITTER_TOKEN` is the empty sequence, `None` an unset one.
- The contents of task outputs and workflow variables, where `composite_smoke.py` only
  compares them with constants of the definition; retries of tasks (the definitions
  configure none); a `--run-id` used twice.
- SIGINT in `smoke.py`, `multi_verifier_smoke.py` and `replay_smoke.py`, which hold nothing
  that has to be undone, and in the two drivers of `Fanout`.
- `--concurrency` of zero or less, excluded by `ConcurrencyPositive`; the arithmetic of
  the percentiles.
- A failure of the load driver's own registrations leaves them behind: the code removes
  nothing there, and `NothingLeftBehind` says so by its condition.
- Volumes and databases of the matrix's stacks.
- Removal of what a scenario leaves at the conductor: the code never removes it.

## 7. Observations
Things met while modelling that are no property of a run.

- `load_smoke.py` divides all completed workflows by a wall clock that includes the warmup
  (lines 311-312), and takes settle latencies over all runs (line 305), where its docstring
  says "throughput (completed workflows / wall-clock seconds, post-warmup)" and the help
  of `--warmup` "Workflows to exclude from latency stats.".
- `smoke.py --verifiers ","` selects nothing, prints "summary: 0/0 verifiers passed" and
  exits with 0.
- The description of `config_headers` says only "required for HEADER_BASED, ignored otherwise."
  (`scenarios.py:54`), while of its headers none but `X-Sig` is ever sent: a request with another
  one ends in `DELIVERY_FAILED`, without any fault (`TurnedAway`, section 2).
- `HEALTH_TIMEOUT` ("seconds to wait for /health", `matrix.sh:52`) bounds the sleeps between the
  probes, not the probes: see section 4.
- `replay_smoke.py` ends with exit code 0 and its findings whatever it has seen, unless an
  exchange raises.
