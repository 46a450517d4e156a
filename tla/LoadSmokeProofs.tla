--------------------------- MODULE LoadSmokeProofs ---------------------------
(***************************************************************************)
(* Theorems about LoadSmoke, for any number of runs and any command line.  *)
(*                                                                         *)
(* The driver believes what it polls, so its exit code is true because of  *)
(* what the conductor may have done by then: OwnEvents and OwnFlow carry   *)
(* it from the registration to the poll.  Permits says why the semaphore   *)
(* never runs over, Registered where the definition and the webhook are at *)
(* each stage.                                                             *)
(***************************************************************************)
EXTENDS LoadSmoke, FiniteSets, FiniteSetTheorems, TLAPS

Labels == {"waiting", "start", "fire", "firing", "poll"} \cup Over

Instances ==
  [name : {None, Parent}, matches : {{}} \cup {Conditions(r) : r \in Runs},
   status : Terminal \cup {"RUNNING", "ABSENT"}, registered : BOOLEAN, by : Runs \cup {None}]

Shape == /\ args \in CommandLines
         /\ DOMAIN defs = {Parent} /\ DOMAIN hooks = {Hook}
         /\ flows \in [Runs -> Instances]

\* The runs that hold a permit; all do that a SIGINT has not cancelled.
Busy == {r \in Runs : pc[r] \in {"start", "fire", "firing", "poll"}}

Permits ==
  /\ IsFiniteSet(Busy)
  /\ sigint # "raised" => permits + Cardinality(Busy) = args.concurrency

\* An event says whose it is.
OwnEvents == \A e \in queue : e.hook = Hook /\ e.by \in Runs /\ e.body = Body(e.by)

\* A workflow waits for its own run's event.
OwnFlow(r) ==
  /\ flows[r].status # "ABSENT" => flows[r].matches = Conditions(r)
  /\ flows[r].status = "COMPLETED" => flows[r].by = r
  /\ pc[r] \in {"waiting", "start"} => flows[r].status = "ABSENT"
  /\ pc[r] \in {"fire", "firing", "poll"} => flows[r].status # "ABSENT"

\* What a run recorded.
OwnRecord(r) ==
  /\ polled[r] \in Terminal => pc[r] = "done" /\ error[r] = "none"
  /\ pc[r] # "done" => status[r] = "PENDING" /\ error[r] = "none"
  /\ status[r] = "COMPLETED" => flows[r].status = "COMPLETED"
  /\ error[r] = "poll timeout" => status[r] # "COMPLETED"
  /\ pc[r] = "poll" \/ error[r] = "poll timeout" => told[r] = "fired" /\ deliveries[r] = 1

RunsKnown == \A r \in Runs : OwnFlow(r) /\ OwnRecord(r)

\* The report is of runs that are over.
Reported ==
  /\ stage \in {"delete_webhook", "delete_wf", "report"} => \A r \in Runs : pc[r] \in Over
  /\ report # None => stage = "end" /\ report = Figures
  /\ exit = 0 => stage = "end" /\ \A r \in Runs : status[r] = "COMPLETED"

\* What is registered at each stage.
Registered ==
  /\ stage \in {"ping", "register_wf"} => defs[Parent] = None
  /\ stage \in {"ping", "register_wf", "register_webhook"} => hooks[Hook] = None
  /\ stage = "delete_wf" /\ ~ littered => hooks[Hook] = None
  /\ stage \in {"report", "end"} /\ ~ littered /\ ~ args.keep_defs
        => defs[Parent] = None /\ hooks[Hook] = None
  /\ stage \in {"delete_webhook", "delete_wf"} => ~ args.keep_defs

IInv == TypeOK /\ Shape /\ Permits /\ OwnEvents /\ RunsKnown /\ Reported /\ Registered

-----------------------------------------------------------------------------
(* The semaphore.                                                          *)

LEMMA PermitsAreNat ==
  ASSUME TypeOK, Shape
  PROVE  /\ args.concurrency \in Nat /\ permits \in Nat /\ permits <= args.concurrency
         /\ args.keep_defs \in BOOLEAN
<1>1. args \in [concurrency : Nat \ {0}, keep_defs : BOOLEAN]
  BY ConcurrencyPositive DEF Shape
<1>2. args.concurrency \in Nat /\ args.keep_defs \in BOOLEAN
  BY <1>1
<1>3. permits \in 0 .. args.concurrency
  BY DEF TypeOK
<1>4. QED
  BY <1>2, <1>3

LEMMA PermitTaken ==
  ASSUME TypeOK, Shape, Permits, NEW r \in Runs, r \notin Busy, sigint = "none",
         permits > 0, permits' = permits - 1, Busy' = Busy \cup {r}, UNCHANGED <<args, sigint>>
  PROVE  Permits' /\ permits' \in 0 .. args.concurrency
<1>1. IsFiniteSet(Busy') /\ Cardinality(Busy') = Cardinality(Busy) + 1
  BY FS_AddElement DEF Permits
<1>2. Cardinality(Busy) \in Nat
  BY FS_CardinalityType DEF Permits
<1>3. permits + Cardinality(Busy) = args.concurrency
  BY DEF Permits
<1>4. permits' + Cardinality(Busy') = args.concurrency /\ permits' \in 0 .. args.concurrency
  BY <1>1, <1>2, <1>3, PermitsAreNat
<1>5. QED
  BY <1>1, <1>4 DEF Permits

LEMMA PermitGiven ==
  ASSUME TypeOK, Shape, Permits, NEW r \in Busy, sigint = "none",
         permits' = permits + 1, Busy' = Busy \ {r}, UNCHANGED <<args, sigint>>
  PROVE  Permits' /\ permits' \in 0 .. args.concurrency
<1>1. IsFiniteSet(Busy') /\ Cardinality(Busy') = Cardinality(Busy) - 1
  BY FS_RemoveElement DEF Permits
<1>2. Cardinality(Busy') \in Nat /\ Cardinality(Busy) \in Nat
  BY <1>1, FS_CardinalityType DEF Permits
<1>3. permits + Cardinality(Busy) = args.concurrency
  BY DEF Permits
<1>4. permits' + Cardinality(Busy') = args.concurrency /\ permits' \in 0 .. args.concurrency
  BY <1>1, <1>2, <1>3, PermitsAreNat
<1>5. QED
  BY <1>1, <1>4 DEF Permits

LEMMA PermitKept ==
  ASSUME Permits, Busy' = Busy, UNCHANGED <<permits, args, sigint>>
  PROVE  Permits'
  BY DEF Permits

-----------------------------------------------------------------------------
(* Frames.                                                                 *)

RunKnown(r) == OwnFlow(r) /\ OwnRecord(r)

\* What is known of a run stays so while the run, its workflow and what the emitter
\* did for it are left alone.
LEMMA RunKept ==
  ASSUME NEW r \in Runs, RunKnown(r),
         pc'[r] = pc[r], flows'[r] = flows[r], polled'[r] = polled[r], status'[r] = status[r],
         error'[r] = error[r], told'[r] = told[r], deliveries'[r] = deliveries[r]
  PROVE  RunKnown(r)'
  BY DEF RunKnown, OwnFlow, OwnRecord

\* A step of one run leaves the driver and the other runs alone.
LEMMA RunStepKeeps ==
  ASSUME IInv, NEW r \in Runs, stage = "run",
         UNCHANGED <<driverVars, defs, hooks, queue, littered>>,
         TypeOK', flows' \in [Runs -> Instances], Permits', RunKnown(r)',
         \A c \in Runs \ {r} :
           /\ pc'[c] = pc[c] /\ flows'[c] = flows[c] /\ polled'[c] = polled[c]
           /\ status'[c] = status[c] /\ error'[c] = error[c] /\ told'[c] = told[c]
           /\ deliveries'[c] = deliveries[c]
  PROVE  IInv'
<1>1. \A c \in Runs : RunKnown(c)'
  BY RunKept DEF IInv, RunsKnown, RunKnown
<1>2. Shape' /\ OwnEvents'
  BY DEF IInv, Shape, OwnEvents, driverVars
<1>3. Reported' /\ Registered'
  BY DEF IInv, Reported, Registered, driverVars
<1>4. QED
  BY <1>1, <1>2, <1>3 DEF IInv, RunsKnown, RunKnown

\* A step of the driver leaves the runs and the conductor's workflows alone.
LEMMA DriverStepKeeps ==
  ASSUME IInv, UNCHANGED <<flows, queue, runVars, serviceVars, args>>, TypeOK',
         DOMAIN defs' = {Parent} /\ DOMAIN hooks' = {Hook},
         sigint' # "raised" => sigint # "raised",
         Reported', Registered'
  PROVE  IInv'
<1>1. \A r \in Runs : RunKnown(r)'
  BY RunKept DEF IInv, RunsKnown, RunKnown, runVars, serviceVars
<1>2. Shape' /\ OwnEvents'
  BY DEF IInv, Shape, OwnEvents
<1>3. Permits'
  BY DEF IInv, Permits, Busy, runVars
<1>4. QED
  BY <1>1, <1>2, <1>3 DEF IInv, RunsKnown, RunKnown

\* A step of the conductor or of the emitter leaves the driver alone.
LEMMA ServiceStepKeeps ==
  ASSUME IInv, UNCHANGED <<driverVars, runVars, defs, hooks, littered>>,
         TypeOK', flows' \in [Runs -> Instances], OwnEvents',
         \A r \in Runs : RunKnown(r)'
  PROVE  IInv'
<1>1. Shape' /\ Permits'
  BY DEF IInv, Shape, Permits, Busy, driverVars, runVars
<1>2. Reported' /\ Registered'
  BY DEF IInv, Reported, Registered, Figures, driverVars, runVars
<1>3. QED
  BY <1>1, <1>2 DEF IInv, RunsKnown, RunKnown

-----------------------------------------------------------------------------
(* The driver, step by step.                                               *)

Stages == {"ping", "register_wf", "register_webhook", "run", "delete_webhook", "delete_wf",
           "report", "end"}

ReportTyped ==
  report # None =>
    report \in [{"ok", "lost", "failed", "throughput", "e2e", "settle"} -> SUBSET Runs]

LEMMA DriverTyped ==
  ASSUME TypeOK, UNCHANGED <<runVars, serviceVars, args>>,
         stage' \in Stages, sigint' \in {"none", "pending", "raised"},
         exit' \in {None, 0, 1, 2, 130}, ReportTyped', littered' \in BOOLEAN
  PROVE  TypeOK'
  BY DEF TypeOK, Stages, ReportTyped, runVars, serviceVars

\* What a step of the driver before the report has to show: where it goes, and what is
\* registered then.
LEMMA DriverMoves ==
  ASSUME IInv, stage # "end", stage' \in Stages, sigint' \in {"none", "pending", "raised"},
         report' = report, exit' \in {exit, 1, 2, 130}, littered' \in BOOLEAN,
         UNCHANGED <<flows, queue, runVars, serviceVars, args>>,
         DOMAIN defs' = {Parent} /\ DOMAIN hooks' = {Hook},
         sigint' # "raised" => sigint # "raised",
         stage' \in {"delete_webhook", "delete_wf", "report"} => \A r \in Runs : pc[r] \in Over,
         Registered'
  PROVE  IInv'
<1>1. ReportTyped /\ exit \in {None, 0, 1, 2, 130}
  BY DEF IInv, TypeOK, ReportTyped
<1>2. ReportTyped' /\ exit' \in {None, 0, 1, 2, 130}
  BY <1>1 DEF ReportTyped
<1>3. TypeOK'
  BY <1>2, DriverTyped DEF IInv
<1>4. report' = None /\ exit' # 0
  BY DEF IInv, Reported
<1>5. pc' = pc
  BY DEF runVars
<1>6. Reported'
  BY <1>4, <1>5 DEF Reported
<1>7. QED
  BY <1>3, <1>6, DriverStepKeeps

LEMMA InitIInv == Init => IInv
<1>1. SUFFICES ASSUME Init PROVE IInv
  OBVIOUS
<1>2. Shape
  BY <1>1, OneOfEach DEF Init, ConductorInit, Shape, Absent, Instances
<1>3. args.concurrency \in Nat
  BY <1>2, ConcurrencyPositive DEF Shape
<1>4. TypeOK
  <2>1. permits \in 0 .. args.concurrency
    BY <1>1, <1>3 DEF Init
  <2>2. /\ deliveries \in [Runs -> 0 .. 1]
        /\ told \in [Runs -> {"nothing", "fired", "refused", "unknown"}]
    BY <1>1 DEF Init, Service!Init
  <2>3. /\ pc \in [Runs -> {"waiting", "start", "fire", "firing", "poll"} \cup Over]
        /\ status \in [Runs -> Statuses \cup {"PENDING"}]
        /\ polled \in [Runs -> Statuses]
        /\ error \in [Runs -> {"none", "exception", "poll timeout"}]
        /\ fired \in [Runs -> BOOLEAN]
    BY <1>1 DEF Init, Statuses
  <2>4. QED
    BY <1>1, <2>1, <2>2, <2>3 DEF Init, TypeOK
<1>5. Permits
  <2>1. Busy = {}
    BY <1>1 DEF Init, Busy
  <2>2. IsFiniteSet(Busy) /\ Cardinality(Busy) = 0
    BY <2>1, FS_EmptySet
  <2>3. QED
    BY <1>1, <1>3, <2>2 DEF Init, Permits
<1>6. OwnEvents
  BY <1>1 DEF Init, ConductorInit, OwnEvents
<1>7. ASSUME NEW r \in Runs PROVE RunKnown(r)
  <2>1. flows[r].status = "ABSENT"
    BY <1>1, <1>7, OneOfEach DEF Init, ConductorInit, Absent
  <2>2. QED
    BY <1>1, <1>7, <2>1 DEF Init, RunKnown, OwnFlow, OwnRecord, Terminal
<1>8. Reported /\ Registered
  BY <1>1, OneOfEach, NoneIsNoExitCode DEF Init, ConductorInit, Reported, Registered
<1>9. QED
  BY <1>2, <1>4, <1>5, <1>6, <1>7, <1>8 DEF IInv, RunsKnown, RunKnown

LEMMA PingKeeps == ASSUME IInv, Ping PROVE IInv'
<1>1. /\ stage = "ping" /\ stage' \in {"register_wf", "end"} /\ report' = report
      /\ exit' \in {exit, 2, 130}
      /\ UNCHANGED <<args, sigint, conductorVars, runVars, serviceVars, littered>>
  BY DEF Ping, Goto, End
<1>2. defs[Parent] = None /\ hooks[Hook] = None
  BY <1>1 DEF IInv, Registered
<1>3. defs' = defs /\ hooks' = hooks /\ flows' = flows /\ queue' = queue
  BY <1>1 DEF conductorVars
<1>4. Registered'
  BY <1>1, <1>2, <1>3 DEF Registered
<1>5. QED
  BY <1>1, <1>3, <1>4, DriverMoves DEF IInv, Shape, Stages, TypeOK

LEMMA RegisterWorkflowKeeps == ASSUME IInv, RegisterWorkflow PROVE IInv'
<1>1. /\ stage = "register_wf" /\ stage' \in {"register_webhook", "end"} /\ report' = report
      /\ exit' \in {exit, 1} /\ DOMAIN defs' = {Parent}
      /\ UNCHANGED <<args, sigint, hooks, flows, queue, runVars, serviceVars>>
      /\ stage' = "end" => littered'
      /\ littered' \in BOOLEAN
  BY Zenon DEF RegisterWorkflow, Goto, Crash, PutDef, IInv, Shape, TypeOK
<1>2. hooks[Hook] = None
  BY <1>1 DEF IInv, Registered
<1>3. Registered'
  BY <1>1, <1>2 DEF Registered
<1>4. QED
  BY <1>1, <1>3, DriverMoves DEF IInv, Shape, Stages, TypeOK

LEMMA RegisterWebhookKeeps == ASSUME IInv, RegisterWebhook PROVE IInv'
<1>1. /\ stage = "register_webhook" /\ stage' \in {"run", "end"} /\ report' = report
      /\ exit' \in {exit, 1} /\ DOMAIN hooks' = {Hook}
      /\ UNCHANGED <<args, sigint, defs, flows, queue, runVars, serviceVars>>
      /\ stage' = "end" => littered'
      /\ littered' \in BOOLEAN
  BY Zenon DEF RegisterWebhook, Goto, Crash, CreateHook, IInv, Shape, TypeOK
<1>2. Registered'
  BY <1>1 DEF Registered
<1>3. QED
  BY <1>1, <1>2, DriverMoves DEF IInv, Shape, Stages, TypeOK

LEMMA GatherKeeps == ASSUME IInv, Gather PROVE IInv'
<1>1. /\ stage = "run" /\ stage' = AfterRuns /\ \A r \in Runs : pc[r] \in Over
      /\ UNCHANGED <<args, sigint, report, exit, conductorVars, runVars, serviceVars, littered>>
  BY DEF Gather, Goto
<1>2. stage' \in {"delete_webhook", "report"} /\ (stage' = "report" <=> args.keep_defs)
  BY <1>1, PermitsAreNat DEF AfterRuns, IInv
<1>3. defs' = defs /\ hooks' = hooks /\ flows' = flows /\ queue' = queue
  BY <1>1 DEF conductorVars
<1>4. Registered'
  BY <1>1, <1>2, <1>3 DEF Registered
<1>5. QED
  BY <1>1, <1>2, <1>3, <1>4, DriverMoves DEF IInv, Shape, Stages, TypeOK

LEMMA DeregisterWebhookKeeps == ASSUME IInv, DeregisterWebhook PROVE IInv'
<1>1. /\ stage = "delete_webhook" /\ stage' = "delete_wf"
      /\ UNCHANGED <<args, sigint, report, exit, defs, flows, queue, runVars, serviceVars>>
      /\ DOMAIN hooks' = {Hook}
      /\ littered' \in BOOLEAN
  BY Zenon DEF DeregisterWebhook, Goto, DeleteHook, IInv, Shape, TypeOK
<1>2. ~ littered' => hooks'[Hook] = None
  BY DEF DeregisterWebhook, DeleteHook, IInv, Shape
<1>3. ~ args.keep_defs /\ \A r \in Runs : pc[r] \in Over
  BY <1>1 DEF IInv, Registered, Reported
<1>4. Registered'
  BY <1>1, <1>2, <1>3 DEF Registered
<1>5. QED
  BY <1>1, <1>3, <1>4, DriverMoves DEF IInv, Shape, Stages, TypeOK

LEMMA DeregisterWorkflowKeeps == ASSUME IInv, DeregisterWorkflow PROVE IInv'
<1>1. /\ stage = "delete_wf" /\ stage' \in {"report", "end"} /\ exit' \in {exit, 130}
      /\ UNCHANGED <<args, sigint, report, hooks, flows, queue, runVars, serviceVars>>
  BY DEF DeregisterWorkflow, Goto, End
<1>2. /\ DOMAIN defs' = {Parent}
      /\ littered' \in BOOLEAN
  BY Zenon DEF DeregisterWorkflow, DeleteDef, IInv, Shape, TypeOK
<1>3. ~ littered' => ~ littered /\ defs'[Parent] = None
  BY DEF DeregisterWorkflow, DeleteDef, IInv, Shape
<1>4. /\ ~ littered => hooks[Hook] = None
      /\ \A r \in Runs : pc[r] \in Over
  BY <1>1 DEF IInv, Registered, Reported
<1>5. Registered'
  BY <1>1, <1>3, <1>4 DEF Registered
<1>6. QED
  BY <1>1, <1>2, <1>4, <1>5, DriverMoves DEF IInv, Shape, Stages, TypeOK

\* Exit code 0 is of a report in which nothing failed and nothing is lost.
LEMMA ExitZero == ASSUME NEW rep, ExitCode(rep) = 0 PROVE rep.failed = {} /\ rep.lost = {}
  BY DEF ExitCode

LEMMA BuildReportKeeps == ASSUME IInv, BuildReport PROVE IInv'
<1>1. /\ stage = "report" /\ stage' = "end" /\ report' = Figures
      /\ UNCHANGED <<args, sigint, conductorVars, runVars, serviceVars, littered>>
      /\ exit' \in {ExitCode(Figures), 130}
  BY DEF BuildReport, End
<1> DEFINE ok == {r \in Runs : status[r] = "COMPLETED"}
           lost == {r \in Runs : error[r] = "poll timeout"}
           failed == Runs \ (ok \cup lost)
           e2e == ok \ Warmup
           settle == {r \in Runs : fired[r]}
<1>2. Figures \in [{"ok", "lost", "failed", "throughput", "e2e", "settle"} -> SUBSET Runs]
  <2>1. /\ ok \in SUBSET Runs /\ lost \in SUBSET Runs /\ failed \in SUBSET Runs
        /\ e2e \in SUBSET Runs /\ settle \in SUBSET Runs
    OBVIOUS
  <2>2. Figures = [ok |-> ok, lost |-> lost, failed |-> failed, throughput |-> ok,
                   e2e |-> e2e, settle |-> settle]
    BY DEF Figures
  <2> HIDE DEF ok, lost, failed, e2e, settle
  <2>3. QED
    BY <2>1, <2>2
<1>3. ExitCode(Figures) \in {0, 1}
  BY DEF ExitCode
<1>4. ASSUME ExitCode(Figures) = 0 PROVE \A r \in Runs : status[r] = "COMPLETED"
  <2>1. Figures.failed = failed /\ Figures.lost = lost
    BY DEF Figures
  <2>2. failed = {} /\ lost = {}
    BY <1>4, <2>1, ExitZero, Zenon
  <2>3. QED
    BY <2>2
<1>5. Figures' = Figures
  BY <1>1 DEF Figures, runVars
<1>6. status' = status
  BY <1>1 DEF runVars
<1>7. Reported'
  BY <1>1, <1>3, <1>4, <1>5, <1>6 DEF Reported
<1>8. Registered'
  BY <1>1 DEF IInv, Registered, conductorVars
<1>9. TypeOK'
  <2>1. ReportTyped' /\ exit' \in {None, 0, 1, 2, 130}
    BY <1>1, <1>2, <1>3 DEF ReportTyped
  <2>2. littered' \in BOOLEAN /\ sigint' \in {"none", "pending", "raised"}
    BY <1>1 DEF IInv, TypeOK
  <2>3. QED
    BY <1>1, <2>1, <2>2, DriverTyped DEF IInv, Stages
<1>10. QED
  BY <1>1, <1>7, <1>8, <1>9, DriverStepKeeps DEF IInv, Shape, conductorVars

LEMMA InterruptKeeps == ASSUME IInv, Interrupt PROVE IInv'
<1>1. /\ stage # "end" /\ sigint = "none" /\ sigint' = "pending"
      /\ UNCHANGED <<args, stage, report, exit, conductorVars, runVars, serviceVars, littered>>
  BY DEF Interrupt
<1>2. defs' = defs /\ hooks' = hooks /\ flows' = flows /\ queue' = queue
  BY <1>1 DEF conductorVars
<1>3. Registered'
  BY <1>1, <1>2 DEF IInv, Registered
<1>4. stage \in {"delete_webhook", "delete_wf", "report"} => \A r \in Runs : pc[r] \in Over
  BY DEF IInv, Reported
<1>5. QED
  BY <1>1, <1>2, <1>3, <1>4, DriverMoves DEF IInv, Shape, Stages, TypeOK

LEMMA InterruptAgainKeeps == ASSUME IInv, InterruptAgain PROVE IInv'
<1>1. /\ stage \notin {"run", "end"} /\ stage' = "end" /\ exit' = 130
      /\ UNCHANGED <<args, sigint, report, conductorVars, runVars, serviceVars>>
  BY DEF InterruptAgain
<1>2. littered' \in BOOLEAN /\ (~ littered' => ~ littered /\ stage \in {"ping", "report"})
  BY Zenon DEF InterruptAgain, IInv, TypeOK
<1>3. defs' = defs /\ hooks' = hooks /\ flows' = flows /\ queue' = queue
  BY <1>1 DEF conductorVars
<1>4. Registered'
  BY <1>1, <1>2, <1>3 DEF IInv, Registered
<1>5. QED
  BY <1>1, <1>2, <1>3, <1>4, DriverMoves DEF IInv, Shape, Stages, TypeOK

\* What the cancelled runs were at does not matter to the cleanup: no permit is given back.
LEMMA CancelKeeps == ASSUME IInv, Cancel PROVE IInv'
<1>1. /\ stage = "run" /\ sigint' = "raised" /\ stage' \in {"end", "delete_webhook"}
      /\ stage' = "end" <=> args.keep_defs
      /\ exit' \in {exit, 130} /\ CancelRuns /\ UNCHANGED <<args, report>>
  BY PermitsAreNat DEF Cancel, IInv
<1>2. /\ UNCHANGED <<conductorVars, permits, status, polled, error, fired, deliveries, littered>>
      /\ pc' = [r \in Runs |-> IF pc[r] = "done" THEN "done"
                               ELSE IF pc[r] = "start" THEN "abandoned" ELSE "cancelled"]
      /\ told' = [r \in Runs |-> IF pc[r] = "firing" THEN "unknown" ELSE told[r]]
  BY <1>1 DEF CancelRuns
<1>3. \A r \in Runs : /\ pc'[r] \in Over /\ (pc'[r] = "done" <=> pc[r] = "done")
                      /\ pc[r] = "done" => told'[r] = told[r]
                      /\ told'[r] \in {told[r], "unknown"}
  BY <1>2 DEF Over
<1>4. TypeOK'
  <2>1. pc' \in [Runs -> {"waiting", "start", "fire", "firing", "poll"} \cup Over]
    BY <1>2, <1>3
  <2>2. told' \in [Runs -> {"nothing", "fired", "refused", "unknown"}]
    BY <1>2, <1>3 DEF IInv, TypeOK
  <2>3. exit' \in {None, 0, 1, 2, 130}
    BY <1>1 DEF IInv, TypeOK
  <2>4. littered' \in BOOLEAN
    BY <1>2 DEF IInv, TypeOK
  <2>5. QED
    BY <1>1, <1>2, <2>1, <2>2, <2>3, <2>4 DEF IInv, TypeOK
<1>5. Shape' /\ OwnEvents'
  BY <1>1, <1>2 DEF IInv, Shape, OwnEvents, conductorVars
<1>6. Permits'
  <2>1. Busy' = {}
    BY <1>3 DEF Busy, Over
  <2>2. QED
    BY <1>1, <2>1, FS_EmptySet DEF Permits
<1>7. ASSUME NEW r \in Runs PROVE RunKnown(r)'
  <2>1. RunKnown(r)
    BY DEF IInv, RunsKnown, RunKnown
  <2>2. error[r] = "poll timeout" => pc[r] = "done"
    BY <2>1 DEF RunKnown, OwnRecord
  <2>3. flows' = flows
    BY <1>2 DEF conductorVars
  <2>4. OwnFlow(r)'
    BY <1>3, <2>1, <2>3 DEF RunKnown, OwnFlow, Over
  <2>5. OwnRecord(r)'
    BY <1>2, <1>3, <2>1, <2>2, <2>3 DEF RunKnown, OwnRecord, Over
  <2>6. QED
    BY <2>4, <2>5 DEF RunKnown
<1>8. Reported'
  <2>1. report' = None /\ exit' # 0
    BY <1>1 DEF IInv, Reported
  <2>2. QED
    BY <1>3, <2>1 DEF Reported
<1>9. Registered'
  BY <1>1, <1>2 DEF Registered
<1>10. QED
  BY <1>4, <1>5, <1>6, <1>7, <1>8, <1>9 DEF IInv, RunsKnown, RunKnown

-----------------------------------------------------------------------------
(* The runs, step by step.                                                 *)

LEMMA RunTyped ==
  ASSUME TypeOK, UNCHANGED <<driverVars, littered>>, permits' \in 0 .. args.concurrency,
         pc' \in [Runs -> Labels], status' \in [Runs -> Statuses \cup {"PENDING"}],
         polled' \in [Runs -> Statuses],
         error' \in [Runs -> {"none", "exception", "poll timeout"}],
         fired' \in [Runs -> BOOLEAN], deliveries' \in [Runs -> 0 .. 1],
         told' \in [Runs -> {"nothing", "fired", "refused", "unknown"}]
  PROVE  TypeOK'
  BY DEF TypeOK, driverVars, Labels

\* The worker leaves with its permit, whatever happened to its run.
LEMMA FinishKeeps ==
  ASSUME IInv, NEW r \in Runs, Running, pc[r] \in {"start", "fire", "firing", "poll"},
         NEW s \in Statuses, NEW e \in {"none", "exception", "poll timeout"}, Finish(r, s, e),
         UNCHANGED <<driverVars, conductorVars, deliveries, littered>>,
         polled' \in [Runs -> Statuses], fired' \in [Runs -> BOOLEAN],
         told' \in [Runs -> {"nothing", "fired", "refused", "unknown"}],
         \A c \in Runs \ {r} : polled'[c] = polled[c] /\ told'[c] = told[c],
         polled'[r] \in Terminal => e = "none",
         s = "COMPLETED" => flows[r].status = "COMPLETED" /\ e # "poll timeout",
         e = "poll timeout" => told'[r] = "fired" /\ deliveries[r] = 1
  PROVE  IInv'
<1>1. /\ pc' = [pc EXCEPT ![r] = "done"] /\ status' = [status EXCEPT ![r] = s]
      /\ error' = [error EXCEPT ![r] = e] /\ permits' = permits + 1
  BY DEF Finish, Set
<1>2. /\ pc \in [Runs -> Labels] /\ status \in [Runs -> Statuses \cup {"PENDING"}]
      /\ error \in [Runs -> {"none", "exception", "poll timeout"}]
  BY DEF IInv, TypeOK, Labels
<1>3. r \in Busy /\ Busy' = Busy \ {r}
  BY <1>1, <1>2 DEF Busy, Labels
<1>4. Permits' /\ permits' \in 0 .. args.concurrency
  BY <1>1, <1>3, PermitGiven DEF IInv, Running, driverVars
<1>5. TypeOK'
  <2>1. /\ pc' \in [Runs -> Labels] /\ status' \in [Runs -> Statuses \cup {"PENDING"}]
        /\ error' \in [Runs -> {"none", "exception", "poll timeout"}]
    BY <1>1, <1>2 DEF Labels, Over
  <2>2. deliveries' \in [Runs -> 0 .. 1]
    BY DEF IInv, TypeOK
  <2>3. QED
    BY <1>4, <2>1, <2>2, RunTyped DEF IInv
<1>6. flows' = flows
  BY DEF conductorVars
<1>7. RunKnown(r)'
  <2>1. RunKnown(r)
    BY DEF IInv, RunsKnown, RunKnown
  <2>2. pc'[r] = "done" /\ status'[r] = s /\ error'[r] = e
    BY <1>1, <1>2
  <2>3. OwnFlow(r)'
    BY <1>6, <2>1, <2>2 DEF RunKnown, OwnFlow
  <2>4. OwnRecord(r)'
    BY <1>6, <2>2 DEF OwnRecord
  <2>5. QED
    BY <2>3, <2>4 DEF RunKnown
<1>8. QED
  <2>1. stage = "run" /\ flows' \in [Runs -> Instances]
    BY <1>6 DEF Running, IInv, Shape
  <2>2. UNCHANGED <<driverVars, defs, hooks, queue, littered>>
    BY DEF conductorVars
  <2>3. \A c \in Runs \ {r} :
           /\ pc'[c] = pc[c] /\ flows'[c] = flows[c] /\ polled'[c] = polled[c]
           /\ status'[c] = status[c] /\ error'[c] = error[c] /\ told'[c] = told[c]
           /\ deliveries'[c] = deliveries[c]
    BY <1>1, <1>2, <1>6
  <2>4. QED
    BY <1>4, <1>5, <1>7, <2>1, <2>2, <2>3, RunStepKeeps

\* A step within a run: the permits are as they were.
LEMMA MoveKeeps ==
  ASSUME IInv, NEW r \in Runs, Running,
         NEW l \in Labels, Set(r, l), Busy' = Busy,
         UNCHANGED <<driverVars, defs, hooks, queue, littered, permits, status, error, deliveries>>,
         flows' \in [Runs -> Instances], polled' \in [Runs -> Statuses],
         fired' \in [Runs -> BOOLEAN],
         told' \in [Runs -> {"nothing", "fired", "refused", "unknown"}],
         \A c \in Runs \ {r} : polled'[c] = polled[c] /\ told'[c] = told[c] /\ flows'[c] = flows[c],
         RunKnown(r)'
  PROVE  IInv'
<1>1. pc' = [pc EXCEPT ![r] = l] /\ pc \in [Runs -> Labels]
  BY DEF Set, IInv, TypeOK, Labels
<1>2. TypeOK'
  <2>1. pc' \in [Runs -> Labels]
    BY <1>1
  <2>2. /\ permits' \in 0 .. args.concurrency /\ deliveries' \in [Runs -> 0 .. 1]
        /\ status' \in [Runs -> Statuses \cup {"PENDING"}]
        /\ error' \in [Runs -> {"none", "exception", "poll timeout"}]
    BY DEF IInv, TypeOK
  <2>3. QED
    BY <2>1, <2>2, RunTyped DEF IInv
<1>3. Permits'
  BY PermitKept DEF IInv, driverVars
<1>4. \A c \in Runs \ {r} : pc'[c] = pc[c]
  BY <1>1
<1>5. QED
  BY <1>2, <1>3, <1>4, RunStepKeeps DEF Running

LEMMA RunsKnownAre == ASSUME IInv, NEW r \in Runs PROVE RunKnown(r)
  BY DEF IInv, RunsKnown, RunKnown

LEMMA AcquireKeeps == ASSUME IInv, NEW r \in Runs, Acquire(r) PROVE IInv'
<1>1. /\ Running /\ pc[r] = "waiting" /\ permits > 0 /\ permits' = permits - 1
      /\ pc' = [pc EXCEPT ![r] = "start"]
      /\ UNCHANGED <<conductorVars, driverVars, status, polled, error, fired, serviceVars,
                     littered>>
  BY DEF Acquire, Set
<1>2. pc \in [Runs -> Labels] /\ pc' \in [Runs -> Labels]
  BY <1>1 DEF IInv, TypeOK, Labels
<1>3. r \notin Busy /\ Busy' = Busy \cup {r}
  BY <1>1, <1>2 DEF Busy
<1>4. Permits' /\ permits' \in 0 .. args.concurrency
  BY <1>1, <1>3, PermitTaken DEF IInv, Running, driverVars
<1>5. TypeOK'
  <2>1. /\ status' = status /\ polled' = polled /\ error' = error /\ fired' = fired
        /\ deliveries' = deliveries /\ told' = told
    BY <1>1 DEF serviceVars
  <2>2. /\ status' \in [Runs -> Statuses \cup {"PENDING"}] /\ polled' \in [Runs -> Statuses]
        /\ error' \in [Runs -> {"none", "exception", "poll timeout"}]
        /\ fired' \in [Runs -> BOOLEAN] /\ deliveries' \in [Runs -> 0 .. 1]
        /\ told' \in [Runs -> {"nothing", "fired", "refused", "unknown"}]
    BY <2>1 DEF IInv, TypeOK
  <2>3. QED
    BY <1>1, <1>2, <1>4, <2>2, RunTyped DEF IInv
<1>6. flows' = flows /\ pc'[r] = "start"
  BY <1>1, <1>2 DEF conductorVars
<1>7. RunKnown(r)'
  BY <1>1, <1>6, RunsKnownAre DEF RunKnown, OwnFlow, OwnRecord, serviceVars
<1>8. QED
  <2>1. stage = "run" /\ flows' \in [Runs -> Instances]
    BY <1>1, <1>6 DEF Running, IInv, Shape
  <2>2. UNCHANGED <<driverVars, defs, hooks, queue, littered>>
    BY <1>1 DEF conductorVars
  <2>3. \A c \in Runs \ {r} :
           /\ pc'[c] = pc[c] /\ flows'[c] = flows[c] /\ polled'[c] = polled[c]
           /\ status'[c] = status[c] /\ error'[c] = error[c] /\ told'[c] = told[c]
           /\ deliveries'[c] = deliveries[c]
    BY <1>1, <1>2, <1>6 DEF serviceVars
  <2>4. QED
    BY <1>4, <1>5, <1>7, <2>1, <2>2, <2>3, RunStepKeeps

LEMMA StartedIs ==
  ASSUME IInv, NEW r \in Runs, StartInstance(r, Parent, Conditions(r))
  PROVE  /\ flows' \in [Runs -> Instances]
         /\ flows'[r].status = "RUNNING" /\ flows'[r].matches = Conditions(r)
         /\ \A c \in Runs \ {r} : flows'[c] = flows[c]
<1> DEFINE new == [name |-> Parent, matches |-> Conditions(r), status |-> "RUNNING",
                   registered |-> FALSE, by |-> None]
<1>1. flows \in [Runs -> Instances] /\ flows' = [flows EXCEPT ![r] = new]
  BY DEF IInv, Shape, StartInstance
<1>2. new \in Instances
  BY DEF Instances
<1>3. new.status = "RUNNING" /\ new.matches = Conditions(r)
  OBVIOUS
<1> HIDE DEF new
<1>4. QED
  BY <1>1, <1>2, <1>3

LEMMA StartKeeps == ASSUME IInv, NEW r \in Runs, Start(r) PROVE IInv'
<1>1. /\ Running /\ pc[r] = "start"
      /\ UNCHANGED <<defs, hooks, queue, driverVars, polled, fired, deliveries, told, littered>>
  BY DEF Start, serviceVars
<1>2. /\ polled' \in [Runs -> Statuses] /\ fired' \in [Runs -> BOOLEAN]
      /\ told' \in [Runs -> {"nothing", "fired", "refused", "unknown"}]
  BY <1>1 DEF IInv, TypeOK
<1>3. CASE /\ StartInstance(r, Parent, Conditions(r)) /\ Set(r, "fire")
           /\ UNCHANGED <<permits, status, error>>
  <2>1. pc \in [Runs -> Labels] /\ pc' = [pc EXCEPT ![r] = "fire"] /\ pc'[r] = "fire"
    <3>1. pc \in [Runs -> Labels]
      BY DEF IInv, TypeOK, Labels
    <3>2. pc' = [pc EXCEPT ![r] = "fire"]
      BY <1>3 DEF Set
    <3>3. QED
      BY <3>1, <3>2
  <2>2. Busy' = Busy
    BY <1>1, <2>1 DEF Busy
  <2>3. RunKnown(r)'
    <3>1. status[r] # "COMPLETED" /\ error[r] # "poll timeout"
      BY <1>1, RunsKnownAre DEF RunKnown, OwnRecord
    <3>2. QED
      BY <1>1, <1>3, <2>1, <3>1, StartedIs, RunsKnownAre DEF RunKnown, OwnFlow, OwnRecord
  <2>4. "fire" \in Labels
    BY DEF Labels
  <2>5. \A c \in Runs \ {r} : polled'[c] = polled[c] /\ told'[c] = told[c] /\ flows'[c] = flows[c]
    BY <1>1, <1>3, StartedIs
  <2>6. flows' \in [Runs -> Instances]
    BY <1>3, StartedIs
  <2>7. QED
    BY <1>1, <1>2, <1>3, <2>2, <2>3, <2>4, <2>5, <2>6, MoveKeeps
<1>4. CASE Except(r) /\ UNCHANGED flows
  <2>1. polled'[r] \notin Terminal
    BY <1>1, RunsKnownAre DEF RunKnown, OwnRecord
  <2>2. "FAILED" \in Statuses
    BY DEF Statuses, Terminal
  <2>3. UNCHANGED <<driverVars, conductorVars, deliveries, littered>>
    BY <1>1, <1>4 DEF conductorVars
  <2>4. QED
    BY <1>1, <1>2, <1>4, <2>1, <2>2, <2>3, FinishKeeps DEF Except
<1>5. QED
  BY <1>3, <1>4 DEF Start

LEMMA FireKeeps == ASSUME IInv, NEW r \in Runs, Fire(r) PROVE IInv'
<1>1. /\ Running /\ pc[r] = "fire" /\ Set(r, "firing") /\ pc' = [pc EXCEPT ![r] = "firing"]
      /\ UNCHANGED <<conductorVars, driverVars, permits, status, polled, error, fired,
                     deliveries, told, littered>>
  BY DEF Fire, Set, serviceVars
<1>2. /\ polled' \in [Runs -> Statuses] /\ fired' \in [Runs -> BOOLEAN]
      /\ told' \in [Runs -> {"nothing", "fired", "refused", "unknown"}]
      /\ pc \in [Runs -> Labels] /\ "firing" \in Labels
  BY <1>1 DEF IInv, TypeOK, Labels
<1>3. Busy' = Busy
  BY <1>1, <1>2 DEF Busy
<1>4. flows' = flows /\ defs' = defs /\ hooks' = hooks /\ queue' = queue
  BY <1>1 DEF conductorVars
<1>5. RunKnown(r)'
  BY <1>1, <1>2, <1>4, RunsKnownAre DEF RunKnown, OwnFlow, OwnRecord
<1>6. flows' \in [Runs -> Instances]
  BY <1>4 DEF IInv, Shape
<1>7. QED
  BY <1>1, <1>2, <1>3, <1>4, <1>5, <1>6, MoveKeeps

\* A run that polls was told "fired", which is said only of an event delivered.
LEMMA FireAnsweredKeeps == ASSUME IInv, NEW r \in Runs, FireAnswered(r) PROVE IInv'
<1>1. /\ Running /\ pc[r] = "firing"
      /\ UNCHANGED <<conductorVars, driverVars, polled, deliveries, littered>>
  BY DEF FireAnswered
<1>2. /\ polled' \in [Runs -> Statuses] /\ fired \in [Runs -> BOOLEAN]
      /\ told \in [Runs -> {"nothing", "fired", "refused", "unknown"}]
  BY <1>1 DEF IInv, TypeOK
<1>3. CASE /\ Service!Fired(r) /\ fired' = [fired EXCEPT ![r] = TRUE] /\ Set(r, "poll")
           /\ UNCHANGED <<permits, status, error>>
  <2>1. pc \in [Runs -> Labels] /\ pc' = [pc EXCEPT ![r] = "poll"] /\ pc'[r] = "poll"
    <3>1. pc \in [Runs -> Labels]
      BY DEF IInv, TypeOK, Labels
    <3>2. pc' = [pc EXCEPT ![r] = "poll"]
      BY <1>3 DEF Set
    <3>3. QED
      BY <3>1, <3>2
  <2>2. Busy' = Busy
    BY <1>1, <2>1 DEF Busy
  <2>3. /\ deliveries[r] = 1 /\ told'[r] = "fired" /\ \A c \in Runs \ {r} : told'[c] = told[c]
        /\ told' \in [Runs -> {"nothing", "fired", "refused", "unknown"}]
    BY <1>2, <1>3 DEF Service!Fired
  <2>4. flows' = flows /\ defs' = defs /\ hooks' = hooks /\ queue' = queue
    BY <1>1 DEF conductorVars
  <2>5. RunKnown(r)'
    BY <1>1, <1>3, <2>1, <2>3, <2>4, RunsKnownAre DEF RunKnown, OwnFlow, OwnRecord
  <2>6. "poll" \in Labels /\ flows' \in [Runs -> Instances]
    BY <2>4 DEF Labels, IInv, Shape
  <2>7. fired' \in [Runs -> BOOLEAN]
    BY <1>2, <1>3
  <2>8. QED
    BY <1>1, <1>2, <1>3, <2>2, <2>3, <2>4, <2>5, <2>6, <2>7, MoveKeeps
<1>4. CASE /\ Service!Refused(r) \/ told' = [told EXCEPT ![r] = "unknown"]
           /\ Except(r) /\ UNCHANGED fired
  <2>1. polled'[r] \notin Terminal
    BY <1>1, RunsKnownAre DEF RunKnown, OwnRecord
  <2>2. "FAILED" \in Statuses
    BY DEF Statuses, Terminal
  <2>3. /\ told' \in [Runs -> {"nothing", "fired", "refused", "unknown"}]
        /\ \A c \in Runs \ {r} : told'[c] = told[c]
    BY <1>2, <1>4 DEF Service!Refused
  <2>4. fired' \in [Runs -> BOOLEAN]
    BY <1>2, <1>4
  <2>5. QED
    BY <1>1, <1>2, <1>4, <2>1, <2>2, <2>3, <2>4, FinishKeeps DEF Except
<1>5. QED
  BY <1>3, <1>4 DEF FireAnswered

\* A poll believes the conductor, and is over with the first terminal status.
LEMMA PollKeeps == ASSUME IInv, NEW r \in Runs, Poll(r) PROVE IInv'
<1>1. /\ Running /\ pc[r] = "poll"
      /\ UNCHANGED <<defs, hooks, flows, queue, driverVars, fired, deliveries, told, littered>>
  BY DEF Poll, conductorVars, serviceVars
<1>2. /\ polled \in [Runs -> Statuses] /\ fired' \in [Runs -> BOOLEAN]
      /\ told' \in [Runs -> {"nothing", "fired", "refused", "unknown"}]
      /\ pc \in [Runs -> Labels]
  BY <1>1 DEF IInv, TypeOK, Labels
<1>3. /\ told[r] = "fired" /\ deliveries[r] = 1 /\ flows[r].status # "ABSENT"
      /\ status[r] = "PENDING" /\ error[r] = "none" /\ polled[r] \notin Terminal
  BY <1>1, RunsKnownAre DEF RunKnown, OwnFlow, OwnRecord
<1>4. flows[r].status \in Statuses
  <2>1. flows[r] \in Instances
    BY DEF IInv, Shape
  <2>2. flows[r].status \in Terminal \cup {"RUNNING", "ABSENT"}
    BY <2>1 DEF Instances
  <2>3. QED
    BY <1>3, <2>2 DEF Statuses
<1>5. UNCHANGED <<driverVars, conductorVars, deliveries, littered>>
  BY <1>1 DEF conductorVars
<1>6. ASSUME NEW s \in {flows[r].status, "UNKNOWN"}, polled' = [polled EXCEPT ![r] = s],
             IF s \in Terminal THEN Finish(r, s, "none")
             ELSE UNCHANGED <<pc, status, error, permits>>
      PROVE  IInv'
  <2>1. s \in Statuses
    BY <1>4 DEF Statuses
  <2>2. /\ polled' \in [Runs -> Statuses] /\ polled'[r] = s
        /\ \A c \in Runs \ {r} : polled'[c] = polled[c] /\ told'[c] = told[c]
    BY <1>1, <1>2, <1>6, <2>1
  <2>3. CASE s \in Terminal
    <3>1. s = "COMPLETED" => flows[r].status = "COMPLETED"
      OBVIOUS
    <3>2. Finish(r, s, "none")
      BY <1>6, <2>3
    <3>3. QED
      BY <1>1, <1>2, <1>5, <2>1, <2>2, <3>1, <3>2, FinishKeeps
  <2>4. CASE s \notin Terminal
    <3>1. pc' = pc /\ status' = status /\ error' = error /\ permits' = permits
      BY <1>6, <2>4
    <3>2. Set(r, "poll")
      BY <1>1, <1>2, <3>1 DEF Set
    <3>3. Busy' = Busy
      BY <3>1 DEF Busy
    <3>4. RunKnown(r)'
      BY <1>1, <1>3, <2>2, <2>4, <3>1, RunsKnownAre DEF RunKnown, OwnFlow, OwnRecord
    <3>5. flows' \in [Runs -> Instances] /\ "poll" \in Labels
      BY <1>1 DEF IInv, Shape, Labels
    <3>6. \A c \in Runs \ {r} : polled'[c] = polled[c] /\ told'[c] = told[c] /\ flows'[c] = flows[c]
      BY <1>1, <2>2
    <3>7. QED
      BY <1>1, <1>2, <2>2, <3>1, <3>2, <3>3, <3>4, <3>5, <3>6, MoveKeeps
  <2>5. QED
    BY <2>3, <2>4
<1>7. CASE Except(r) /\ UNCHANGED polled
  <2>1. "FAILED" \in Statuses
    BY DEF Statuses, Terminal
  <2>2. QED
    BY <1>1, <1>2, <1>3, <1>5, <1>7, <2>1, FinishKeeps DEF Except
<1>8. QED
  BY <1>6, <1>7 DEF Poll

\* What is called lost was polled, so its event was delivered.
LEMMA PollTimesOutKeeps == ASSUME IInv, NEW r \in Runs, PollTimesOut(r) PROVE IInv'
<1>1. /\ Running /\ pc[r] = "poll" /\ Finish(r, polled[r], "poll timeout")
      /\ UNCHANGED <<conductorVars, driverVars, polled, fired, deliveries, told, littered>>
  BY DEF PollTimesOut, serviceVars
<1>2. /\ polled' \in [Runs -> Statuses] /\ fired' \in [Runs -> BOOLEAN]
      /\ told' \in [Runs -> {"nothing", "fired", "refused", "unknown"}]
      /\ polled[r] \in Statuses
  BY <1>1 DEF IInv, TypeOK
<1>3. told[r] = "fired" /\ deliveries[r] = 1 /\ polled[r] \notin Terminal
  BY <1>1, RunsKnownAre DEF RunKnown, OwnRecord
<1>4. polled[r] # "COMPLETED"
  BY <1>3 DEF Terminal
<1>5. QED
  BY <1>1, <1>2, <1>3, <1>4, FinishKeeps

-----------------------------------------------------------------------------
(* The conductor and the emitter, step by step.                            *)

LEMMA TypeKept ==
  ASSUME TypeOK, UNCHANGED <<driverVars, runVars, littered>>,
         deliveries' \in [Runs -> 0 .. 1],
         told' \in [Runs -> {"nothing", "fired", "refused", "unknown"}]
  PROVE  TypeOK'
<1>1. /\ UNCHANGED <<stage, sigint, exit, report, args, permits, pc, status, polled, error, fired,
                     littered>>
  BY DEF driverVars, runVars
<1>2. QED
  BY <1>1 DEF TypeOK

\* A start nobody waits for makes a workflow no run will report.
LEMMA LateStartKeeps == ASSUME IInv, NEW r \in Runs, LateStart(r) PROVE IInv'
<1>1. /\ pc[r] \in {"done", "abandoned"} /\ flows[r].status = "ABSENT"
      /\ StartInstance(r, Parent, Conditions(r))
      /\ UNCHANGED <<defs, hooks, queue, driverVars, runVars, deliveries, told, littered>>
  BY DEF LateStart, serviceVars
<1>2. TypeOK'
  BY <1>1, TypeKept DEF IInv, TypeOK
<1>3. OwnEvents'
  BY <1>1 DEF IInv, OwnEvents
<1>4. pc' = pc /\ status' = status /\ polled' = polled /\ error' = error
  BY <1>1 DEF runVars
<1>5. RunKnown(r)'
  BY <1>1, <1>4, StartedIs, RunsKnownAre DEF RunKnown, OwnFlow, OwnRecord
<1>6. ASSUME NEW c \in Runs, c # r PROVE RunKnown(c)'
  BY <1>1, <1>4, <1>6, StartedIs, RunsKnownAre, RunKept
<1>7. QED
  BY <1>1, <1>2, <1>3, <1>5, <1>6, StartedIs, ServiceStepKeeps

\* What reaches the conductor is the event of the run that fired it.
LEMMA DeliverKeeps == ASSUME IInv, NEW r \in Runs, Deliver(r) PROVE IInv'
<1>1. /\ UNCHANGED <<defs, hooks, flows, driverVars, runVars, told, littered>>
      /\ deliveries[r] = 0 /\ deliveries' = [deliveries EXCEPT ![r] = 1]
      /\ Enqueue(Hook, Body(r), r) \/ queue' = queue
  BY DEF Deliver, Service!Deliver
<1>2. TypeOK'
  <2>1. deliveries' \in [Runs -> 0 .. 1]
    <3>1. deliveries \in [Runs -> 0 .. 1]
      BY DEF IInv, TypeOK
    <3>2. 1 \in 0 .. 1
      OBVIOUS
    <3>3. QED
      BY <1>1, <3>1, <3>2
  <2>2. told' \in [Runs -> {"nothing", "fired", "refused", "unknown"}]
    BY <1>1 DEF IInv, TypeOK
  <2>3. QED
    BY <1>1, <2>1, <2>2, TypeKept DEF IInv
<1>3. OwnEvents'
  BY <1>1 DEF IInv, OwnEvents, Enqueue
<1>4. ASSUME NEW c \in Runs PROVE RunKnown(c)'
  <2>1. pc' = pc /\ status' = status /\ polled' = polled /\ error' = error
    BY <1>1 DEF runVars
  <2>2. deliveries[c] = 1 => deliveries'[c] = 1
    <3>1. deliveries \in [Runs -> 0 .. 1]
      BY DEF IInv, TypeOK
    <3>2. QED
      BY <1>1, <3>1
  <2>3. QED
    BY <1>1, <2>1, <2>2, RunsKnownAre DEF RunKnown, OwnFlow, OwnRecord
<1>5. flows' \in [Runs -> Instances]
  BY <1>1 DEF IInv, Shape
<1>6. QED
  BY <1>1, <1>2, <1>3, <1>4, <1>5, ServiceStepKeeps

\* The event of one run satisfies the conditions of no other.
LEMMA OnlyItsOwn == ASSUME NEW r, NEW by, Conditions(r) \subseteq Body(by) PROVE r = by
  BY DEF Conditions, Body

LEMMA ConductorKeeps ==
  ASSUME IInv, ConductorNext, UNCHANGED <<driverVars, runVars, serviceVars, littered>>
  PROVE  IInv'
<1>1. TypeOK'
  BY TypeKept DEF IInv, TypeOK, serviceVars
<1>2. flows \in [Runs -> Instances] /\ Flows = Runs
  BY OneOfEach DEF IInv, Shape
<1>3. pc' = pc /\ status' = status /\ polled' = polled /\ error' = error /\ told' = told
      /\ deliveries' = deliveries
  BY DEF runVars, serviceVars
<1>4. ASSUME NEW w \in Runs, RegisterWait(w) PROVE IInv'
  <2>1. /\ flows' = [flows EXCEPT ![w].registered = TRUE]
        /\ UNCHANGED <<defs, hooks, queue>>
    BY <1>4 DEF RegisterWait
  <2>2. flows' \in [Runs -> Instances]
    BY <1>2, <2>1 DEF Instances
  <2>3. \A c \in Runs : /\ flows'[c].status = flows[c].status
                        /\ flows'[c].matches = flows[c].matches /\ flows'[c].by = flows[c].by
    BY <1>2, <2>1 DEF Instances
  <2>4. ASSUME NEW c \in Runs PROVE RunKnown(c)'
    <3>1. RunKnown(c)
      BY RunsKnownAre
    <3>2. QED
      BY <1>3, <2>3, <3>1 DEF RunKnown, OwnFlow, OwnRecord
  <2>5. OwnEvents'
    BY <2>1 DEF IInv, OwnEvents
  <2>6. QED
    BY <1>1, <2>1, <2>2, <2>4, <2>5, ServiceStepKeeps
<1>5. ASSUME NEW w \in Runs, Abort(w) PROVE IInv'
  <2>1. PICK s \in Terminal \ {"COMPLETED"} : flows' = [flows EXCEPT ![w].status = s]
    BY <1>5 DEF Abort
  <2>2. flows[w].status = "RUNNING" /\ UNCHANGED <<defs, hooks, queue>>
    BY <1>5 DEF Abort
  <2>3. flows' \in [Runs -> Instances]
    BY <1>2, <2>1 DEF Instances
  <2>4. s # "ABSENT" /\ s # "COMPLETED"
    BY DEF Terminal
  <2>5. ASSUME NEW c \in Runs
        PROVE  /\ flows'[c].matches = flows[c].matches
               /\ flows'[c].by = flows[c].by
               /\ flows'[c].status = flows[c].status \/ (c = w /\ flows'[c].status = s)
    <3>1. CASE c = w
      BY <1>2, <2>1, <3>1 DEF Instances
    <3>2. CASE c # w
      <4>1. flows'[c] = flows[c]
        BY <1>2, <2>1, <3>2
      <4>2. QED
        BY <4>1
    <3>3. QED
      BY <3>1, <3>2
  <2>6. ASSUME NEW c \in Runs PROVE RunKnown(c)'
    <3>1. RunKnown(c)
      BY RunsKnownAre
    <3>2. /\ flows[c].status = "COMPLETED" <=> flows'[c].status = "COMPLETED"
          /\ flows[c].status = "ABSENT" <=> flows'[c].status = "ABSENT"
      BY <2>2, <2>4, <2>5
    <3>3. QED
      BY <1>3, <2>5, <3>1, <3>2 DEF RunKnown, OwnFlow, OwnRecord
  <2>7. OwnEvents'
    BY <2>2 DEF IInv, OwnEvents
  <2>8. QED
    BY <1>1, <2>2, <2>3, <2>6, <2>7, ServiceStepKeeps
<1>6. ASSUME NEW e \in queue, Dispatch(e) PROVE IInv'
  <2>1. /\ e.by \in Runs /\ e.body = Body(e.by)
        /\ queue' = queue \ {e} /\ UNCHANGED <<defs, hooks>>
        /\ flows' = [w \in Runs |-> IF w \in Matched(e)
                                   THEN [flows[w] EXCEPT !.status = "COMPLETED", !.by = e.by]
                                   ELSE flows[w]]
    BY <1>2, <1>6 DEF Dispatch, IInv, OwnEvents
  <2>2. \A w \in Matched(e) : flows[w].status = "RUNNING" /\ flows[w].matches \subseteq e.body
    BY DEF Matched
  <2>3. ASSUME NEW w \in Runs, w \in Matched(e) PROVE w = e.by
    <3>1. RunKnown(w)
      BY RunsKnownAre
    <3>2. flows[w].matches = Conditions(w)
      BY <2>2, <2>3, <3>1 DEF RunKnown, OwnFlow
    <3>3. QED
      BY <2>1, <2>2, <2>3, <3>2, OnlyItsOwn
  <2>4. flows' \in [Runs -> Instances]
    <3>1. ASSUME NEW w \in Runs, w \in Matched(e)
          PROVE  [flows[w] EXCEPT !.status = "COMPLETED", !.by = e.by] \in Instances
      BY <1>2, <2>1 DEF Instances, Terminal
    <3>2. QED
      BY <1>2, <2>1, <3>1
  <2>5. ASSUME NEW c \in Runs PROVE RunKnown(c)'
    <3>1. CASE c \in Matched(e)
      <4>1. /\ flows'[c].matches = flows[c].matches /\ flows'[c].by = c
            /\ flows'[c].status = "COMPLETED"
        BY <1>2, <2>1, <2>3, <3>1 DEF Instances
      <4>2. QED
        BY <1>3, <2>2, <3>1, <4>1, RunsKnownAre DEF RunKnown, OwnFlow, OwnRecord
    <3>2. CASE c \notin Matched(e)
      BY <1>3, <2>1, <3>2, RunsKnownAre, RunKept
    <3>3. QED
      BY <3>1, <3>2
  <2>6. OwnEvents'
    BY <2>1 DEF IInv, OwnEvents
  <2>7. QED
    BY <1>1, <2>1, <2>4, <2>5, <2>6, ServiceStepKeeps
<1>7. QED
  BY <1>2, <1>4, <1>5, <1>6 DEF ConductorNext

LEMMA StutterKeeps == ASSUME IInv, UNCHANGED vars PROVE IInv'
<1>1. /\ UNCHANGED <<driverVars, runVars, deliveries, told, littered>>
      /\ UNCHANGED <<defs, hooks, flows, queue>>
  BY DEF vars, conductorVars, serviceVars
<1>2. TypeOK'
  BY <1>1, TypeKept DEF IInv, TypeOK
<1>3. \A r \in Runs : RunKnown(r)'
  BY <1>1, RunsKnownAre, RunKept DEF runVars
<1>4. OwnEvents' /\ flows' \in [Runs -> Instances]
  BY <1>1 DEF IInv, OwnEvents, Shape
<1>5. QED
  BY <1>1, <1>2, <1>3, <1>4, ServiceStepKeeps

LEMMA NextKeepsIInv == ASSUME IInv, [Next]_vars PROVE IInv'
<1>1. ASSUME DriverStep PROVE IInv'
  BY <1>1, PingKeeps, RegisterWorkflowKeeps, RegisterWebhookKeeps, GatherKeeps, CancelKeeps,
     DeregisterWebhookKeeps, DeregisterWorkflowKeeps, BuildReportKeeps DEF DriverStep
<1>2. ASSUME NEW r \in Runs, RunStep(r) PROVE IInv'
  BY <1>2, AcquireKeeps, StartKeeps, FireKeeps, FireAnsweredKeeps, PollKeeps DEF RunStep
<1>3. ASSUME NEW r \in Runs, PollTimesOut(r) \/ LateStart(r) \/ Deliver(r) PROVE IInv'
  BY <1>3, PollTimesOutKeeps, LateStartKeeps, DeliverKeeps
<1>4. QED
  BY <1>1, <1>2, <1>3, InterruptKeeps, InterruptAgainKeeps, ConductorKeeps, StutterKeeps DEF Next

-----------------------------------------------------------------------------
(* The theorems.                                                           *)

\* The semaphore, the flows and the records of the runs fit together in every state.
THEOREM Invariance == Spec => []IInv
<1>1. IInv /\ [Next]_vars => IInv'
  BY NextKeepsIInv
<1>2. QED
  BY <1>1, InitIInv, PTL DEF Spec

\* Every variable keeps to its type, the semaphore's count to 0 .. concurrency.
THEOREM Typed == Spec => []TypeOK
<1>1. IInv => TypeOK
  BY DEF IInv
<1>2. QED
  BY <1>1, Invariance, PTL

\* Exit code 0 says of the conductor that every workflow is COMPLETED, each by its own event.
THEOREM ZeroIsTrue == Spec => []CleanExitIsTrue
<1>1. IInv => CleanExitIsTrue
  BY DEF IInv, Reported, RunsKnown, OwnFlow, OwnRecord, CleanExitIsTrue
<1>2. QED
  BY <1>1, Invariance, PTL

\* Every run is counted once, and "lost" is said only of an event the conductor got.
THEOREM LossesAreReal == Spec => []LossesAreLosses
<1>1. ASSUME IInv, report # None
      PROVE  /\ report.ok \cup report.failed \cup report.lost = Runs
             /\ report.ok \cap report.lost = {}
             /\ \A r \in report.lost : told[r] = "fired" /\ deliveries[r] = 1
  <2> DEFINE ok == {r \in Runs : status[r] = "COMPLETED"}
             lost == {r \in Runs : error[r] = "poll timeout"}
  <2>1. report = Figures
    BY <1>1 DEF IInv, Reported
  <2>2. report.ok = ok /\ report.lost = lost /\ report.failed = Runs \ (ok \cup lost)
    BY <2>1 DEF Figures
  <2>3. \A r \in Runs : error[r] = "poll timeout"
          => status[r] # "COMPLETED" /\ told[r] = "fired" /\ deliveries[r] = 1
    BY <1>1 DEF IInv, RunsKnown, OwnRecord
  <2>4. QED
    BY <2>2, <2>3
<1>2. IInv => LossesAreLosses
  BY <1>1 DEF LossesAreLosses
<1>3. QED
  BY <1>2, Invariance, PTL

\* Whatever is not to be kept is taken down, unless a removal was prevented.
THEOREM CleanupIsWhole == Spec => []NothingLeftBehind
<1>1. IInv => NothingLeftBehind
  BY DEF IInv, Registered, NothingLeftBehind
<1>2. QED
  BY <1>1, Invariance, PTL

\* The webhook outlives every run that still fires or polls: only the driver's cleanup
\* removes it, and only when all of them are over.
THEOREM WebhookOutlivesRuns == Spec => CleanupWaits
<1>1. ASSUME IInv, Next, hooks[Hook] # None, hooks'[Hook] = None
      PROVE  \A r \in Runs : pc[r] \in Over
  <2>1. stage \notin {"ping", "register_wf", "register_webhook"}
    BY <1>1 DEF IInv, Registered
  <2>2. hooks' # hooks
    BY <1>1
  <2>3. ASSUME NEW r \in Runs, RunStep(r) \/ PollTimesOut(r) \/ LateStart(r) \/ Deliver(r)
        PROVE  hooks' = hooks
    BY <2>3 DEF RunStep, Acquire, Start, Fire, FireAnswered, Poll, PollTimesOut, LateStart,
                Deliver, conductorVars
  <2>4. ConductorNext => hooks' = hooks
    BY DEF ConductorNext, RegisterWait, Abort, Dispatch
  <2>5. Interrupt \/ InterruptAgain => hooks' = hooks
    BY DEF Interrupt, InterruptAgain, conductorVars
  <2>6. DriverStep
    BY <1>1, <2>2, <2>3, <2>4, <2>5 DEF Next
  <2>7. Ping \/ RegisterWorkflow \/ RegisterWebhook
          => stage \in {"ping", "register_wf", "register_webhook"}
    BY DEF Ping, RegisterWorkflow, RegisterWebhook
  <2>8. Gather \/ Cancel \/ DeregisterWorkflow \/ BuildReport => hooks' = hooks
    BY DEF Gather, Cancel, CancelRuns, DeregisterWorkflow, BuildReport, conductorVars
  <2>9. DeregisterWebhook
    BY <2>1, <2>2, <2>6, <2>7, <2>8 DEF DriverStep
  <2>10. QED
    BY <1>1, <2>9 DEF DeregisterWebhook, IInv, Reported
<1>2. IInv /\ [Next]_vars
        => [hooks[Hook] # None /\ hooks'[Hook] = None => \A r \in Runs : pc[r] \in Over]_vars
  BY <1>1
<1>3. QED
  BY <1>2, Invariance, PTL DEF Spec, CleanupWaits

-----------------------------------------------------------------------------
(* LoadSmoke implements EndToEnd: each run is a call with one verdict.     *)

Asked     == {r \in Runs : pc[r] = "done" \/ flows[r].status # "ABSENT"}
Completed == {r \in Runs : flows[r].status = "COMPLETED" /\ flows[r].by = r}
Told      == [r \in Runs |-> Verdict(r)]

LEMMA Quiet ==
  ASSUME \A r \in Runs : /\ pc[r] = "done" <=> pc'[r] = "done"
                         /\ flows[r].status = "ABSENT" <=> flows'[r].status = "ABSENT"
                         /\ flows[r].status = "COMPLETED" /\ flows[r].by = r
                              <=> flows'[r].status = "COMPLETED" /\ flows'[r].by = r,
         UNCHANGED <<status, error>>
  PROVE  UNCHANGED <<Asked, Completed, Told>>
<1>1. Asked' = Asked
  BY DEF Asked
<1>2. Completed' = Completed
  BY DEF Completed
<1>3. ASSUME NEW r \in Runs PROVE Verdict(r)' = Verdict(r)
  BY <1>3 DEF Verdict
<1>4. Told' = Told
  BY <1>3 DEF Told
<1>5. QED
  BY <1>1, <1>2, <1>4

\* A workflow that is started is a call that is asked, unless its run is over already.
LEMMA StartAsks ==
  ASSUME IInv, NEW r \in Runs, flows[r].status = "ABSENT",
         StartInstance(r, Parent, Conditions(r)),
         \A c \in Runs : pc[c] = "done" <=> pc'[c] = "done", UNCHANGED <<status, error>>
  PROVE  Promise!Next \/ UNCHANGED <<Asked, Completed, Told>>
<1>1. /\ flows'[r].status = "RUNNING" /\ \A c \in Runs \ {r} : flows'[c] = flows[c]
  BY StartedIs
<1>2. Asked' = Asked \cup {r}
  BY <1>1 DEF Asked
<1>3. Completed' = Completed
  BY <1>1 DEF Completed
<1>4. ASSUME NEW c \in Runs PROVE Verdict(c)' = Verdict(c)
  BY <1>4 DEF Verdict
<1>5. Told' = Told
  BY <1>4 DEF Told
<1>6. CASE r \in Asked
  BY <1>2, <1>3, <1>5, <1>6
<1>7. CASE r \notin Asked
  <2>1. Promise!Ask(r)
    BY <1>2, <1>3, <1>5, <1>7 DEF Promise!Ask, Asked, Completed, Told
  <2>2. QED
    BY <2>1 DEF Promise!Next
<1>8. QED
  BY <1>6, <1>7

\* The end of a run is the verdict; one whose start failed was never let in.
LEMMA FinishTells ==
  ASSUME IInv, NEW r \in Runs, pc[r] \in {"start", "fire", "firing", "poll"},
         NEW s, NEW e, Finish(r, s, e), UNCHANGED flows,
         pc[r] = "start" => e = "exception",
         e # "exception" /\ s = "COMPLETED" => flows[r].status = "COMPLETED"
  PROVE  Promise!Next
<1> DEFINE v == IF e = "exception" THEN "broken" ELSE IF s = "COMPLETED" THEN "yes" ELSE "no"
<1>1. /\ pc'[r] = "done" /\ status'[r] = s /\ error'[r] = e
      /\ \A c \in Runs \ {r} : pc'[c] = pc[c] /\ status'[c] = status[c] /\ error'[c] = error[c]
  <2>1. DOMAIN pc = Runs /\ DOMAIN status = Runs /\ DOMAIN error = Runs
    BY DEF IInv, TypeOK
  <2>2. /\ pc' = [pc EXCEPT ![r] = "done"] /\ status' = [status EXCEPT ![r] = s]
        /\ error' = [error EXCEPT ![r] = e]
    BY DEF Finish, Set
  <2>3. QED
    BY <2>1, <2>2
<1>2. Verdict(r)' = v /\ Verdict(r) = "none"
  BY <1>1 DEF Verdict
<1>3. ASSUME NEW c \in Runs \ {r} PROVE Verdict(c)' = Verdict(c)
  BY <1>1, <1>3 DEF Verdict
<1>4. Told' = [Told EXCEPT ![r] = v] /\ Told[r] = "none"
  <2> HIDE DEF v
  <2>1. \A c \in Runs : Verdict(c)' = IF c = r THEN v ELSE Verdict(c)
    BY <1>2, <1>3
  <2>2. QED
    BY <1>2, <2>1, Zenon DEF Told
<1>5. Completed' = Completed
  BY DEF Completed
<1>6. Asked' = Asked \cup {r}
  BY <1>1 DEF Asked
<1>7. v = "yes" => r \in Completed
  BY RunsKnownAre DEF RunKnown, OwnFlow, Completed
<1>8. v \in {"yes", "no", "broken"}
  OBVIOUS
<1>9. CASE pc[r] = "start"
  <2>1. r \notin Asked /\ v = "broken"
    BY <1>9, RunsKnownAre DEF RunKnown, OwnFlow, Asked
  <2>2. Promise!TurnAway(r)
    BY <1>4, <1>5, <1>6, <2>1 DEF Promise!TurnAway, Asked, Completed, Told
  <2>3. QED
    BY <2>2 DEF Promise!Next
<1>10. CASE pc[r] # "start"
  <2>1. r \in Asked
    BY <1>10, RunsKnownAre DEF RunKnown, OwnFlow, Asked
  <2>2. Asked' = Asked
    BY <1>6, <2>1
  <2> HIDE DEF v
  <2>3. Promise!Tell(r, v)
    BY <1>4, <1>5, <1>7, <2>1, <2>2 DEF Promise!Tell, Asked, Completed, Told
  <2>4. QED
    BY <1>8, <2>3 DEF Promise!Next
<1>11. QED
  BY <1>9, <1>10

LEMMA RunTells ==
  ASSUME IInv, NEW r \in Runs, RunStep(r) \/ PollTimesOut(r)
  PROVE  Promise!Next \/ UNCHANGED <<Asked, Completed, Told>>
<1>1. DOMAIN pc = Runs
  BY DEF IInv, TypeOK
<1>2. CASE Acquire(r)
  <2>1. /\ pc[r] = "waiting" /\ pc' = [pc EXCEPT ![r] = "start"]
        /\ UNCHANGED <<flows, status, error>>
    BY <1>2 DEF Acquire, Set, conductorVars
  <2>2. QED
    BY <1>1, <2>1, Quiet
<1>3. CASE Start(r)
  <2>1. pc[r] = "start" /\ flows[r].status = "ABSENT"
    BY <1>3, RunsKnownAre DEF Start, RunKnown, OwnFlow
  <2>2. CASE /\ StartInstance(r, Parent, Conditions(r)) /\ Set(r, "fire")
             /\ UNCHANGED <<status, error>>
    <3>1. \A c \in Runs : pc[c] = "done" <=> pc'[c] = "done"
      BY <1>1, <2>1, <2>2 DEF Set
    <3>2. QED
      BY <2>1, <2>2, <3>1, StartAsks
  <2>3. CASE Except(r) /\ UNCHANGED flows
    BY <2>1, <2>3, FinishTells DEF Except
  <2>4. QED
    BY <1>3, <2>2, <2>3 DEF Start
<1>4. CASE Fire(r)
  <2>1. /\ pc[r] = "fire" /\ pc' = [pc EXCEPT ![r] = "firing"]
        /\ UNCHANGED <<flows, status, error>>
    BY <1>4 DEF Fire, Set, conductorVars
  <2>2. QED
    BY <1>1, <2>1, Quiet
<1>5. CASE FireAnswered(r)
  <2>1. pc[r] = "firing" /\ UNCHANGED flows
    BY <1>5 DEF FireAnswered, conductorVars
  <2>2. CASE Set(r, "poll") /\ UNCHANGED <<status, error>>
    <3>1. \A c \in Runs : pc[c] = "done" <=> pc'[c] = "done"
      BY <1>1, <2>1, <2>2 DEF Set
    <3>2. QED
      BY <2>1, <2>2, <3>1, Quiet
  <2>3. CASE Except(r)
    BY <2>1, <2>3, FinishTells DEF Except
  <2>4. QED
    BY <1>5, <2>2, <2>3 DEF FireAnswered
<1>6. CASE Poll(r)
  <2>1. pc[r] = "poll" /\ UNCHANGED flows
    BY <1>6 DEF Poll, conductorVars
  <2>2. CASE UNCHANGED <<pc, status, error>>
    BY <2>1, <2>2, Quiet
  <2>3. ASSUME NEW s \in {flows[r].status, "UNKNOWN"}, Finish(r, s, "none") PROVE Promise!Next
    BY <2>1, <2>3, FinishTells
  <2>4. CASE Except(r)
    BY <2>1, <2>4, FinishTells DEF Except
  <2>5. QED
    BY <1>6, <2>2, <2>3, <2>4 DEF Poll
<1>7. CASE PollTimesOut(r)
  <2>1. /\ pc[r] = "poll" /\ UNCHANGED flows /\ Finish(r, polled[r], "poll timeout")
    BY <1>7 DEF PollTimesOut, conductorVars
  <2>2. polled[r] # "COMPLETED"
    BY <2>1, RunsKnownAre DEF RunKnown, OwnRecord, Terminal
  <2>3. QED
    BY <2>1, <2>2, FinishTells
<1>8. QED
  BY <1>2, <1>3, <1>4, <1>5, <1>6, <1>7 DEF RunStep

\* The driver's own steps, a SIGINT and a delivery say nothing of any run.
LEMMA DriverTells ==
  ASSUME IInv, DriverStep \/ Interrupt \/ InterruptAgain \/ \E r \in Runs : Deliver(r)
  PROVE  UNCHANGED <<Asked, Completed, Told>>
<1>1. CASE Cancel
  <2>1. UNCHANGED <<flows, status, error>>
        /\ \A r \in Runs : pc[r] = "done" <=> pc'[r] = "done"
    BY <1>1 DEF Cancel, CancelRuns, conductorVars
  <2>2. QED
    BY <2>1, Quiet
<1>2. CASE ~ Cancel
  <2>1. UNCHANGED <<flows, pc, status, error>>
    BY <1>2 DEF DriverStep, Ping, RegisterWorkflow, RegisterWebhook, Gather, DeregisterWebhook,
       DeregisterWorkflow, BuildReport, Interrupt, InterruptAgain, Deliver, conductorVars, runVars
  <2>2. QED
    BY <2>1, Quiet
<1>3. QED
  BY <1>1, <1>2

\* The conductor completes a workflow by its own event only.
LEMMA ConductorTells ==
  ASSUME IInv, ConductorNext, UNCHANGED <<pc, status, error>>
  PROVE  Promise!Next \/ UNCHANGED <<Asked, Completed, Told>>
<1>1. flows \in [Runs -> Instances] /\ Flows = Runs
  BY OneOfEach DEF IInv, Shape
<1>2. ASSUME NEW w \in Runs, RegisterWait(w) PROVE UNCHANGED <<Asked, Completed, Told>>
  <2>1. \A c \in Runs : flows'[c].status = flows[c].status /\ flows'[c].by = flows[c].by
    BY <1>1, <1>2 DEF RegisterWait, Instances
  <2>2. QED
    BY <2>1, Quiet
<1>3. ASSUME NEW w \in Runs, Abort(w) PROVE UNCHANGED <<Asked, Completed, Told>>
  <2>1. PICK s \in Terminal \ {"COMPLETED"} : flows' = [flows EXCEPT ![w].status = s]
    BY <1>3 DEF Abort
  <2>2. flows[w].status = "RUNNING" /\ s # "ABSENT" /\ s # "COMPLETED"
    BY <1>3 DEF Abort, Terminal
  <2>3. flows'[w].status = s /\ \A c \in Runs \ {w} : flows'[c] = flows[c]
    BY <1>1, <2>1 DEF Instances
  <2>4. QED
    BY <2>2, <2>3, Quiet
<1>4. ASSUME NEW e \in queue, Dispatch(e) PROVE Promise!Next
  <2>1. flows' = [w \in Runs |-> IF w \in Matched(e)
                                THEN [flows[w] EXCEPT !.status = "COMPLETED", !.by = e.by]
                                ELSE flows[w]]
    BY <1>1, <1>4 DEF Dispatch
  <2>2. \A w \in Matched(e) : flows[w].status = "RUNNING"
    BY DEF Matched
  <2>3. ASSUME NEW w \in Runs
        PROVE  \/ flows'[w] = flows[w]
               \/ flows[w].status = "RUNNING" /\ flows'[w].status = "COMPLETED"
    <3>1. CASE w \in Matched(e)
      <4>1. flows[w] \in Instances
              /\ flows'[w] = [flows[w] EXCEPT !.status = "COMPLETED", !.by = e.by]
        BY <1>1, <2>1, <3>1
      <4>2. flows'[w].status = "COMPLETED"
        BY <4>1 DEF Instances
      <4>3. QED
        BY <2>2, <3>1, <4>2
    <3>2. CASE w \notin Matched(e)
      BY <2>1, <3>2
    <3>3. QED
      BY <3>1, <3>2
  <2>4. Asked' = Asked
    BY <2>3 DEF Asked
  <2>5. Completed' \in SUBSET Asked /\ Completed \subseteq Completed'
    BY <2>3, <2>4 DEF Asked, Completed
  <2>6. ASSUME NEW c \in Runs PROVE Verdict(c)' = Verdict(c)
    BY <2>6 DEF Verdict
  <2>7. Told' = Told
    BY <2>6 DEF Told
  <2>8. Promise!Complete
    BY <2>4, <2>5, <2>7 DEF Promise!Complete, Asked, Completed, Told
  <2>9. QED
    BY <2>8 DEF Promise!Next
<1>5. QED
  BY <1>1, <1>2, <1>3, <1>4 DEF ConductorNext

LEMMA StepTells == ASSUME IInv, Next PROVE Promise!Next \/ UNCHANGED <<Asked, Completed, Told>>
<1>1. ASSUME NEW r \in Runs, LateStart(r)
      PROVE  Promise!Next \/ UNCHANGED <<Asked, Completed, Told>>
  <2>1. /\ flows[r].status = "ABSENT" /\ StartInstance(r, Parent, Conditions(r))
        /\ UNCHANGED <<pc, status, error>>
    BY <1>1 DEF LateStart, runVars
  <2>2. QED
    BY <2>1, StartAsks
<1>2. ASSUME ConductorNext, UNCHANGED runVars
      PROVE  Promise!Next \/ UNCHANGED <<Asked, Completed, Told>>
  BY <1>2, ConductorTells DEF runVars
<1>3. QED
  BY <1>1, <1>2, RunTells, DriverTells DEF Next

\* Each run is one call of EndToEnd: asked once, given one verdict, "yes" only of a workflow
\* its own event completed.
THEOREM LoadKeepsPromise == Spec => KeepsPromise
<1>1. Init => Promise!Init
  BY OneOfEach DEF Init, ConductorInit, Absent, Promise!Init, Asked, Completed, Told, Verdict
<1>2. IInv /\ [Next]_vars => [Promise!Next]_<<Asked, Completed, Told>>
  <2>1. UNCHANGED vars => UNCHANGED <<Asked, Completed, Told>>
    BY DEF vars, conductorVars, runVars, Asked, Completed, Told, Verdict
  <2>2. QED
    BY <2>1, StepTells
<1>3. QED
  BY <1>1, <1>2, Invariance, PTL DEF Spec, KeepsPromise, Promise!Spec, Asked, Completed, Told
=============================================================================
