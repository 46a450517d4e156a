----------------------------- MODULE Composite -----------------------------
(***************************************************************************)
(* The composite driver (conductor-smoke/composite_smoke.py): a workflow   *)
(* in which WAIT_FOR_WEBHOOK is one of four parallel branches, then one    *)
(* that ends itself by TERMINATE, each started, polled, checked task by    *)
(* task and removed.                                                       *)
(*                                                                         *)
(* A definition is the graph of its tasks: who waits for whom.  The        *)
(* conductor's engine takes any task that waits for nothing more; its      *)
(* webhook side is Conductor, where the instance's entry of `flows` is its *)
(* waiting task.  The emitter is what FireService promises of it.  A       *)
(* SIGINT is raised in the driver wherever it is.                          *)
(***************************************************************************)
EXTENDS Conductor, FiniteSets, Naturals, Sequences

CONSTANTS Secret   \* the secret of hmac_case

Instances == {"parent", "child", "terminate"}

ASSUME OneOfEach == /\ Names = Instances
                    /\ Flows = {"parent"} /\ Hooks = {"hook"} /\ Sources = {"driver"}
ASSUME NoneApart ==
  None \notin 0 .. 14 /\ None \notin BOOLEAN /\ None \notin {{}, {"event"}}

VARIABLES keepDefs,    \* --keep-defs
          at,          \* the step of the plan the driver is at
          calling,     \* a call of /fire is under way
          raising,     \* a finally clause runs on account of an exception
          exit,        \* its exit code, None before; 1 is a SIGINT's 130 too
          passed,      \* whether all checks of an instance passed, None before
          status,      \* of each instance
          done,        \* its tasks that are COMPLETED
          iteration,   \* of loopRef
          deliveries,  \* FireService
          told,        \* FireService
          littered,    \* history: a registration or a removal did not end well
          disturbed    \* history: an instance was ended from outside

driverVars   == <<keepDefs, at, calling, raising, exit, passed>>
engineVars   == <<status, done, iteration>>
serviceVars  == <<deliveries, told>>
vars == <<conductorVars, driverVars, engineVars, serviceVars, littered, disturbed>>

Service == INSTANCE FireService WITH Callers <- Sources

-----------------------------------------------------------------------------
(* The definitions.                                                        *)

\* What seedRef sets; the SWITCH takes the case of that value.
Nonce == 1

Case == IF Nonce = 0 THEN "httpRef" ELSE IF Nonce = 1 THEN "inlineOkRef" ELSE "terminateNoopRef"

Dynamic == {"dyn1Ref", "dyn2Ref", "dyn3Ref"}

\* Mutation: the join waits for the loop instead of what captures its output.
JoinOnLoop == {"waitRef", "loopRef", "childRef", "dynJoinRef"}

JoinOn == {"waitRef", "captureRef", "childRef", "dynJoinRef"}

\* The pairs of a task and one that waits for it.
ChildGraph ==
  {<<"childSetRef", "childTransformRef">>, <<"childTransformRef", "childInlineRef">>}

ParentGraph ==
  {<<"seedRef", "transformRef">>, <<"transformRef", "switchRef">>,
   <<"switchRef", Case>>, <<Case, "forkRef">>}
  \cup {"forkRef"} \X {"waitRef", "loopRef", "childRef", "dynForkRef"}
  \cup {<<"loopRef", "captureRef">>}
  \cup {"dynForkRef"} \X Dynamic \cup Dynamic \X {"dynJoinRef"}
  \cup JoinOn \X {"joinRef"} \cup {<<"joinRef", "finalRef">>}

TerminateGraph == {<<"preRef", "terminateNowRef">>}

\* What each task waits for.
Waits(pairs) ==
  [t \in UNION {{p[1], p[2]} : p \in pairs} |-> {p[1] : p \in {q \in pairs : q[2] = t}}]

Graph == [i \in Instances |-> Waits(IF i = "child" THEN ChildGraph
                                    ELSE IF i = "parent" THEN ParentGraph ELSE TerminateGraph)]

Last(i) == IF i = "parent" THEN "finalRef" ELSE "childInlineRef"

\* Mutation: the loop stops one short.
LoopAgainTwice(n) == n < 2

LoopAgain(n) == n < 3

\* Whether an instance has the task: one that is done or has nothing more to wait for.
Has(i, t) == t \in DOMAIN Graph[i] /\ Graph[i][t] \subseteq done[i]

Tasks(i) == {t \in DOMAIN Graph[i] : Has(i, t)}

Config ==
  [verifier |-> "HMAC_BASED", headerKey |-> "X-Sig", secretValue |-> Secret,
   receiver |-> "parent", headers |-> [h \in {} |-> ""], urlVerified |-> FALSE]

Body == {"event", "runId"}

Signed == Sign("HMAC_BASED", SigningContext(Secret, Body, "X-Sig", "", "None")).headers

-----------------------------------------------------------------------------
(* The engine.                                                             *)

Runs(i, t) == status[i] = "RUNNING" /\ t \notin done[i] /\ Has(i, t)

Done(i, t) == done' = [done EXCEPT ![i] = @ \cup {t}]

\* INLINE, SET_VARIABLE, JSON_JQ_TRANSFORM, SWITCH and the forks: the server runs all that
\* are ready in one go.
Own == (UNION {DOMAIN Graph[i] : i \in Instances})
       \ {"httpRef", "dynJoinRef", "joinRef", "waitRef", "loopRef", "childRef",
          "terminateNoopRef", "terminateNowRef"}

Decide(i) ==
  /\ \E t \in Own \cap DOMAIN Graph[i] : Runs(i, t)
  /\ done' = [done EXCEPT ![i] = @ \cup (Tasks(i) \cap Own)]
  /\ UNCHANGED <<status, iteration>>

RunTask(i, t) ==
  /\ Runs(i, t)
  /\ t \in {"httpRef", "dynJoinRef", "joinRef"}
  /\ Done(i, t)
  /\ UNCHANGED <<status, iteration>>

\* One iteration of DO_WHILE.
RunLoop ==
  /\ Runs("parent", "loopRef")
  /\ iteration' = iteration + 1
  /\ IF LoopAgain(iteration') THEN UNCHANGED done ELSE Done("parent", "loopRef")
  /\ UNCHANGED status

StartChild ==
  /\ Runs("parent", "childRef")
  /\ status["child"] = "ABSENT"
  /\ status' = [status EXCEPT !["child"] = IF defs["child"] = None THEN "FAILED" ELSE "RUNNING"]
  /\ UNCHANGED <<done, iteration>>

\* SUB_WORKFLOW ends as its child does, and a task that fails is the end of its workflow.
ChildEnds ==
  /\ Runs("parent", "childRef")
  /\ status["child"] \in Terminal
  /\ IF status["child"] = "COMPLETED" THEN Done("parent", "childRef") /\ UNCHANGED status
     ELSE status' = [status EXCEPT !["parent"] = "FAILED"] /\ UNCHANGED done
  /\ UNCHANGED iteration

\* WAIT_FOR_WEBHOOK is done when the event has completed it.
WaitEnds ==
  /\ Runs("parent", "waitRef")
  /\ flows["parent"].status = "COMPLETED"
  /\ Done("parent", "waitRef")
  /\ UNCHANGED <<status, iteration>>

\* TERMINATE ends its workflow with the status it names.
Terminations == {<<"terminate", "terminateNowRef", "TERMINATED">>,
                 <<"parent", "terminateNoopRef", "FAILED">>}

Terminate(i, t, s) ==
  /\ Runs(i, t)
  /\ Done(i, t)
  /\ status' = [status EXCEPT ![i] = s]
  /\ UNCHANGED iteration

\* An instance is COMPLETED when its last task is done and no other is left.
Complete(i) ==
  /\ status[i] = "RUNNING"
  /\ Last(i) \in done[i]
  /\ Tasks(i) \subseteq done[i]
  /\ status' = [status EXCEPT ![i] = "COMPLETED"]
  /\ UNCHANGED <<done, iteration>>

EngineStep ==
  \/ \E i \in Instances : Decide(i) \/ Complete(i)
  \/ \E t \in DOMAIN Graph["parent"] : RunTask("parent", t)
  \/ RunLoop \/ StartChild \/ ChildEnds \/ WaitEnds
  \/ \E x \in Terminations : Terminate(x[1], x[2], x[3])

\* An operator or a policy of the server ends an instance, and its waiting task with it.
\* FAILED and TIMED_OUT are what TERMINATED is to the checks, or less like a success.
EndInstance(i) ==
  /\ status[i] = "RUNNING"
  /\ status' = [status EXCEPT ![i] = "TERMINATED"]
  /\ flows' = IF i = "parent" /\ flows[i].status = "RUNNING"
              THEN [flows EXCEPT ![i].status = "TERMINATED"] ELSE flows
  /\ disturbed' = TRUE
  /\ UNCHANGED <<defs, hooks, queue, done, iteration>>

\* The waiting task registers itself once the fork has reached it.
Register == Runs("parent", "waitRef") /\ RegisterWait("parent")

Server ==
  \/ EngineStep /\ UNCHANGED <<conductorVars, disturbed>>
  \/ (Register \/ \E e \in queue : Dispatch(e)) /\ UNCHANGED <<engineVars, disturbed>>
  \/ \E i \in Instances : EndInstance(i)

-----------------------------------------------------------------------------
(* The checks, of the workflow as the poll returned it.                    *)

Joined == Dynamic \cap done["parent"]

AssertComposite ==
  /\ {"seedRef", "transformRef", "waitRef", "childRef", "dynJoinRef"} \subseteq done["parent"]
  /\ Has("parent", "httpRef") # Has("parent", "inlineOkRef")
  /\ ~ Has("parent", "terminateNoopRef")
  /\ iteration >= 3
  /\ Cardinality(Joined) >= 3
  /\ status["parent"] = "COMPLETED"

AssertTerminate ==
  /\ {"preRef", "terminateNowRef"} \subseteq done["terminate"]
  /\ status["terminate"] = "TERMINATED"

Checks(i) == IF i = "parent" THEN AssertComposite ELSE AssertTerminate

-----------------------------------------------------------------------------
(* The driver.                                                             *)

Plan ==
  << <<"ping", "">>, <<"define", "child">>, <<"define", "parent">>, <<"hook", "">>,
     <<"start", "parent">>, <<"fire", "">>, <<"poll", "parent">>,
     <<"unhook", "">>, <<"undefine", "parent">>, <<"undefine", "child">>,
     <<"define", "terminate">>, <<"start", "terminate">>, <<"poll", "terminate">>,
     <<"undefine", "terminate">> >>

Init ==
  /\ ConductorInit
  /\ Service!Init
  /\ keepDefs \in BOOLEAN
  /\ at = 1 /\ calling = FALSE /\ raising = FALSE /\ exit = None
  /\ passed = [i \in {"parent", "terminate"} |-> None]
  /\ status = [i \in Instances |-> "ABSENT"]
  /\ done = [i \in Instances |-> {}]
  /\ iteration = 0
  /\ littered = FALSE /\ disturbed = FALSE

Op == IF exit = None /\ at \in DOMAIN Plan THEN Plan[at][1] ELSE "none"
Arg == Plan[at][2]

Removal(n) == n \in DOMAIN Plan /\ Plan[n][1] \in {"unhook", "undefine"}

\* The end of the try block that step n is in, None outside.
Finally(n) == IF n \in 5 .. 7 THEN 8 ELSE IF n \in 12 .. 13 THEN 14 ELSE None

Advance == at' = at + 1 /\ calling' = FALSE /\ UNCHANGED <<keepDefs, raising, exit>>

End(c) ==
  /\ exit' = c /\ at' = Len(Plan) + 1 /\ calling' = FALSE /\ raising' = FALSE
  /\ UNCHANGED keepDefs

\* Mutation: the removals are in no finally clause.
RaiseNoFinally == End(1)

\* An exception leaves by the finally clause if there is one, with removals or without.
Raise ==
  IF Finally(at) = None \/ keepDefs THEN End(1)
  ELSE at' = Finally(at) /\ raising' = TRUE /\ calling' = FALSE /\ UNCHANGED <<keepDefs, exit>>

\* The last removal of a clause lets through what was raised; --keep-defs skips all.
Skip ==
  /\ exit = None /\ Removal(at) /\ keepDefs
  /\ Advance
  /\ UNCHANGED <<conductorVars, passed, engineVars, serviceVars, littered, disturbed>>

Ping ==
  /\ Op = "ping"
  /\ Advance \/ End(3)
  /\ UNCHANGED <<conductorVars, passed, engineVars, serviceVars, littered, disturbed>>

\* The match conditions of a definition; only the parent waits.
Conditions == IF Arg = "parent" THEN {"event"} ELSE {}

\* A registration that raises may have been applied: the try has not begun.
Define ==
  /\ Op = "define"
  /\ \/ PutDef(Arg, Conditions) /\ Advance /\ UNCHANGED littered
     \/ (PutDef(Arg, Conditions) \/ UNCHANGED defs) /\ Raise /\ littered' = TRUE
  /\ UNCHANGED <<hooks, flows, queue, passed, engineVars, serviceVars, disturbed>>

RegisterWebhook ==
  /\ Op = "hook"
  /\ \/ CreateHook("hook", Config) /\ Advance /\ UNCHANGED littered
     \/ (CreateHook("hook", Config) \/ UNCHANGED hooks) /\ Raise /\ littered' = TRUE
  /\ UNCHANGED <<defs, flows, queue, passed, engineVars, serviceVars, disturbed>>

\* The parent's waiting task comes into being with it.
Begin(i) ==
  /\ defs[i] # None
  /\ status' = [status EXCEPT ![i] = "RUNNING"]
  /\ IF i = "parent" THEN StartFlow(i, i) ELSE UNCHANGED flows

Start ==
  /\ Op = "start"
  /\ \/ Begin(Arg) /\ Advance
     \/ (Begin(Arg) \/ UNCHANGED <<status, flows>>) /\ Raise
  /\ UNCHANGED <<defs, hooks, queue, passed, done, iteration, serviceVars, littered, disturbed>>

\* After the settle, a sleep that synchronises with nothing.
Fire ==
  /\ Op = "fire" /\ ~ calling
  /\ calling' = TRUE
  /\ UNCHANGED <<conductorVars, keepDefs, at, raising, exit, passed, engineVars, serviceVars,
                 littered, disturbed>>

\* A status of 300 or more is printed, and the poll goes ahead.
FireAnswered ==
  /\ Op = "fire" /\ calling
  /\ \/ Service!Fired("driver") /\ Advance
     \/ (Service!Refused("driver") \/ told' = [told EXCEPT !["driver"] = "unknown"]) /\ Raise
  /\ UNCHANGED <<conductorVars, passed, engineVars, deliveries, littered, disturbed>>

\* During the call or after the driver gave up on it.
Deliver ==
  /\ calling \/ told["driver"] # "nothing"
  /\ Service!Deliver("driver")
  /\ \/ /\ hooks["hook"] # None
        /\ Verified(hooks["hook"], Signed, Body)
        /\ Enqueue("hook", Body, "driver")
     \/ UNCHANGED queue
  /\ UNCHANGED <<defs, hooks, flows, driverVars, engineVars, littered, disturbed>>

\* The checks see the workflow the poll returned, tasks and all.
Poll ==
  /\ Op = "poll"
  /\ \/ /\ status[Arg] \in Terminal
        /\ passed' = [passed EXCEPT ![Arg] = Checks(Arg)]
        /\ Advance
     \/ Raise /\ UNCHANGED passed
  /\ UNCHANGED <<conductorVars, engineVars, serviceVars, littered, disturbed>>

\* What the last poll returned is not terminal, which the last check of either catches.
PollTimesOut ==
  /\ Op = "poll"
  /\ passed' = [passed EXCEPT ![Arg] = FALSE]
  /\ Advance
  /\ UNCHANGED <<conductorVars, engineVars, serviceVars, littered, disturbed>>

\* Mutation: the finally clause returns, and the exception is gone.
LeaveSwallows == Advance

Leave == IF Removal(at + 1) \/ ~ raising THEN Advance ELSE End(1)

\* A removal that fails is not noticed, and is not tried again.
Remove ==
  /\ Removal(at) /\ exit = None /\ ~ keepDefs
  /\ Leave
  /\ IF Op = "unhook"
     THEN UNCHANGED defs /\ \/ DeleteHook("hook") /\ UNCHANGED littered
                            \/ UNCHANGED hooks /\ littered' = TRUE
     ELSE UNCHANGED hooks /\ \/ DeleteDef(Arg) /\ UNCHANGED littered
                             \/ UNCHANGED defs /\ littered' = TRUE
  /\ UNCHANGED <<flows, queue, passed, engineVars, serviceVars, disturbed>>

\* Mutation: only the checks of the second workflow count.
FinishLast ==
  /\ exit = None /\ at = Len(Plan) + 1
  /\ End(IF passed["terminate"] THEN 0 ELSE 1)
  /\ UNCHANGED <<conductorVars, passed, engineVars, serviceVars, littered, disturbed>>

Finish ==
  /\ exit = None /\ at = Len(Plan) + 1
  /\ End(IF \A i \in DOMAIN passed : passed[i] THEN 0 ELSE 1)
  /\ UNCHANGED <<conductorVars, passed, engineVars, serviceVars, littered, disturbed>>

\* In a try block the finally clause runs; a removal is not `except Exception`'s to save.
Interrupt ==
  /\ Op # "none"
  /\ IF Removal(at) THEN End(1) ELSE Raise
  /\ littered' = (littered \/ Op \in {"define", "hook", "unhook", "undefine"})
  /\ told' = IF calling THEN [told EXCEPT !["driver"] = "unknown"] ELSE told
  /\ UNCHANGED <<conductorVars, passed, engineVars, deliveries, disturbed>>

-----------------------------------------------------------------------------
DriverStep == \/ Ping \/ Define \/ RegisterWebhook \/ Start \/ Fire \/ FireAnswered
              \/ Poll \/ PollTimesOut \/ Skip \/ Remove \/ Finish

Next ==
  \/ DriverStep \/ Interrupt \/ Deliver
  \/ Server /\ UNCHANGED <<driverVars, serviceVars, littered>>

Spec == Init /\ [][Next]_vars

-----------------------------------------------------------------------------
(* Properties.                                                             *)

TypeOK ==
  /\ at \in 1 .. Len(Plan) + 1
  /\ calling => Op = "fire"
  /\ raising \in BOOLEAN /\ (raising => Removal(at))
  /\ exit \in {None, 0, 1, 3}
  /\ passed \in [{"parent", "terminate"} -> {None, TRUE, FALSE}]
  /\ status \in [Instances -> Terminal \cup {"ABSENT", "RUNNING"}]
  /\ \A i \in Instances : \A t \in done[i] : Has(i, t)
  /\ iteration \in 0 .. 3

\* "the top-level workflow only reaches COMPLETED when all branches have joined" (lines
\* 16-17): finalRef, which aggregates the four branches, is not scheduled before the
\* driver's own event, all iterations with their capture, the child and the three dynamic
\* tasks are through.
AllBranchesJoin ==
  Has("parent", "finalRef") =>
     /\ flows["parent"].by = "driver" /\ deliveries["driver"] = 1
     /\ iteration = 3 /\ "captureRef" \in done["parent"]
     /\ status["child"] = "COMPLETED"
     /\ Dynamic \subseteq done["parent"]

\* Exit code 0 is the truth about the conductor: the composite is COMPLETED with every one
\* of its tasks, and the other workflow was ended by its TERMINATE and by nobody else.
CleanExitIsTrue ==
  exit = 0 =>
     /\ status["parent"] = "COMPLETED" /\ done["parent"] = DOMAIN Graph["parent"]
     /\ flows["parent"].by = "driver" /\ status["child"] = "COMPLETED"
     /\ status["terminate"] = "TERMINATED" /\ "terminateNowRef" \in done["terminate"]

\* The checks ask of a workflow what its definition gives: an instance that ended, and
\* that nobody ended from outside, passes them all.
ChecksFitDefinitions ==
  Op = "poll" /\ status[Arg] \in Terminal /\ ~ disturbed => Checks(Arg)

\* However the driver ends, by itself, an exception or a SIGINT, nothing stays registered
\* unless it was to be kept or a registration or a removal went wrong.
NothingLeftBehind ==
  exit # None /\ ~ littered /\ ~ keepDefs =>
     hooks["hook"] = None /\ \A n \in Names : defs[n] = None
=============================================================================
