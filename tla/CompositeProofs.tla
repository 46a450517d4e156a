-------------------------- MODULE CompositeProofs --------------------------
(***************************************************************************)
(* Theorems about Composite, for any secret.  The plan and the graphs are  *)
(* the program's own, so what they prove beyond the run is little in size, *)
(* and the argument is the point: why no order of the engine's steps, no   *)
(* moment of an interrupt and no end from outside breaks the properties.   *)
(*                                                                         *)
(* The invariant has a part for each of who acts: where the driver is and  *)
(* what its place implies (Driver), what it has registered and not removed *)
(* (Left), whose event there can be (Events), what a task that is done has *)
(* left behind (Engine), and how an instance may have ended (Ends).        *)
(***************************************************************************)
EXTENDS Composite, FiniteSetTheorems, TLAPS

\* A waiting task.
Task == [name : Names \cup {None}, matches : {{}, {"event"}},
         status : Terminal \cup {"RUNNING", "ABSENT"}, registered : BOOLEAN,
         by : Sources \cup {None}]

\* Where the driver is: the first check of a workflow is behind a driver that is past its
\* poll, unless an exception took it there.
Driver ==
  /\ at \in 1 .. 15
  /\ keepDefs \in BOOLEAN
  /\ calling \in BOOLEAN /\ (calling => at = 6 /\ exit = None)
  /\ raising \in BOOLEAN /\ (raising => at \in {8, 9, 10, 14} /\ exit = None /\ ~ keepDefs)
  /\ exit \in {None, 0, 1, 3} /\ (exit # None => at = 15)
  /\ passed \in [{"parent", "terminate"} -> {None, TRUE, FALSE}]
  /\ exit = None /\ ~ raising =>
        /\ at > 7 => passed["parent"] # None
        /\ at > 13 => passed["terminate"] # None
  /\ exit = 0 => passed["parent"] = TRUE /\ passed["terminate"] = TRUE

\* What is registered fits the step: a definition or webhook is there from its
\* registration to its removal.
Left ==
  /\ defs \in [Names -> {None, {}, {"event"}}]
  /\ DOMAIN hooks = Hooks
  /\ at \in 3 .. 10 => defs["child"] # None
  /\ ~ littered /\ ~ keepDefs =>
        /\ hooks["hook"] # None => at \in 5 .. 8
        /\ defs["child"] # None => at \in 3 .. 10
        /\ defs["parent"] # None => at \in 4 .. 9
        /\ defs["terminate"] # None => at \in 12 .. 14

\* The event is the driver's, and the waiting task is completed by nothing else.
Events ==
  /\ flows \in [Flows -> Task]
  /\ deliveries \in [Sources -> {0, 1}]
  /\ \A x \in queue : x.by = "driver" /\ deliveries["driver"] = 1
  /\ flows["parent"].status = "COMPLETED" =>
        flows["parent"].by = "driver" /\ deliveries["driver"] = 1

\* What a task that is done leaves: those before it are done, and the loop, the child and
\* the event are through.
Engine ==
  /\ status \in [Instances -> Terminal \cup {"ABSENT", "RUNNING"}]
  /\ DOMAIN done = Instances
  /\ \A i \in Instances : \A t \in done[i] : Has(i, t)
  /\ \A i \in Instances : status[i] = "ABSENT" => done[i] = {}
  /\ iteration \in 0 .. 3
  /\ "loopRef" \in done["parent"] <=> iteration = 3
  /\ "childRef" \in done["parent"] => status["child"] = "COMPLETED"
  /\ "waitRef" \in done["parent"] => flows["parent"].status = "COMPLETED"

\* How an instance may have ended, by the driver's plan, and what the checks saw of it.
Ends ==
  /\ at <= 5 => status["parent"] = "ABSENT"
  /\ at <= 12 => status["terminate"] = "ABSENT"
  /\ status["parent"] = "COMPLETED" => "finalRef" \in done["parent"]
  /\ ~ disturbed /\ at <= 10 =>
        \A i \in {"parent", "child"} : status[i] \in {"ABSENT", "RUNNING", "COMPLETED"}
  /\ ~ disturbed =>
        \/ status["terminate"] \in {"ABSENT", "RUNNING"}
        \/ status["terminate"] = "TERMINATED" /\ "terminateNowRef" \in done["terminate"]
  /\ passed["parent"] = TRUE => status["parent"] = "COMPLETED"
  /\ passed["terminate"] = TRUE =>
        status["terminate"] = "TERMINATED" /\ "terminateNowRef" \in done["terminate"]

\* The inductive invariant.
IInv == Driver /\ Left /\ Events /\ Engine /\ Ends

-----------------------------------------------------------------------------
(* The plan and the graphs.                                                *)

LEMMA PlanLength == DOMAIN Plan = 1 .. 14 /\ Len(Plan) = 14
  BY DEF Plan

LEMMA PlanOps ==
  /\ Plan[1][1] = "ping"      /\ Plan[2][1] = "define"  /\ Plan[3][1] = "define"
  /\ Plan[4][1] = "hook"      /\ Plan[5][1] = "start"   /\ Plan[6][1] = "fire"
  /\ Plan[7][1] = "poll"      /\ Plan[8][1] = "unhook"  /\ Plan[9][1] = "undefine"
  /\ Plan[10][1] = "undefine" /\ Plan[11][1] = "define" /\ Plan[12][1] = "start"
  /\ Plan[13][1] = "poll"     /\ Plan[14][1] = "undefine"
<1>1. /\ Plan[1][1] = "ping" /\ Plan[2][1] = "define" /\ Plan[3][1] = "define"
      /\ Plan[4][1] = "hook" /\ Plan[5][1] = "start"  /\ Plan[6][1] = "fire"
      /\ Plan[7][1] = "poll"
  BY DEF Plan
<1>2. /\ Plan[8][1] = "unhook"    /\ Plan[9][1] = "undefine"
      /\ Plan[10][1] = "undefine" /\ Plan[11][1] = "define" /\ Plan[12][1] = "start"
      /\ Plan[13][1] = "poll"     /\ Plan[14][1] = "undefine"
  BY DEF Plan
<1>3. QED
  BY <1>1, <1>2

LEMMA PlanArgs ==
  /\ Plan[2][2] = "child"  /\ Plan[3][2] = "parent" /\ Plan[5][2] = "parent"
  /\ Plan[7][2] = "parent" /\ Plan[9][2] = "parent" /\ Plan[10][2] = "child"
  /\ Plan[11][2] = "terminate" /\ Plan[12][2] = "terminate"
  /\ Plan[13][2] = "terminate" /\ Plan[14][2] = "terminate"
  BY DEF Plan

\* Which step has which operation.
LEMMA OpIs ==
  ASSUME at \in 1 .. 15
  PROVE  /\ Op # "none" => exit = None /\ at \in 1 .. 14
         /\ Op = "ping" => at = 1
         /\ Op = "define" => \/ at = 2 /\ Arg = "child"
                             \/ at = 3 /\ Arg = "parent"
                             \/ at = 11 /\ Arg = "terminate"
         /\ Op = "hook" => at = 4
         /\ Op = "start" => \/ at = 5 /\ Arg = "parent"
                            \/ at = 12 /\ Arg = "terminate"
         /\ Op = "fire" <=> exit = None /\ at = 6
         /\ Op = "poll" => \/ at = 7 /\ Arg = "parent"
                           \/ at = 13 /\ Arg = "terminate"
         /\ Op = "unhook" => at = 8
         /\ Op \in {"define", "hook", "unhook", "undefine"} <=>
               exit = None /\ at \in {2, 3, 4, 8, 9, 10, 11, 14}
<1>1. at \in 1 .. 14 \/ at = 15
  OBVIOUS
<1>2. CASE at = 15 \/ exit # None
  BY <1>2, PlanLength DEF Op
<1>3. CASE at \in 1 .. 14 /\ exit = None
  <2>1. Op = Plan[at][1] /\ Arg = Plan[at][2]
    BY <1>3, PlanLength DEF Op, Arg
  <2>2. \/ at = 1 \/ at = 2 \/ at = 3 \/ at = 4 \/ at = 5 \/ at = 6 \/ at = 7
        \/ at = 8 \/ at = 9 \/ at = 10 \/ at = 11 \/ at = 12 \/ at = 13 \/ at = 14
    BY <1>3
  <2>3. QED
    BY <1>3, <2>1, <2>2, PlanOps, PlanArgs
<1>4. QED
  BY <1>1, <1>2, <1>3

LEMMA RemovalIs ==
  \A n \in 1 .. 16 : Removal(n) <=> n \in {8, 9, 10, 14}
<1>1. ASSUME NEW n \in 1 .. 14 PROVE Removal(n) <=> n \in {8, 9, 10, 14}
  <2>1. \/ n = 1 \/ n = 2 \/ n = 3 \/ n = 4 \/ n = 5 \/ n = 6 \/ n = 7
        \/ n = 8 \/ n = 9 \/ n = 10 \/ n = 11 \/ n = 12 \/ n = 13 \/ n = 14
    OBVIOUS
  <2>2. QED
    BY <2>1, PlanLength, PlanOps DEF Removal
<1>2. ASSUME NEW n \in {15, 16} PROVE ~ Removal(n)
  BY PlanLength DEF Removal
<1>3. QED
  BY <1>1, <1>2

\* Where an exception goes.
LEMMA RaiseIs ==
  ASSUME at \in 1 .. 14, Raise
  PROVE  /\ UNCHANGED keepDefs /\ ~ calling'
         /\ \/ /\ exit' = 1 /\ at' = 15 /\ ~ raising'
               /\ keepDefs \/ at \notin {5, 6, 7, 12, 13}
            \/ /\ ~ keepDefs /\ raising' = TRUE /\ UNCHANGED exit
               /\ (at \in {5, 6, 7} /\ at' = 8) \/ (at \in {12, 13} /\ at' = 14)
<1>1. /\ at \in {5, 6, 7} => Finally(at) = 8
      /\ at \in {12, 13} => Finally(at) = 14
      /\ at \notin {5, 6, 7, 12, 13} => Finally(at) = None
  BY DEF Finally
<1>2. None \notin {8, 14}
  BY NoneApart
<1>3. CASE Finally(at) = None \/ keepDefs
  <2>1. End(1)
    BY <1>3 DEF Raise
  <2>2. keepDefs \/ at \notin {5, 6, 7, 12, 13}
    BY <1>1, <1>2, <1>3
  <2>3. QED
    BY <2>1, <2>2, PlanLength DEF End
<1>4. CASE ~ (Finally(at) = None \/ keepDefs)
  <2>1. at' = Finally(at) /\ raising' = TRUE /\ calling' = FALSE /\ UNCHANGED <<keepDefs, exit>>
    BY <1>4 DEF Raise
  <2>2. QED
    BY <1>1, <1>2, <1>4, <2>1
<1>5. QED
  BY <1>3, <1>4

LEMMA CaseIs == Case = "inlineOkRef"
  BY DEF Case, Nonce

\* A task of an instance waits for those the graph says.
LEMMA Needed ==
  ASSUME NEW a, NEW b, <<a, b>> \in ParentGraph, Has("parent", b)
  PROVE  a \in done["parent"]
<1>1. Graph["parent"] = Waits(ParentGraph)
  BY DEF Graph, Instances
<1>2. b \in DOMAIN Waits(ParentGraph) /\ a \in Waits(ParentGraph)[b]
  <2>1. <<a, b>>[1] = a /\ <<a, b>>[2] = b
    OBVIOUS
  <2>2. b \in UNION {{p[1], p[2]} : p \in ParentGraph}
    BY <2>1
  <2>3. a \in {p[1] : p \in {q \in ParentGraph : q[2] = b}}
    BY <2>1
  <2>4. QED
    BY <2>2, <2>3 DEF Waits
<1>3. QED
  BY <1>1, <1>2 DEF Has

LEMMA ParentTasks ==
  DOMAIN Graph["parent"] =
    {"seedRef", "transformRef", "switchRef", "inlineOkRef", "forkRef", "waitRef", "loopRef",
     "captureRef", "childRef", "dynForkRef", "dyn1Ref", "dyn2Ref", "dyn3Ref", "dynJoinRef",
     "joinRef", "finalRef"}
<1> DEFINE All ==
    {"seedRef", "transformRef", "switchRef", "inlineOkRef", "forkRef", "waitRef", "loopRef",
     "captureRef", "childRef", "dynForkRef", "dyn1Ref", "dyn2Ref", "dyn3Ref", "dynJoinRef",
     "joinRef", "finalRef"}
<1>1. DOMAIN Graph["parent"] = UNION {{p[1], p[2]} : p \in ParentGraph}
  BY DEF Graph, Instances, Waits
<1>2. ASSUME NEW p \in ParentGraph PROVE p[1] \in All /\ p[2] \in All
  BY CaseIs DEF ParentGraph, Dynamic, JoinOn
<1>3. ASSUME NEW t \in All PROVE \E p \in ParentGraph : t = p[1] \/ t = p[2]
  <2>1. /\ <<"seedRef", "transformRef">> \in ParentGraph
        /\ <<"switchRef", "inlineOkRef">> \in ParentGraph
        /\ <<"forkRef", "waitRef">> \in ParentGraph /\ <<"forkRef", "loopRef">> \in ParentGraph
        /\ <<"loopRef", "captureRef">> \in ParentGraph
        /\ <<"forkRef", "childRef">> \in ParentGraph
        /\ <<"dynForkRef", "dyn1Ref">> \in ParentGraph
        /\ <<"dynForkRef", "dyn2Ref">> \in ParentGraph
        /\ <<"dynForkRef", "dyn3Ref">> \in ParentGraph
        /\ <<"dynJoinRef", "joinRef">> \in ParentGraph /\ <<"joinRef", "finalRef">> \in ParentGraph
    BY CaseIs DEF ParentGraph, Dynamic, JoinOn
  <2>2. QED
    BY <2>1
<1>4. QED
  BY <1>1, <1>2, <1>3

\* The last task of the parent has all others behind it.
LEMMA AllBeforeFinal ==
  ASSUME \A t \in done["parent"] : Has("parent", t), Has("parent", "finalRef")
  PROVE  /\ {"joinRef", "waitRef", "captureRef", "childRef", "dynJoinRef", "loopRef",
             "dyn1Ref", "dyn2Ref", "dyn3Ref", "dynForkRef", "forkRef", "inlineOkRef",
             "switchRef", "transformRef", "seedRef"} \subseteq done["parent"]
<1>1. "joinRef" \in done["parent"]
  BY Needed DEF ParentGraph
<1>2. {"waitRef", "captureRef", "childRef", "dynJoinRef"} \subseteq done["parent"]
  BY <1>1, Needed DEF ParentGraph, JoinOn
<1>3. {"loopRef", "dyn1Ref", "dyn2Ref", "dyn3Ref"} \subseteq done["parent"]
  BY <1>2, Needed DEF ParentGraph, Dynamic
<1>4. {"dynForkRef", "forkRef"} \subseteq done["parent"]
  BY <1>2, <1>3, Needed DEF ParentGraph, Dynamic
<1>5. "inlineOkRef" \in done["parent"]
  BY <1>4, CaseIs, Needed DEF ParentGraph
<1>6. "switchRef" \in done["parent"]
  BY <1>5, CaseIs, Needed DEF ParentGraph
<1>7. "transformRef" \in done["parent"]
  BY <1>6, Needed DEF ParentGraph
<1>8. "seedRef" \in done["parent"]
  BY <1>7, Needed DEF ParentGraph
<1>9. QED
  BY <1>1, <1>2, <1>3, <1>4, <1>5, <1>6, <1>7, <1>8

LEMMA TerminateTasks ==
  /\ DOMAIN Graph["terminate"] = {"preRef", "terminateNowRef"}
  /\ Has("terminate", "terminateNowRef") => "preRef" \in done["terminate"]
<1>1. Graph["terminate"] = Waits(TerminateGraph)
  BY DEF Graph, Instances
<1>2. DOMAIN Waits(TerminateGraph) = {"preRef", "terminateNowRef"}
  BY DEF Waits, TerminateGraph
<1>3. "preRef" \in Waits(TerminateGraph)["terminateNowRef"]
  BY <1>2 DEF Waits, TerminateGraph
<1>4. QED
  BY <1>1, <1>2, <1>3 DEF Has

-----------------------------------------------------------------------------
(* The parts of the invariant, under what steps have in common.            *)

LEMMA DriverAdvances ==
  ASSUME Driver, exit = None, at \in 1 .. 14, Advance, raising => at \in {8, 9},
         passed' \in [{"parent", "terminate"} -> {None, TRUE, FALSE}],
         \A i \in {"parent", "terminate"} : passed[i] # None => passed'[i] # None,
         at = 7 => passed'["parent"] # None, at = 13 => passed'["terminate"] # None
  PROVE  Driver' /\ at' = at + 1 /\ UNCHANGED keepDefs
<1>1. at' = at + 1 /\ calling' = FALSE /\ keepDefs' = keepDefs /\ raising' = raising
      /\ exit' = exit
  BY DEF Advance
<1>2. at' \in 1 .. 15
  BY <1>1
<1>3. keepDefs' \in BOOLEAN /\ calling' \in BOOLEAN /\ ~ calling'
  BY <1>1 DEF Driver
<1>4. raising' \in BOOLEAN
  BY <1>1, Zenon DEF Driver
<1>5. raising' => at' \in {8, 9, 10, 14} /\ exit' = None /\ ~ keepDefs'
  BY <1>1 DEF Driver
<1>6. exit' \in {None, 0, 1, 3} /\ (exit' # None => at' = 15) /\ exit' # 0
  BY <1>1, NoneApart
<1>7. exit' = None /\ ~ raising' =>
        /\ at' > 7 => passed'["parent"] # None
        /\ at' > 13 => passed'["terminate"] # None
  BY <1>1 DEF Driver
<1>8. Driver'
  BY <1>2, <1>3, <1>4, <1>5, <1>6, <1>7 DEF Driver
<1>9. QED
  BY <1>1, <1>8

\* The same of a step that is no poll.
LEMMA DriverGoesOn ==
  ASSUME Driver, exit = None, at \in 1 .. 14, at \notin {7, 13}, Advance,
         raising => at \in {8, 9}, UNCHANGED passed
  PROVE  Driver' /\ at' = at + 1 /\ UNCHANGED keepDefs
<1>1. passed' \in [{"parent", "terminate"} -> {None, TRUE, FALSE}]
  BY DEF Driver
<1>2. \A i \in {"parent", "terminate"} : passed[i] # None => passed'[i] # None
  OBVIOUS
<1>3. at # 7 /\ at # 13
  OBVIOUS
<1>4. QED
  BY <1>1, <1>2, <1>3, DriverAdvances

LEMMA DriverRaises ==
  ASSUME Driver, exit = None, at \in 1 .. 14, Raise, UNCHANGED passed
  PROVE  /\ Driver' /\ at <= at' /\ UNCHANGED keepDefs
         /\ \/ at' = 15 /\ (keepDefs \/ at \notin {5, 6, 7, 12, 13})
            \/ ~ keepDefs /\ at \in {5, 6, 7} /\ at' = 8
            \/ ~ keepDefs /\ at \in {12, 13} /\ at' = 14
<1>1. /\ UNCHANGED keepDefs /\ ~ calling'
      /\ \/ /\ exit' = 1 /\ at' = 15 /\ ~ raising'
            /\ keepDefs \/ at \notin {5, 6, 7, 12, 13}
         \/ /\ ~ keepDefs /\ raising' = TRUE /\ UNCHANGED exit
            /\ (at \in {5, 6, 7} /\ at' = 8) \/ (at \in {12, 13} /\ at' = 14)
  BY RaiseIs
<1>2. 1 # None /\ 0 # None
  BY NoneApart
<1>3. calling' = FALSE /\ raising' \in BOOLEAN
  BY <1>1, Zenon DEF Raise, End
<1>4. at' \in 1 .. 15 /\ at <= at'
  BY <1>1
<1>5. raising' => at' \in {8, 9, 10, 14} /\ exit' = None /\ ~ keepDefs'
  BY <1>1
<1>6. exit' \in {None, 0, 1, 3} /\ (exit' # None => at' = 15) /\ exit' # 0
  BY <1>1, <1>2
<1>7. ~ (exit' = None /\ ~ raising')
  BY <1>1, <1>2
<1>8. keepDefs' \in BOOLEAN /\ passed' \in [{"parent", "terminate"} -> {None, TRUE, FALSE}]
  BY <1>1 DEF Driver
<1>9. Driver'
  BY <1>3, <1>4, <1>5, <1>6, <1>7, <1>8 DEF Driver
<1>10. QED
  BY <1>1, <1>4, <1>9

LEMMA DriverEnds ==
  ASSUME Driver, exit = None, NEW c \in {0, 1, 3}, End(c), UNCHANGED passed,
         c = 0 => passed["parent"] = TRUE /\ passed["terminate"] = TRUE
  PROVE  Driver' /\ at <= at' /\ at' = 15
<1>1. exit' = c /\ at' = 15 /\ calling' = FALSE /\ raising' = FALSE /\ keepDefs' = keepDefs
  BY PlanLength DEF End
<1>2. exit' # None /\ exit' \in {None, 0, 1, 3}
  BY <1>1, NoneApart
<1>3. passed' \in [{"parent", "terminate"} -> {None, TRUE, FALSE}] /\ keepDefs' \in BOOLEAN
  BY <1>1 DEF Driver
<1>4. exit' = 0 => passed'["parent"] = TRUE /\ passed'["terminate"] = TRUE
  BY <1>1
<1>5. at <= at' /\ at' \in 1 .. 15
  BY <1>1 DEF Driver
<1>6. QED
  BY <1>1, <1>2, <1>3, <1>4, <1>5 DEF Driver

\* Steps between which nothing is registered or removed.
LEMMA LeftKeeps ==
  ASSUME Driver, Left, UNCHANGED <<defs, hooks, keepDefs>>, ~ littered' => ~ littered,
         \/ at' = at
         \/ at \in {1, 5, 6, 7, 12, 13} /\ at' = at + 1
         \/ keepDefs /\ at \in {8, 9, 10, 14} /\ at' = at + 1
         \/ at \in {5, 6, 7} /\ at' = 8
         \/ at \in {12, 13} /\ at' = 14
         \/ at' = 15 /\ (keepDefs \/ at = 1 \/ at = 15 \/ littered')
  PROVE  Left'
<1>1. at \in 1 .. 15 /\ at' \in 1 .. 15
  BY DEF Driver
<1>2. at' \in 3 .. 10 => at \in 3 .. 10
  BY <1>1
<1>3. ~ littered' /\ ~ keepDefs' =>
        /\ at \in 5 .. 8 => at' \in 5 .. 8
        /\ at \in 3 .. 10 => at' \in 3 .. 10
        /\ at \in 4 .. 9 => at' \in 4 .. 9
        /\ at \in 12 .. 14 => at' \in 12 .. 14
  BY <1>1
<1>4. QED
  BY <1>2, <1>3 DEF Left

LEMMA EventsKeep ==
  ASSUME Events, UNCHANGED <<flows, queue, deliveries>>
  PROVE  Events'
  BY DEF Events

LEMMA EngineSame ==
  ASSUME Engine, UNCHANGED <<status, done, iteration, flows>>
  PROVE  Engine'
  BY DEF Engine, Has

LEMMA EndsSame ==
  ASSUME Driver, Ends, UNCHANGED <<status, done, disturbed, passed>>, at' \in 1 .. 15, at <= at'
  PROVE  Ends'
  BY DEF Driver, Ends

\* The engine adds tasks to instances that run.
LEMMA EngineKeeps ==
  ASSUME Engine, DOMAIN done' = Instances,
         \A j \in Instances :
            /\ done[j] \subseteq done'[j]
            /\ \A t \in done'[j] \ done[j] : status[j] = "RUNNING" /\ Has(j, t),
         status' \in [Instances -> Terminal \cup {"ABSENT", "RUNNING"}],
         \A j \in Instances : \/ status'[j] = status[j]
                              \/ status'[j] # "ABSENT" /\ status[j] # "COMPLETED",
         iteration' \in 0 .. 3,
         "loopRef" \in done'["parent"] <=> iteration' = 3,
         "childRef" \in done'["parent"] \ done["parent"] => status'["child"] = "COMPLETED",
         "waitRef" \in done'["parent"] \ done["parent"] => flows["parent"].status = "COMPLETED",
         flows["parent"].status = "COMPLETED" => flows'["parent"].status = "COMPLETED"
  PROVE  Engine'
<1>1. {"parent", "child"} \subseteq Instances
  BY DEF Instances
<1>2. ASSUME NEW j \in Instances, NEW t \in done'[j] PROVE Has(j, t)'
  <2>1. Has(j, t)
    BY DEF Engine
  <2>2. QED
    BY <2>1 DEF Has
<1>3. ASSUME NEW j \in Instances, status'[j] = "ABSENT" PROVE done'[j] = {}
  <2>1. status[j] = "ABSENT"
    BY <1>3
  <2>2. done[j] = {}
    BY <2>1 DEF Engine
  <2>3. \A t \in done'[j] : t \in done[j]
    BY <2>1
  <2>4. QED
    BY <2>2, <2>3
<1>4. "childRef" \in done'["parent"] => status'["child"] = "COMPLETED"
  BY <1>1 DEF Engine
<1>5. "waitRef" \in done'["parent"] => flows'["parent"].status = "COMPLETED"
  BY <1>1 DEF Engine
<1>6. QED
  BY <1>2, <1>3, <1>4, <1>5 DEF Engine

\* Only what runs ends, and how it ends is the engine's doing unless it was disturbed.
LEMMA EndsKeep ==
  ASSUME Driver, Ends, UNCHANGED <<at, passed>>, ~ disturbed' => ~ disturbed,
         \A i \in Instances : done[i] \subseteq done'[i],
         \/ status'["child"] = status["child"]
         \/ disturbed' \/ at > 10 \/ status'["child"] \in {"RUNNING", "COMPLETED"},
         \/ status'["parent"] = status["parent"]
         \/ /\ status["parent"] = "RUNNING"
            /\ \/ status'["parent"] = "COMPLETED" /\ "finalRef" \in done'["parent"]
               \/ status'["parent"] # "COMPLETED" /\ (disturbed' \/ at > 10),
         \/ status'["terminate"] = status["terminate"]
         \/ /\ status["terminate"] = "RUNNING"
            /\ \/ disturbed'
               \/ status'["terminate"] = "TERMINATED" /\ "terminateNowRef" \in done'["terminate"]
  PROVE  Ends'
<1>1. {"parent", "child", "terminate"} \subseteq Instances /\ at \in 1 .. 15
  BY DEF Instances, Driver
<1>2. /\ at <= 5 => status'["parent"] = "ABSENT"
      /\ at <= 12 => status'["terminate"] = "ABSENT"
      /\ status'["parent"] = "COMPLETED" => "finalRef" \in done'["parent"]
  BY <1>1 DEF Ends
<1>3. ~ disturbed' /\ at <= 10 =>
        \A i \in {"parent", "child"} : status'[i] \in {"ABSENT", "RUNNING", "COMPLETED"}
  BY <1>1 DEF Ends
<1>4. ~ disturbed' =>
        \/ status'["terminate"] \in {"ABSENT", "RUNNING"}
        \/ status'["terminate"] = "TERMINATED" /\ "terminateNowRef" \in done'["terminate"]
  BY <1>1 DEF Ends
<1>5. /\ passed["parent"] = TRUE => status'["parent"] = "COMPLETED"
      /\ passed["terminate"] = TRUE =>
            status'["terminate"] = "TERMINATED" /\ "terminateNowRef" \in done'["terminate"]
  BY <1>1 DEF Ends
<1>6. QED
  BY <1>2, <1>3, <1>4, <1>5 DEF Ends

-----------------------------------------------------------------------------
(* The driver's steps.                                                     *)

\* Steps after which nothing but the driver's place is different.
LEMMA OnlyMoves ==
  ASSUME IInv, Driver', at <= at',
         UNCHANGED <<conductorVars, engineVars, deliveries, disturbed, passed, keepDefs>>,
         ~ littered' => ~ littered,
         \/ at' = at
         \/ at \in {1, 5, 6, 7, 12, 13} /\ at' = at + 1
         \/ keepDefs /\ at \in {8, 9, 10, 14} /\ at' = at + 1
         \/ at \in {5, 6, 7} /\ at' = 8
         \/ at \in {12, 13} /\ at' = 14
         \/ at' = 15 /\ (keepDefs \/ at = 1 \/ at = 15 \/ littered')
  PROVE  IInv'
<1>1. UNCHANGED <<defs, hooks, flows, queue, status, done, iteration>>
  BY DEF conductorVars, engineVars
<1>2. Left'
  BY <1>1, LeftKeeps DEF IInv
<1>3. Events' /\ Engine'
  BY <1>1, EventsKeep, EngineSame DEF IInv
<1>4. at' \in 1 .. 15
  BY DEF Driver
<1>5. Ends'
  BY <1>1, <1>4, EndsSame DEF IInv
<1>6. QED
  BY <1>2, <1>3, <1>5 DEF IInv

LEMMA PingKeeps == ASSUME IInv, Ping PROVE IInv'
<1>1. at = 1 /\ exit = None /\ Driver
  BY OpIs DEF Ping, IInv, Driver
<1>2. UNCHANGED <<conductorVars, engineVars, deliveries, disturbed, passed, littered>>
  BY DEF Ping, serviceVars
<1>3. CASE Advance
  <2>1. ~ raising
    BY <1>1 DEF Driver
  <2>2. Driver' /\ at' = at + 1 /\ UNCHANGED keepDefs
    BY <1>1, <1>2, <1>3, <2>1, DriverGoesOn
  <2>3. QED
    BY <1>1, <1>2, <2>2, OnlyMoves
<1>4. CASE End(3)
  <2>1. Driver' /\ at <= at' /\ at' = 15
    BY <1>1, <1>2, <1>4, DriverEnds
  <2>2. UNCHANGED keepDefs
    BY <1>4 DEF End
  <2>3. QED
    BY <1>1, <1>2, <2>1, <2>2, OnlyMoves
<1>5. QED
  BY <1>3, <1>4 DEF Ping

LEMMA SkipKeeps == ASSUME IInv, Skip PROVE IInv'
<1>1. at \in 1 .. 15 /\ exit = None /\ keepDefs /\ ~ raising /\ Driver
  BY DEF Skip, IInv, Driver
<1>2. at \in {8, 9, 10, 14}
  BY <1>1, RemovalIs DEF Skip
<1>3. /\ UNCHANGED <<conductorVars, engineVars, deliveries, disturbed, passed, littered>>
      /\ Advance
  BY DEF Skip, serviceVars
<1>4. Driver' /\ at' = at + 1 /\ UNCHANGED keepDefs
  <2>1. at \in 1 .. 14 /\ at \notin {7, 13} /\ ~ raising
    BY <1>1, <1>2
  <2>2. UNCHANGED passed
    BY <1>3
  <2>3. QED
    BY <1>1, <1>3, <2>1, <2>2, DriverGoesOn
<1>5. QED
  BY <1>1, <1>2, <1>3, <1>4, OnlyMoves

LEMMA FireKeeps == ASSUME IInv, Fire PROVE IInv'
<1>1. at = 6 /\ exit = None /\ Driver
  BY OpIs DEF Fire, IInv, Driver
<1>2. /\ UNCHANGED <<conductorVars, engineVars, deliveries, disturbed, passed, littered>>
      /\ UNCHANGED <<keepDefs, at, raising, exit>> /\ calling' = TRUE
  BY DEF Fire, serviceVars
<1>3. calling' \in BOOLEAN /\ (calling' => at' = 6 /\ exit' = None)
  BY <1>1, <1>2
<1>4. Driver' /\ at' = at
  BY <1>1, <1>2, <1>3 DEF Driver
<1>5. QED
  BY <1>1, <1>2, <1>4, OnlyMoves

LEMMA FireAnsweredKeeps == ASSUME IInv, FireAnswered PROVE IInv'
<1>1. at = 6 /\ exit = None /\ Driver
  BY OpIs DEF FireAnswered, IInv, Driver
<1>2. UNCHANGED <<conductorVars, engineVars, deliveries, disturbed, passed, littered>>
  BY DEF FireAnswered
<1>3. CASE Advance
  <2>1. ~ raising
    BY <1>1 DEF Driver
  <2>2. Driver' /\ at' = at + 1 /\ UNCHANGED keepDefs
    BY <1>1, <1>2, <1>3, <2>1, DriverGoesOn
  <2>3. QED
    BY <1>1, <1>2, <2>2, OnlyMoves
<1>4. CASE Raise
  <2>1. /\ Driver' /\ at <= at' /\ UNCHANGED keepDefs
        /\ \/ at' = 15 /\ (keepDefs \/ at \notin {5, 6, 7, 12, 13})
           \/ ~ keepDefs /\ at \in {5, 6, 7} /\ at' = 8
           \/ ~ keepDefs /\ at \in {12, 13} /\ at' = 14
    BY <1>1, <1>2, <1>4, DriverRaises
  <2>2. QED
    BY <1>1, <1>2, <2>1, OnlyMoves
<1>5. QED
  BY <1>3, <1>4 DEF FireAnswered

LEMMA InterruptKeeps == ASSUME IInv, Interrupt PROVE IInv'
<1>1. at \in 1 .. 14 /\ exit = None /\ Driver
  BY OpIs DEF Interrupt, IInv, Driver
<1>2. /\ UNCHANGED <<conductorVars, engineVars, deliveries, disturbed, passed>>
      /\ at \in {2, 3, 4, 8, 9, 10, 11, 14} => littered'
      /\ littered => littered'
  <2>1. at \in {2, 3, 4, 8, 9, 10, 11, 14} => Op \in {"define", "hook", "unhook", "undefine"}
    BY <1>1, OpIs
  <2>2. littered' <=> (littered \/ Op \in {"define", "hook", "unhook", "undefine"})
    BY DEF Interrupt
  <2>3. UNCHANGED <<conductorVars, engineVars, deliveries, disturbed, passed>>
    BY DEF Interrupt
  <2>4. QED
    BY <2>1, <2>2, <2>3
<1>3. CASE Removal(at)
  <2>1. End(1) /\ at \in {8, 9, 10, 14}
    BY <1>1, <1>3, RemovalIs DEF Interrupt
  <2>2. Driver' /\ at <= at' /\ at' = 15
    BY <1>1, <1>2, <2>1, DriverEnds
  <2>3. UNCHANGED keepDefs
    BY <2>1 DEF End
  <2>4. QED
    BY <1>1, <1>2, <2>1, <2>2, <2>3, OnlyMoves
<1>4. CASE ~ Removal(at)
  <2>1. Raise
    BY <1>4 DEF Interrupt
  <2>2. /\ Driver' /\ at <= at' /\ UNCHANGED keepDefs
        /\ \/ at' = 15 /\ (keepDefs \/ at \notin {5, 6, 7, 12, 13})
           \/ ~ keepDefs /\ at \in {5, 6, 7} /\ at' = 8
           \/ ~ keepDefs /\ at \in {12, 13} /\ at' = 14
    BY <1>1, <1>2, <2>1, DriverRaises
  <2>3. QED
    BY <1>1, <1>2, <2>2, OnlyMoves
<1>5. QED
  BY <1>3, <1>4

LEMMA FinishKeeps == ASSUME IInv, Finish PROVE IInv'
<1>1. at = 15 /\ exit = None /\ Driver
  BY PlanLength DEF Finish, IInv
<1>2. UNCHANGED <<conductorVars, engineVars, deliveries, disturbed, passed, littered>>
  BY DEF Finish, serviceVars
<1>3. DOMAIN passed = {"parent", "terminate"}
  BY <1>1 DEF Driver
<1>4. passed["parent"] \in {TRUE, FALSE} /\ passed["terminate"] \in {TRUE, FALSE}
  <2>1. passed["parent"] # None /\ passed["terminate"] # None
    <3>1. at > 7 /\ at > 13 /\ at \notin {8, 9, 10, 14}
      BY <1>1
    <3>2. QED
      BY <1>1, <3>1 DEF Driver
  <2>2. passed["parent"] \in {None, TRUE, FALSE} /\ passed["terminate"] \in {None, TRUE, FALSE}
    BY <1>1 DEF Driver
  <2>3. QED
    BY <2>1, <2>2
<1>5. PICK c \in {0, 1} : End(c) /\ (c = 0 => \A i \in DOMAIN passed : passed[i])
  BY DEF Finish
<1>6. c = 0 => passed["parent"] = TRUE /\ passed["terminate"] = TRUE
  <2>1. c = 0 => passed["parent"] /\ passed["terminate"]
    BY <1>3, <1>5
  <2>2. QED
    BY <1>4, <2>1, Zenon
<1>7. Driver' /\ at <= at' /\ at' = 15
  BY <1>1, <1>2, <1>5, <1>6, DriverEnds
<1>8. UNCHANGED keepDefs
  BY <1>5 DEF End
<1>9. QED
  BY <1>1, <1>2, <1>7, <1>8, OnlyMoves

LEMMA DefineKeeps == ASSUME IInv, Define PROVE IInv'
<1>1. /\ \/ at = 2 /\ Arg = "child"
         \/ at = 3 /\ Arg = "parent"
         \/ at = 11 /\ Arg = "terminate"
      /\ at \in 1 .. 14 /\ at \notin {7, 13} /\ exit = None /\ Driver /\ ~ raising
  <2>1. Driver /\ at \in 1 .. 15 /\ Op = "define"
    BY DEF Define, IInv, Driver
  <2>2. \/ at = 2 /\ Arg = "child"
        \/ at = 3 /\ Arg = "parent"
        \/ at = 11 /\ Arg = "terminate"
    BY <2>1, OpIs
  <2>3. exit = None
    BY <2>1, OpIs
  <2>4. at \notin {7, 8, 9, 10, 13, 14} /\ at \in 1 .. 14
    BY <2>2
  <2>5. ~ raising
    BY <2>1, <2>4 DEF Driver
  <2>6. QED
    BY <2>1, <2>2, <2>3, <2>4, <2>5
<1>2. UNCHANGED <<hooks, flows, queue, passed, status, done, iteration, deliveries, disturbed>>
  BY DEF Define, engineVars, serviceVars
<1>3. Conditions \in {{}, {"event"}} /\ Conditions # None
  BY NoneApart DEF Conditions
<1>4. Events' /\ Engine'
  BY <1>2, EventsKeep, EngineSame DEF IInv
<1>5. defs \in [Names -> {None, {}, {"event"}}] /\ Names = Instances
  BY OneOfEach DEF IInv, Left
<1>6. CASE PutDef(Arg, Conditions) /\ Advance /\ UNCHANGED littered
  <2>1. Driver' /\ at' = at + 1 /\ UNCHANGED keepDefs
    BY <1>1, <1>2, <1>6, DriverGoesOn
  <2>2. Ends'
    BY <1>1, <1>2, <2>1, EndsSame DEF IInv
  <2>3. /\ defs' \in [Names -> {None, {}, {"event"}}]
        /\ defs'[Arg] # None /\ \A n \in Names : n # Arg => defs'[n] = defs[n]
    BY <1>1, <1>3, <1>5, <1>6 DEF PutDef, Instances
  <2>4. Left'
    BY <1>1, <1>2, <1>5, <1>6, <2>1, <2>3 DEF IInv, Left, Instances
  <2>5. QED
    BY <1>4, <2>1, <2>2, <2>4 DEF IInv
<1>7. CASE (PutDef(Arg, Conditions) \/ UNCHANGED defs) /\ Raise /\ littered' = TRUE
  <2>1. Driver' /\ at' = 15
    BY <1>1, <1>2, <1>7, DriverRaises
  <2>2. Ends'
    BY <1>1, <1>2, <2>1, EndsSame DEF IInv
  <2>3. defs' \in [Names -> {None, {}, {"event"}}]
    BY <1>1, <1>3, <1>5, <1>7 DEF PutDef
  <2>4. Left'
    BY <1>2, <1>7, <2>1, <2>3 DEF IInv, Left
  <2>5. QED
    BY <1>4, <2>1, <2>2, <2>4 DEF IInv
<1>8. QED
  BY <1>6, <1>7 DEF Define

LEMMA RegisterWebhookKeeps == ASSUME IInv, RegisterWebhook PROVE IInv'
<1>1. at = 4 /\ exit = None /\ Driver /\ ~ raising
  <2>1. at = 4 /\ exit = None /\ Driver
    BY OpIs DEF RegisterWebhook, IInv, Driver
  <2>2. ~ raising
    BY <2>1 DEF Driver
  <2>3. QED
    BY <2>1, <2>2
<1>2. UNCHANGED <<defs, flows, queue, passed, status, done, iteration, deliveries, disturbed>>
  BY DEF RegisterWebhook, engineVars, serviceVars
<1>3. Events' /\ Engine'
  BY <1>2, EventsKeep, EngineSame DEF IInv
<1>4. DOMAIN hooks' = DOMAIN hooks
  BY DEF RegisterWebhook, CreateHook
<1>5. CASE Advance /\ UNCHANGED littered
  <2>1. Driver' /\ at' = at + 1 /\ UNCHANGED keepDefs
    BY <1>1, <1>2, <1>5, DriverGoesOn
  <2>2. Ends'
    BY <1>1, <1>2, <2>1, EndsSame DEF IInv
  <2>3. Left'
    BY <1>1, <1>2, <1>4, <1>5, <2>1 DEF IInv, Left
  <2>4. QED
    BY <1>3, <2>1, <2>2, <2>3 DEF IInv
<1>6. CASE Raise /\ littered' = TRUE
  <2>1. Driver' /\ at' = 15
    BY <1>1, <1>2, <1>6, DriverRaises
  <2>2. Ends'
    BY <1>1, <1>2, <2>1, EndsSame DEF IInv
  <2>3. Left'
    BY <1>2, <1>4, <1>6, <2>1 DEF IInv, Left
  <2>4. QED
    BY <1>3, <2>1, <2>2, <2>3 DEF IInv
<1>7. QED
  BY <1>5, <1>6 DEF RegisterWebhook

\* What starting an instance makes of the server's state.
LEMMA BeginIs ==
  ASSUME IInv, NEW i \in {"parent", "terminate"}, Begin(i), status[i] = "ABSENT",
         UNCHANGED <<queue, done, iteration, deliveries>>
  PROVE  /\ Events' /\ Engine'
         /\ status' = [status EXCEPT ![i] = "RUNNING"]
<1>1. /\ Names = Instances /\ Flows = {"parent"}
      /\ status \in [Instances -> Terminal \cup {"ABSENT", "RUNNING"}]
      /\ flows \in [Flows -> Task] /\ i \in Instances
  BY OneOfEach DEF IInv, Engine, Events, Instances
<1>2. /\ status' = [status EXCEPT ![i] = "RUNNING"]
      /\ status' \in [Instances -> Terminal \cup {"ABSENT", "RUNNING"}]
      /\ \A j \in Instances : j # i => status'[j] = status[j]
      /\ status'[i] = "RUNNING"
  BY <1>1 DEF Begin
<1>3. /\ flows' \in [Flows -> Task]
      /\ i = "parent" => flows'["parent"].status = "RUNNING"
      /\ i # "parent" => flows' = flows
  <2>1. CASE i = "parent"
    <3>1. /\ defs["parent"] \in {{}, {"event"}}
          /\ flows' = [flows EXCEPT !["parent"] = [name |-> "parent", matches |-> defs["parent"],
                         status |-> "RUNNING", registered |-> FALSE, by |-> None]]
      BY <1>1, <2>1 DEF Begin, StartFlow, StartInstance, IInv, Left
    <3>2. [name |-> "parent", matches |-> defs["parent"], status |-> "RUNNING",
           registered |-> FALSE, by |-> None] \in Task
      BY <1>1, <3>1 DEF Task, Instances
    <3>3. QED
      BY <1>1, <2>1, <3>1, <3>2
  <2>2. CASE i # "parent"
    BY <1>1, <2>2 DEF Begin
  <2>3. QED
    BY <2>1, <2>2
<1>4. Events'
  <2>1. "COMPLETED" # "RUNNING"
    OBVIOUS
  <2>2. flows'["parent"].status = "COMPLETED" => flows' = flows
    BY <1>3
  <2>3. QED
    BY <1>3, <2>2 DEF IInv, Events
<1>5. Engine'
  <2>1. done[i] = {}
    BY <1>1 DEF IInv, Engine
  <2>2. \A j \in Instances : \A t \in done'[j] : Has(j, t)'
    BY DEF IInv, Engine, Has
  <2>3. i = "parent" => "waitRef" \notin done'["parent"]
    BY <2>1
  <2>4. "waitRef" \in done'["parent"] => flows'["parent"].status = "COMPLETED"
    BY <1>3, <2>3 DEF IInv, Engine
  <2>5. "childRef" \in done'["parent"] => status'["child"] = "COMPLETED"
    BY <1>2 DEF IInv, Engine, Instances
  <2>6. \A j \in Instances : status'[j] = "ABSENT" => done'[j] = {}
    BY <1>2 DEF IInv, Engine
  <2>7. QED
    BY <1>2, <2>2, <2>4, <2>5, <2>6 DEF IInv, Engine
<1>6. QED
  BY <1>2, <1>4, <1>5

LEMMA StartKeeps == ASSUME IInv, Start PROVE IInv'
<1>1. /\ \/ at = 5 /\ Arg = "parent"
         \/ at = 12 /\ Arg = "terminate"
      /\ at \in 1 .. 14 /\ at \notin {7, 13} /\ exit = None /\ Driver /\ ~ raising
  <2>1. Driver /\ at \in 1 .. 15 /\ Op = "start"
    BY DEF Start, IInv, Driver
  <2>2. \/ at = 5 /\ Arg = "parent"
        \/ at = 12 /\ Arg = "terminate"
    BY <2>1, OpIs
  <2>3. exit = None
    BY <2>1, OpIs
  <2>4. at \notin {7, 8, 9, 10, 13, 14} /\ at \in 1 .. 14
    BY <2>2
  <2>5. ~ raising
    BY <2>1, <2>4 DEF Driver
  <2>6. QED
    BY <2>1, <2>2, <2>3, <2>4, <2>5
<1>2. UNCHANGED <<defs, hooks, queue, passed, done, iteration, deliveries, littered, disturbed>>
  BY DEF Start, serviceVars
<1>3. status[Arg] = "ABSENT" /\ Arg \in {"parent", "terminate"}
  BY <1>1 DEF IInv, Ends
<1>4. Begin(Arg) \/ UNCHANGED <<status, flows>>
  BY DEF Start
<1>5. /\ Events' /\ Engine'
      /\ status' = status \/ status' = [status EXCEPT ![Arg] = "RUNNING"]
  <2>1. CASE Begin(Arg)
    BY <1>2, <1>3, <2>1, BeginIs
  <2>2. CASE UNCHANGED <<status, flows>>
    BY <1>2, <2>2, EventsKeep, EngineSame DEF IInv
  <2>3. QED
    BY <1>4, <2>1, <2>2
<1>6. CASE Driver' /\ at < at' /\ UNCHANGED keepDefs /\ Left'
  <2>1. /\ DOMAIN status = Instances
        /\ \A i \in Instances : i # Arg => status'[i] = status[i]
        /\ status'[Arg] \in {"ABSENT", "RUNNING"}
        /\ {"parent", "child", "terminate"} = Instances
    BY <1>3, <1>5 DEF IInv, Engine, Instances
  <2>2. /\ at' <= 5 => status'["parent"] = "ABSENT"
        /\ at' <= 12 => status'["terminate"] = "ABSENT"
    <3>1. at' \in 1 .. 15
      BY <1>6 DEF Driver
    <3>2. at' <= 5 => at <= 5 /\ Arg # "parent"
      BY <1>1, <1>6, <3>1
    <3>3. at' <= 12 => at <= 12 /\ Arg # "terminate"
      BY <1>1, <1>6, <3>1
    <3>4. QED
      BY <3>2, <3>3, <2>1 DEF IInv, Ends
  <2>3. \A i \in Instances :
           status'[i] = status[i] \/ (i = Arg /\ status'[i] \in {"ABSENT", "RUNNING"})
    BY <2>1
  <2>4. /\ status'["parent"] = "COMPLETED" => "finalRef" \in done'["parent"]
        /\ ~ disturbed' /\ at' <= 10 =>
              \A i \in {"parent", "child"} : status'[i] \in {"ABSENT", "RUNNING", "COMPLETED"}
    <3>1. at' <= 10 => at <= 10
      BY <1>1, <1>6 DEF Driver
    <3>2. status'["parent"] = "COMPLETED" => status["parent"] = "COMPLETED"
      BY <2>1, <2>3
    <3>3. QED
      BY <1>2, <2>1, <2>3, <3>1, <3>2 DEF IInv, Ends
  <2>5. ~ disturbed' =>
          \/ status'["terminate"] \in {"ABSENT", "RUNNING"}
          \/ status'["terminate"] = "TERMINATED" /\ "terminateNowRef" \in done'["terminate"]
    BY <1>2, <2>1, <2>3 DEF IInv, Ends
  <2>6. /\ passed'["parent"] = TRUE => status'["parent"] = "COMPLETED"
        /\ passed'["terminate"] = TRUE =>
              status'["terminate"] = "TERMINATED" /\ "terminateNowRef" \in done'["terminate"]
    BY <1>2, <1>3, <2>1, <2>3 DEF IInv, Ends
  <2>7. Ends'
    BY <2>2, <2>4, <2>5, <2>6 DEF Ends
  <2>8. QED
    BY <1>5, <1>6, <2>7 DEF IInv
<1>7. CASE Advance
  <2>1. Driver' /\ at' = at + 1 /\ UNCHANGED keepDefs
    BY <1>1, <1>2, <1>7, DriverGoesOn
  <2>2. Left'
    BY <1>1, <1>2, <2>1, LeftKeeps DEF IInv
  <2>3. QED
    BY <1>1, <1>6, <2>1, <2>2
<1>8. CASE Raise
  <2>1. /\ Driver' /\ at <= at' /\ UNCHANGED keepDefs
        /\ \/ at' = 15 /\ (keepDefs \/ at \notin {5, 6, 7, 12, 13})
           \/ ~ keepDefs /\ at \in {5, 6, 7} /\ at' = 8
           \/ ~ keepDefs /\ at \in {12, 13} /\ at' = 14
    BY <1>1, <1>2, <1>8, DriverRaises
  <2>2. Left'
    BY <1>1, <1>2, <2>1, LeftKeeps DEF IInv
  <2>3. QED
    BY <1>1, <1>6, <2>1, <2>2
<1>9. QED
  BY <1>7, <1>8 DEF Start

\* A step that leaves the driver where it is.
LEMMA DriverStays ==
  ASSUME Driver, UNCHANGED driverVars PROVE Driver' /\ at' = at /\ UNCHANGED <<keepDefs, passed>>
<1>1. UNCHANGED <<keepDefs, at, calling, raising, exit, passed>>
  BY DEF driverVars
<1>2. QED
  BY <1>1 DEF Driver

LEMMA DeliverKeeps == ASSUME IInv, Deliver PROVE IInv'
<1>1. /\ UNCHANGED <<defs, hooks, flows, status, done, iteration, littered, disturbed>>
      /\ UNCHANGED driverVars
  BY DEF Deliver, engineVars
<1>2. Driver' /\ at' = at /\ UNCHANGED <<keepDefs, passed>>
  BY <1>1, DriverStays DEF IInv
<1>3. Left'
  BY <1>1, <1>2, LeftKeeps DEF IInv
<1>4. Engine'
  BY <1>1, EngineSame DEF IInv
<1>5. Ends'
  BY <1>1, <1>2 DEF IInv, Ends
<1>6. Events'
  <2>1. Sources = {"driver"} /\ deliveries \in [Sources -> {0, 1}]
    BY OneOfEach DEF IInv, Events
  <2>2. deliveries' = [deliveries EXCEPT !["driver"] = 1]
    BY DEF Deliver, Service!Deliver
  <2>3. deliveries' \in [Sources -> {0, 1}] /\ deliveries'["driver"] = 1
    BY <2>1, <2>2
  <2>4. ASSUME NEW x \in queue' PROVE x.by = "driver"
    <3>1. x \in queue \/ x = [hook |-> "hook", body |-> Body, by |-> "driver"]
      BY DEF Deliver, Enqueue
    <3>2. QED
      BY <3>1 DEF IInv, Events
  <2>5. QED
    BY <1>1, <2>3, <2>4 DEF IInv, Events
<1>7. QED
  BY <1>2, <1>3, <1>4, <1>5, <1>6 DEF IInv

\* The driver takes down what the checks gave, and goes on.
LEMMA VerdictKeeps ==
  ASSUME IInv, Op = "poll", NEW b \in BOOLEAN, passed' = [passed EXCEPT ![Arg] = b], Advance,
         b /\ Arg = "parent" => status["parent"] = "COMPLETED",
         b /\ Arg = "terminate" =>
            status["terminate"] = "TERMINATED" /\ "terminateNowRef" \in done["terminate"],
         UNCHANGED <<conductorVars, engineVars, deliveries, littered, disturbed>>
  PROVE  IInv'
<1>1. /\ \/ at = 7 /\ Arg = "parent"
         \/ at = 13 /\ Arg = "terminate"
      /\ at \in 1 .. 14 /\ exit = None /\ Driver /\ ~ raising
  <2>1. Driver /\ at \in 1 .. 15
    BY DEF IInv, Driver
  <2>2. \/ at = 7 /\ Arg = "parent"
        \/ at = 13 /\ Arg = "terminate"
    BY <2>1, OpIs
  <2>3. exit = None
    BY <2>1, OpIs
  <2>4. at \notin {8, 9, 10, 14} /\ at \in 1 .. 14
    BY <2>2
  <2>5. ~ raising
    BY <2>1, <2>4 DEF Driver
  <2>6. QED
    BY <2>1, <2>2, <2>3, <2>4, <2>5
<1>2. UNCHANGED <<defs, hooks, flows, queue, status, done, iteration, deliveries, disturbed,
                  littered>>
  BY DEF conductorVars, engineVars
<1>3. passed \in [{"parent", "terminate"} -> {None, TRUE, FALSE}]
  BY <1>1 DEF Driver
<1>4. b # None
  BY NoneApart
<1>5. /\ passed' \in [{"parent", "terminate"} -> {None, TRUE, FALSE}]
      /\ passed'[Arg] = b
      /\ \A i \in {"parent", "terminate"} : i # Arg => passed'[i] = passed[i]
  <2>1. b \in {None, TRUE, FALSE} /\ Arg \in {"parent", "terminate"}
    BY <1>1
  <2>2. QED
    BY <1>3, <2>1
<1>6. /\ \A i \in {"parent", "terminate"} : passed[i] # None => passed'[i] # None
      /\ at = 7 => passed'["parent"] # None
      /\ at = 13 => passed'["terminate"] # None
  BY <1>1, <1>4, <1>5
<1>7. Driver' /\ at' = at + 1 /\ UNCHANGED keepDefs
  <2>1. raising => at \in {8, 9}
    BY <1>1
  <2>2. QED
    BY <1>1, <1>5, <1>6, <2>1, DriverAdvances
<1>8. Left'
  BY <1>1, <1>2, <1>7, LeftKeeps DEF IInv
<1>9. Events' /\ Engine'
  BY <1>2, EventsKeep, EngineSame DEF IInv
<1>10. /\ passed'["parent"] = TRUE => status'["parent"] = "COMPLETED"
       /\ passed'["terminate"] = TRUE =>
             status'["terminate"] = "TERMINATED" /\ "terminateNowRef" \in done'["terminate"]
  <2>1. passed'["parent"] = TRUE => passed["parent"] = TRUE \/ (b /\ Arg = "parent")
    BY <1>5, Zenon
  <2>2. passed'["terminate"] = TRUE => passed["terminate"] = TRUE \/ (b /\ Arg = "terminate")
    BY <1>5, Zenon
  <2>3. QED
    BY <1>2, <2>1, <2>2 DEF IInv, Ends
<1>11. Ends'
  BY <1>1, <1>2, <1>7, <1>10 DEF IInv, Ends
<1>12. QED
  BY <1>7, <1>8, <1>9, <1>11 DEF IInv

LEMMA PollTimesOutKeeps == ASSUME IInv, PollTimesOut PROVE IInv'
  BY VerdictKeeps DEF PollTimesOut, serviceVars

LEMMA PollKeeps == ASSUME IInv, Poll PROVE IInv'
<1>1. /\ Op = "poll"
      /\ UNCHANGED <<conductorVars, engineVars, deliveries, littered, disturbed>>
  BY DEF Poll, serviceVars
<1>2. CASE passed' = [passed EXCEPT ![Arg] = Checks(Arg)] /\ Advance
  <2>1. Checks(Arg) \in BOOLEAN
    BY Zenon DEF Checks, AssertComposite, AssertTerminate
  <2>2. Checks(Arg) /\ Arg = "parent" => status["parent"] = "COMPLETED"
    BY DEF Checks, AssertComposite
  <2>3. Checks(Arg) /\ Arg = "terminate" =>
          status["terminate"] = "TERMINATED" /\ "terminateNowRef" \in done["terminate"]
    BY DEF Checks, AssertTerminate
  <2>4. QED
    BY <1>1, <1>2, <2>1, <2>2, <2>3, VerdictKeeps
<1>3. CASE Raise /\ UNCHANGED passed
  <2>1. at \in 1 .. 15 /\ Driver
    BY DEF IInv, Driver
  <2>2. at \in {7, 13} /\ exit = None
    BY <1>1, <2>1, OpIs
  <2>3. at \in 1 .. 14
    BY <2>2
  <2>4. /\ Driver' /\ at <= at' /\ UNCHANGED keepDefs
        /\ \/ at' = 15 /\ (keepDefs \/ at \notin {5, 6, 7, 12, 13})
           \/ ~ keepDefs /\ at \in {5, 6, 7} /\ at' = 8
           \/ ~ keepDefs /\ at \in {12, 13} /\ at' = 14
    BY <1>3, <2>1, <2>2, <2>3, DriverRaises
  <2>5. QED
    BY <1>1, <1>3, <2>2, <2>4, OnlyMoves
<1>4. QED
  BY <1>2, <1>3 DEF Poll

LEMMA RemoveKeeps == ASSUME IInv, Remove PROVE IInv'
<1>1. at \in 1 .. 15 /\ exit = None /\ ~ keepDefs /\ Driver
  BY DEF Remove, IInv, Driver
<1>2. at \in {8, 9, 10, 14}
  BY <1>1, RemovalIs DEF Remove
<1>3. UNCHANGED <<flows, queue, passed, status, done, iteration, deliveries, disturbed>>
  BY DEF Remove, engineVars, serviceVars
<1>4. at \in 1 .. 14 /\ at \notin {7, 13} /\ at + 1 \in 1 .. 16
  BY <1>2
<1>5. /\ Driver' /\ UNCHANGED keepDefs
      /\ at' = at + 1 \/ (at \in {10, 14} /\ at' = 15)
  <2>1. CASE Advance /\ (Removal(at + 1) \/ ~ raising)
    <3>1. Removal(at + 1) => at \in {8, 9}
      BY <1>2, <1>4, RemovalIs
    <3>2. raising => at \in {8, 9}
      BY <2>1, <3>1
    <3>3. QED
      BY <1>1, <1>3, <1>4, <2>1, <3>2, DriverGoesOn
  <2>2. CASE End(1) /\ ~ Removal(at + 1)
    <3>1. at \in {10, 14}
      <4>1. \A n \in {9, 10} : Removal(n)
        BY RemovalIs
      <4>2. QED
        BY <1>2, <2>2, <4>1
    <3>2. Driver' /\ at' = 15
      BY <1>1, <1>3, <1>4, <2>2, DriverEnds
    <3>3. UNCHANGED keepDefs
      BY <2>2 DEF End
    <3>4. QED
      BY <3>1, <3>2, <3>3
  <2>3. QED
    BY <2>1, <2>2 DEF Remove, Leave
<1>6. Events' /\ Engine'
  BY <1>3, EventsKeep, EngineSame DEF IInv
<1>7. at' \in 1 .. 15 /\ at <= at'
  BY <1>2, <1>5
<1>8. Ends'
  BY <1>1, <1>3, <1>7, EndsSame DEF IInv
<1>9. /\ at = 8 => Op = "unhook"
      /\ at # 8 => Op # "unhook"
      /\ at \in {9, 10, 14} => \/ at = 9 /\ Arg = "parent"
                               \/ at = 10 /\ Arg = "child"
                               \/ at = 14 /\ Arg = "terminate"
  BY <1>1, <1>4, PlanLength, PlanOps, PlanArgs DEF Op, Arg
<1>10. defs \in [Names -> {None, {}, {"event"}}] /\ Names = Instances /\ DOMAIN hooks = Hooks
       /\ Hooks = {"hook"}
  BY OneOfEach DEF IInv, Left
<1>11. Left'
  <2>1. CASE at = 8
    <3>1. /\ at' = 9 /\ UNCHANGED defs
          /\ \/ DeleteHook("hook") /\ UNCHANGED littered
             \/ UNCHANGED hooks /\ littered' = TRUE
      BY <1>5, <1>9, <2>1 DEF Remove
    <3>2. DOMAIN hooks' = Hooks /\ (~ littered' => hooks'["hook"] = None /\ ~ littered)
      BY <1>10, <3>1 DEF DeleteHook
    <3>3. QED
      BY <1>1, <1>5, <2>1, <3>1, <3>2 DEF IInv, Left
  <2>2. CASE at \in {9, 10, 14}
    <3>1. /\ UNCHANGED hooks
          /\ \/ DeleteDef(Arg) /\ UNCHANGED littered
             \/ UNCHANGED defs /\ littered' = TRUE
      BY <1>9, <2>2 DEF Remove
    <3>2. defs' \in [Names -> {None, {}, {"event"}}]
      BY <1>10, <3>1 DEF DeleteDef
    <3>3. /\ \A n \in Names : n # Arg => defs'[n] = defs[n]
          /\ ~ littered' => defs'[Arg] = None /\ ~ littered
      BY <1>9, <1>10, <2>2, <3>1 DEF DeleteDef, Instances
    <3>4. /\ at = 9 => at' = 10 /\ Arg = "parent"
          /\ at = 10 => at' \in {11, 15} /\ Arg = "child"
          /\ at = 14 => at' = 15 /\ Arg = "terminate"
      BY <1>5, <1>9
    <3>5. at' \in 3 .. 10 => defs'["child"] # None
      BY <1>10, <2>2, <3>3, <3>4 DEF IInv, Left, Instances
    <3>6. ~ littered' /\ ~ keepDefs' =>
            /\ hooks'["hook"] # None => at' \in 5 .. 8
            /\ defs'["child"] # None => at' \in 3 .. 10
            /\ defs'["parent"] # None => at' \in 4 .. 9
            /\ defs'["terminate"] # None => at' \in 12 .. 14
      BY <1>1, <1>10, <2>2, <3>1, <3>3, <3>4 DEF IInv, Left, Instances
    <3>7. QED
      BY <1>10, <3>1, <3>2, <3>5, <3>6 DEF Left
  <2>3. QED
    BY <1>2, <2>1, <2>2
<1>12. QED
  BY <1>5, <1>6, <1>8, <1>11 DEF IInv

-----------------------------------------------------------------------------
(* The server's steps.                                                     *)

\* A step of the engine is about the instances and their tasks.
LEMMA EngineOnly ==
  ASSUME IInv, UNCHANGED <<conductorVars, driverVars, serviceVars, littered, disturbed>>,
         Engine', Ends'
  PROVE  IInv'
<1>1. UNCHANGED <<defs, hooks, flows, queue, deliveries>>
  BY DEF conductorVars, serviceVars
<1>2. Driver' /\ at' = at /\ UNCHANGED keepDefs
  BY DriverStays DEF IInv
<1>3. Left'
  BY <1>1, <1>2, LeftKeeps DEF IInv
<1>4. Events'
  BY <1>1, EventsKeep DEF IInv
<1>5. QED
  BY <1>2, <1>3, <1>4 DEF IInv

\* A step that adds tasks to one instance that runs, and leaves those with a state of
\* their own alone.
LEMMA TasksAdded ==
  ASSUME IInv, NEW i \in Instances, NEW S, status[i] = "RUNNING", \A t \in S : Has(i, t),
         {"waitRef", "loopRef", "childRef"} \cap S = {},
         done' = [done EXCEPT ![i] = @ \cup S],
         UNCHANGED <<conductorVars, driverVars, serviceVars, littered, disturbed>>,
         UNCHANGED <<status, iteration>>
  PROVE  IInv'
<1>1. /\ DOMAIN done = Instances /\ {"parent", "child"} \subseteq Instances
      /\ status \in [Instances -> Terminal \cup {"ABSENT", "RUNNING"}]
  BY DEF IInv, Engine, Instances
<1>2. /\ DOMAIN done' = Instances
      /\ \A j \in Instances : done'[j] = IF j = i THEN done[j] \cup S ELSE done[j]
  BY <1>1
<1>3. \A j \in Instances :
         /\ done[j] \subseteq done'[j]
         /\ \A t \in done'[j] \ done[j] : status[j] = "RUNNING" /\ Has(j, t)
  BY <1>2
<1>4. \A t \in {"waitRef", "loopRef", "childRef"} :
         t \in done'["parent"] <=> t \in done["parent"]
  BY <1>1, <1>2
<1>5. UNCHANGED flows /\ iteration' \in 0 .. 3
  BY DEF conductorVars, IInv, Engine
<1>6. "loopRef" \in done'["parent"] <=> iteration' = 3
  BY <1>4 DEF IInv, Engine
<1>7. Engine'
  BY <1>1, <1>2, <1>3, <1>4, <1>5, <1>6, EngineKeeps DEF IInv
<1>8. Ends'
  BY <1>3, EndsKeep, DriverStays DEF IInv
<1>9. QED
  BY <1>7, <1>8, EngineOnly

LEMMA DecideKeeps ==
  ASSUME IInv, NEW i \in Instances, Decide(i),
         UNCHANGED <<conductorVars, driverVars, serviceVars, littered, disturbed>>
  PROVE  IInv'
<1>1. \A t \in Tasks(i) \cap Own : Has(i, t)
  BY DEF Tasks
<1>2. {"waitRef", "loopRef", "childRef"} \cap (Tasks(i) \cap Own) = {}
  <2> DEFINE All == UNION {DOMAIN Graph[j] : j \in Instances}
  <2>1. Own = All \ {"httpRef", "dynJoinRef", "joinRef", "waitRef", "loopRef", "childRef",
                     "terminateNoopRef", "terminateNowRef"}
    BY DEF Own
  <2> HIDE DEF All
  <2>2. QED
    BY <2>1
<1>3. /\ status[i] = "RUNNING" /\ UNCHANGED <<status, iteration>>
      /\ done' = [done EXCEPT ![i] = @ \cup (Tasks(i) \cap Own)]
  BY DEF Decide, Runs
<1>4. QED
  BY <1>1, <1>2, <1>3, TasksAdded

LEMMA RunTaskKeeps ==
  ASSUME IInv, NEW t, RunTask("parent", t),
         UNCHANGED <<conductorVars, driverVars, serviceVars, littered, disturbed>>
  PROVE  IInv'
<1>1. /\ status["parent"] = "RUNNING" /\ UNCHANGED <<status, iteration>>
      /\ \A x \in {t} : Has("parent", x)
      /\ done' = [done EXCEPT !["parent"] = @ \cup {t}]
  BY DEF RunTask, Runs, Done
<1>2. {"waitRef", "loopRef", "childRef"} \cap {t} = {}
  BY DEF RunTask
<1>3. "parent" \in Instances
  BY DEF Instances
<1>4. QED
  BY <1>1, <1>2, <1>3, TasksAdded

\* What one task of the parent becomes.
LEMMA OneTask ==
  ASSUME IInv, NEW t, Runs("parent", t), Done("parent", t)
  PROVE  /\ DOMAIN done' = Instances
         /\ \A j \in Instances :
               /\ done[j] \subseteq done'[j]
               /\ \A x \in done'[j] \ done[j] : status[j] = "RUNNING" /\ Has(j, x)
         /\ done'["parent"] = done["parent"] \cup {t}
<1>1. DOMAIN done = Instances /\ "parent" \in Instances
  BY DEF IInv, Engine, Instances
<1>2. QED
  BY <1>1 DEF Runs, Done

LEMMA RunLoopKeeps ==
  ASSUME IInv, RunLoop,
         UNCHANGED <<conductorVars, driverVars, serviceVars, littered, disturbed>>
  PROVE  IInv'
<1>1. /\ "loopRef" \notin done["parent"] /\ iteration \in 0 .. 3 /\ iteration # 3
      /\ status \in [Instances -> Terminal \cup {"ABSENT", "RUNNING"}]
      /\ DOMAIN done = Instances
  BY DEF RunLoop, Runs, IInv, Engine
<1>2. iteration' = iteration + 1 /\ UNCHANGED <<status, flows>>
  BY DEF RunLoop, conductorVars
<1>3. CASE iteration' < 3
  <2>1. UNCHANGED done
    BY <1>3 DEF RunLoop, LoopAgain
  <2>2. Engine'
    BY <1>1, <1>2, <1>3, <2>1, EngineKeeps DEF IInv, Engine
  <2>3. Ends'
    BY <1>2, <2>1, EndsKeep, DriverStays DEF IInv
  <2>4. QED
    BY <2>2, <2>3, EngineOnly
<1>4. CASE ~ (iteration' < 3)
  <2>1. iteration' = 3 /\ Runs("parent", "loopRef") /\ Done("parent", "loopRef")
    BY <1>1, <1>2, <1>4 DEF RunLoop, LoopAgain
  <2>2. /\ DOMAIN done' = Instances
        /\ \A j \in Instances :
              /\ done[j] \subseteq done'[j]
              /\ \A x \in done'[j] \ done[j] : status[j] = "RUNNING" /\ Has(j, x)
        /\ done'["parent"] = done["parent"] \cup {"loopRef"}
    BY <2>1, OneTask
  <2>3. Engine'
    BY <1>1, <1>2, <2>1, <2>2, EngineKeeps DEF IInv
  <2>4. Ends'
    BY <1>2, <2>2, EndsKeep, DriverStays DEF IInv
  <2>5. QED
    BY <2>3, <2>4, EngineOnly
<1>5. QED
  BY <1>3, <1>4

LEMMA WaitEndsKeeps ==
  ASSUME IInv, WaitEnds,
         UNCHANGED <<conductorVars, driverVars, serviceVars, littered, disturbed>>
  PROVE  IInv'
<1>1. /\ Runs("parent", "waitRef") /\ Done("parent", "waitRef")
      /\ flows["parent"].status = "COMPLETED" /\ UNCHANGED <<status, iteration, flows>>
  BY DEF WaitEnds, conductorVars
<1>2. /\ DOMAIN done' = Instances
      /\ \A j \in Instances :
            /\ done[j] \subseteq done'[j]
            /\ \A x \in done'[j] \ done[j] : status[j] = "RUNNING" /\ Has(j, x)
      /\ done'["parent"] = done["parent"] \cup {"waitRef"}
  BY <1>1, OneTask
<1>3. /\ status' \in [Instances -> Terminal \cup {"ABSENT", "RUNNING"}]
      /\ iteration' \in 0 .. 3
      /\ "loopRef" \in done'["parent"] <=> iteration' = 3
      /\ "childRef" \notin done'["parent"] \ done["parent"]
  BY <1>1, <1>2 DEF IInv, Engine
<1>4. Engine'
  BY <1>1, <1>2, <1>3, EngineKeeps DEF IInv
<1>5. Ends'
  BY <1>1, <1>2, EndsKeep, DriverStays DEF IInv
<1>6. QED
  BY <1>4, <1>5, EngineOnly

\* A step that changes the status of one instance, and no task.
LEMMA StatusSet ==
  ASSUME IInv, NEW i \in Instances, NEW s \in Terminal \cup {"RUNNING"},
         status' = [status EXCEPT ![i] = s], status[i] # "COMPLETED",
         UNCHANGED <<done, iteration>>,
         flows["parent"].status = "COMPLETED" => flows'["parent"].status = "COMPLETED"
  PROVE  /\ Engine' /\ status'[i] = s
         /\ \A j \in Instances : j # i => status'[j] = status[j]
<1>1. /\ status \in [Instances -> Terminal \cup {"ABSENT", "RUNNING"}]
      /\ DOMAIN done = Instances /\ iteration \in 0 .. 3
      /\ "loopRef" \in done["parent"] <=> iteration = 3
  BY DEF IInv, Engine
<1>2. /\ status'[i] = s
      /\ status' \in [Instances -> Terminal \cup {"ABSENT", "RUNNING"}]
      /\ \A j \in Instances : j # i => status'[j] = status[j]
  BY <1>1
<1>3. s # "ABSENT"
  BY DEF Terminal
<1>4. Engine'
  BY <1>1, <1>2, <1>3, EngineKeeps DEF IInv
<1>5. QED
  BY <1>2, <1>4

LEMMA StartChildKeeps ==
  ASSUME IInv, StartChild,
         UNCHANGED <<conductorVars, driverVars, serviceVars, littered, disturbed>>
  PROVE  IInv'
<1>1. /\ status["parent"] = "RUNNING" /\ status["child"] = "ABSENT"
      /\ UNCHANGED <<done, iteration, flows>>
  BY DEF StartChild, Runs, conductorVars
<1>2. PICK s \in {"FAILED", "RUNNING"} :
         /\ status' = [status EXCEPT !["child"] = s]
         /\ s = "FAILED" => defs["child"] = None
  BY DEF StartChild
<1>3. "child" \in Instances /\ s \in Terminal \cup {"RUNNING"}
  BY DEF Instances, Terminal
<1>4. /\ Engine' /\ status'["child"] = s
      /\ \A j \in Instances : j # "child" => status'[j] = status[j]
  BY <1>1, <1>2, <1>3, StatusSet
<1>5. s = "RUNNING" \/ at > 10
  <2>1. at \in 1 .. 15 /\ ~ (at <= 5)
    BY <1>1 DEF IInv, Driver, Ends
  <2>2. at \in 3 .. 10 => defs["child"] # None
    BY DEF IInv, Left
  <2>3. QED
    BY <1>2, <2>1, <2>2
<1>6. Ends'
  <2>1. status'["parent"] = status["parent"] /\ status'["terminate"] = status["terminate"]
    BY <1>4 DEF Instances
  <2>2. QED
    BY <1>1, <1>4, <1>5, <2>1, EndsKeep, DriverStays DEF IInv
<1>7. QED
  BY <1>4, <1>6, EngineOnly

LEMMA ChildEndsKeeps ==
  ASSUME IInv, ChildEnds,
         UNCHANGED <<conductorVars, driverVars, serviceVars, littered, disturbed>>
  PROVE  IInv'
<1>1. /\ Runs("parent", "childRef") /\ status["child"] \in Terminal
      /\ status["parent"] = "RUNNING" /\ UNCHANGED <<iteration, flows>>
  BY DEF ChildEnds, Runs, conductorVars
<1>2. CASE status["child"] = "COMPLETED"
  <2>1. Done("parent", "childRef") /\ UNCHANGED status
    BY <1>2 DEF ChildEnds
  <2>2. /\ DOMAIN done' = Instances
        /\ \A j \in Instances :
              /\ done[j] \subseteq done'[j]
              /\ \A x \in done'[j] \ done[j] : status[j] = "RUNNING" /\ Has(j, x)
        /\ done'["parent"] = done["parent"] \cup {"childRef"}
    BY <1>1, <2>1, OneTask
  <2>3. /\ status' \in [Instances -> Terminal \cup {"ABSENT", "RUNNING"}]
        /\ iteration' \in 0 .. 3
        /\ "loopRef" \in done'["parent"] <=> iteration' = 3
        /\ "waitRef" \notin done'["parent"] \ done["parent"]
    BY <1>1, <2>1, <2>2 DEF IInv, Engine
  <2>4. Engine'
    BY <1>1, <1>2, <2>1, <2>2, <2>3, EngineKeeps DEF IInv
  <2>5. Ends'
    BY <2>1, <2>2, EndsKeep, DriverStays DEF IInv
  <2>6. QED
    BY <2>4, <2>5, EngineOnly
<1>3. CASE status["child"] # "COMPLETED"
  <2>1. status' = [status EXCEPT !["parent"] = "FAILED"] /\ UNCHANGED done
    BY <1>3 DEF ChildEnds
  <2>2. "parent" \in Instances /\ "FAILED" \in Terminal \cup {"RUNNING"}
    BY DEF Instances, Terminal
  <2>3. /\ Engine' /\ status'["parent"] = "FAILED"
        /\ \A j \in Instances : j # "parent" => status'[j] = status[j]
    BY <1>1, <2>1, <2>2, StatusSet
  <2>4. disturbed \/ at > 10
    <3>1. status["child"] \notin {"ABSENT", "RUNNING", "COMPLETED"}
      BY <1>1, <1>3 DEF Terminal
    <3>2. at \in 1 .. 15
      BY DEF IInv, Driver
    <3>3. QED
      BY <3>1, <3>2 DEF IInv, Ends
  <2>5. Ends'
    <3>1. status'["child"] = status["child"] /\ status'["terminate"] = status["terminate"]
      BY <2>3 DEF Instances
    <3>2. QED
      BY <1>1, <2>1, <2>3, <2>4, <3>1, EndsKeep, DriverStays DEF IInv
  <2>6. QED
    BY <2>3, <2>5, EngineOnly
<1>4. QED
  BY <1>2, <1>3

\* The other termination is not among the parent's tasks, whose case is another.
LEMMA TerminateKeeps ==
  ASSUME IInv, NEW x \in Terminations, Terminate(x[1], x[2], x[3]),
         UNCHANGED <<conductorVars, driverVars, serviceVars, littered, disturbed>>
  PROVE  IInv'
<1>1. x = <<"terminate", "terminateNowRef", "TERMINATED">>
  <2>1. x # <<"parent", "terminateNoopRef", "FAILED">>
    <3>1. SUFFICES ASSUME x = <<"parent", "terminateNoopRef", "FAILED">> PROVE FALSE
      OBVIOUS
    <3>2. x[1] = "parent" /\ x[2] = "terminateNoopRef"
      BY <3>1
    <3>3. "terminateNoopRef" \in DOMAIN Graph["parent"]
      BY <3>2 DEF Terminate, Runs, Has
    <3>4. QED
      BY <3>3, ParentTasks
  <2>2. QED
    BY <2>1 DEF Terminations
<1>2. Terminate("terminate", "terminateNowRef", "TERMINATED")
  BY <1>1
<1>3. /\ status["terminate"] = "RUNNING" /\ Has("terminate", "terminateNowRef")
      /\ done' = [done EXCEPT !["terminate"] = @ \cup {"terminateNowRef"}]
      /\ status' = [status EXCEPT !["terminate"] = "TERMINATED"]
      /\ UNCHANGED <<iteration, flows>>
  BY <1>2 DEF Terminate, Runs, Done, conductorVars
<1>4. /\ DOMAIN done = Instances /\ Instances = {"parent", "child", "terminate"}
      /\ status \in [Instances -> Terminal \cup {"ABSENT", "RUNNING"}]
      /\ "TERMINATED" \in Terminal
  BY DEF IInv, Engine, Instances, Terminal
<1>5. /\ DOMAIN done' = Instances
      /\ done'["terminate"] = done["terminate"] \cup {"terminateNowRef"}
      /\ \A j \in Instances : j # "terminate" => done'[j] = done[j]
  BY <1>3, <1>4
<1>6. /\ status' \in [Instances -> Terminal \cup {"ABSENT", "RUNNING"}]
      /\ status'["terminate"] = "TERMINATED"
      /\ \A j \in Instances : j # "terminate" => status'[j] = status[j]
  BY <1>3, <1>4
<1>7. \A j \in Instances :
         /\ done[j] \subseteq done'[j]
         /\ \A t \in done'[j] \ done[j] : status[j] = "RUNNING" /\ Has(j, t)
  BY <1>3, <1>5
<1>8. \A j \in Instances : \/ status'[j] = status[j]
                           \/ status'[j] # "ABSENT" /\ status[j] # "COMPLETED"
  BY <1>3, <1>6
<1>9. done'["parent"] = done["parent"]
  BY <1>4, <1>5
<1>10. Engine'
  <2>1. iteration' \in 0 .. 3 /\ ("loopRef" \in done'["parent"] <=> iteration' = 3)
    BY <1>3, <1>9 DEF IInv, Engine
  <2>2. QED
    BY <1>3, <1>5, <1>6, <1>7, <1>8, <1>9, <2>1, EngineKeeps DEF IInv
<1>11. Ends'
  <2>1. status'["child"] = status["child"] /\ status'["parent"] = status["parent"]
    BY <1>4, <1>6
  <2>2. "terminateNowRef" \in done'["terminate"]
    BY <1>5
  <2>3. \A j \in Instances : done[j] \subseteq done'[j]
    BY <1>7
  <2>4. QED
    BY <1>3, <1>6, <2>1, <2>2, <2>3, EndsKeep, DriverStays DEF IInv
<1>12. QED
  BY <1>10, <1>11, EngineOnly

\* The workflow that ends itself never completes: the last task asked for is not its own.
LEMMA CompleteKeeps ==
  ASSUME IInv, NEW i \in Instances, Complete(i),
         UNCHANGED <<conductorVars, driverVars, serviceVars, littered, disturbed>>
  PROVE  IInv'
<1>1. /\ status[i] = "RUNNING" /\ Last(i) \in done[i]
      /\ status' = [status EXCEPT ![i] = "COMPLETED"] /\ UNCHANGED <<done, iteration, flows>>
  BY DEF Complete, conductorVars
<1>2. i # "terminate"
  <2>1. SUFFICES ASSUME i = "terminate" PROVE FALSE
    OBVIOUS
  <2>2. "childInlineRef" \in done["terminate"]
    BY <1>1, <2>1 DEF Last
  <2>3. Has("terminate", "childInlineRef")
    BY <2>1, <2>2 DEF IInv, Engine
  <2>4. QED
    BY <2>3, TerminateTasks DEF Has
<1>3. "COMPLETED" \in Terminal \cup {"RUNNING"}
  BY DEF Terminal
<1>4. /\ Engine' /\ status'[i] = "COMPLETED"
      /\ \A j \in Instances : j # i => status'[j] = status[j]
  BY <1>1, <1>3, StatusSet
<1>5. i = "parent" => "finalRef" \in done'["parent"]
  BY <1>1 DEF Last
<1>6. Ends'
  <2>1. /\ status'["terminate"] = status["terminate"]
        /\ status'["child"] = status["child"] \/ status'["child"] = "COMPLETED"
        /\ \/ status'["parent"] = status["parent"]
           \/ status["parent"] = "RUNNING" /\ status'["parent"] = "COMPLETED" /\ i = "parent"
    BY <1>1, <1>2, <1>4 DEF Instances
  <2>2. QED
    BY <1>1, <1>5, <2>1, EndsKeep, DriverStays DEF IInv
<1>7. QED
  BY <1>4, <1>6, EngineOnly

LEMMA EndInstanceKeeps ==
  ASSUME IInv, NEW i \in Instances, EndInstance(i),
         UNCHANGED <<driverVars, serviceVars, littered>>
  PROVE  IInv'
<1>1. /\ status[i] = "RUNNING" /\ status' = [status EXCEPT ![i] = "TERMINATED"]
      /\ UNCHANGED <<defs, hooks, queue, done, iteration, deliveries>> /\ disturbed' = TRUE
  BY DEF EndInstance, serviceVars
<1>2. /\ flows' \in [Flows -> Task]
      /\ flows' = flows \/ flows'["parent"].status = "TERMINATED"
      /\ flows["parent"].status = "COMPLETED" => flows' = flows
  <2>1. Flows = {"parent"} /\ flows \in [Flows -> Task] /\ "TERMINATED" \in Terminal
    BY OneOfEach DEF IInv, Events, Terminal
  <2>2. CASE i = "parent" /\ flows[i].status = "RUNNING"
    <3>1. flows' = [flows EXCEPT !["parent"].status = "TERMINATED"]
      BY <2>2 DEF EndInstance
    <3>2. [flows["parent"] EXCEPT !.status = "TERMINATED"] \in Task
      BY <2>1 DEF Task
    <3>3. QED
      BY <2>1, <2>2, <3>1, <3>2
  <2>3. CASE ~ (i = "parent" /\ flows[i].status = "RUNNING")
    BY <2>1, <2>3 DEF EndInstance
  <2>4. QED
    BY <2>2, <2>3
<1>3. Driver' /\ at' = at /\ UNCHANGED keepDefs
  BY DriverStays DEF IInv
<1>4. Left'
  BY <1>1, <1>3, LeftKeeps DEF IInv
<1>5. Events'
  BY <1>1, <1>2 DEF IInv, Events
<1>6. /\ Engine' /\ status'[i] = "TERMINATED"
      /\ \A j \in Instances : j # i => status'[j] = status[j]
  <2>1. "TERMINATED" \in Terminal \cup {"RUNNING"}
    BY DEF Terminal
  <2>2. QED
    BY <1>1, <1>2, <2>1, StatusSet
<1>7. Ends'
  <2>1. \A j \in {"parent", "child", "terminate"} :
           status'[j] = status[j] \/ (status[j] = "RUNNING" /\ status'[j] = "TERMINATED")
    BY <1>1, <1>6 DEF Instances
  <2>2. QED
    BY <1>1, <2>1, EndsKeep, DriverStays DEF IInv
<1>8. QED
  BY <1>3, <1>4, <1>5, <1>6, <1>7 DEF IInv

\* A step of the webhook side of the server: it may complete the waiting task, with the
\* driver's own event.
LEMMA WebhookSide ==
  ASSUME IInv, UNCHANGED <<driverVars, serviceVars, littered, engineVars, disturbed>>,
         UNCHANGED <<defs, hooks>>, queue' \subseteq queue, flows' \in [Flows -> Task],
         flows["parent"].status = "COMPLETED" => flows' = flows,
         flows'["parent"].status = "COMPLETED" =>
            flows' = flows \/ (queue # {} /\ flows'["parent"].by = "driver")
  PROVE  IInv'
<1>1. UNCHANGED <<status, done, iteration, deliveries>>
  BY DEF engineVars, serviceVars
<1>2. Driver' /\ at' = at /\ UNCHANGED <<keepDefs, passed>>
  BY DriverStays DEF IInv
<1>3. Left'
  BY <1>2, LeftKeeps DEF IInv
<1>4. Events'
  <2>1. queue # {} => deliveries["driver"] = 1
    BY DEF IInv, Events
  <2>2. flows'["parent"].status = "COMPLETED" =>
          flows'["parent"].by = "driver" /\ deliveries["driver"] = 1
    BY <2>1 DEF IInv, Events
  <2>3. QED
    BY <1>1, <2>2 DEF IInv, Events
<1>5. Engine'
  <2>1. "waitRef" \in done'["parent"] => flows'["parent"].status = "COMPLETED"
    BY <1>1 DEF IInv, Engine
  <2>2. \A j \in Instances : \A t \in done'[j] : Has(j, t)'
    BY <1>1 DEF IInv, Engine, Has
  <2>3. QED
    BY <1>1, <2>1, <2>2 DEF IInv, Engine
<1>6. Ends'
  BY <1>1, <1>2 DEF IInv, Ends
<1>7. QED
  BY <1>2, <1>3, <1>4, <1>5, <1>6 DEF IInv

LEMMA RegisterKeeps ==
  ASSUME IInv, Register, UNCHANGED <<driverVars, serviceVars, littered, engineVars, disturbed>>
  PROVE  IInv'
<1>1. /\ flows["parent"].status = "RUNNING" /\ UNCHANGED <<defs, hooks, queue>>
      /\ flows' = [flows EXCEPT !["parent"].registered = TRUE]
  BY DEF Register, RegisterWait
<1>2. Flows = {"parent"} /\ flows \in [Flows -> Task]
  BY OneOfEach DEF IInv, Events
<1>3. /\ [flows["parent"] EXCEPT !.registered = TRUE] \in Task
      /\ [flows["parent"] EXCEPT !.registered = TRUE].status = "RUNNING"
  BY <1>1, <1>2 DEF Task
<1>4. flows' \in [Flows -> Task] /\ flows'["parent"].status = "RUNNING"
  BY <1>1, <1>2, <1>3
<1>5. QED
  BY <1>1, <1>4, WebhookSide

LEMMA DispatchKeeps ==
  ASSUME IInv, NEW e \in queue, Dispatch(e),
         UNCHANGED <<driverVars, serviceVars, littered, engineVars, disturbed>>
  PROVE  IInv'
<1>1. /\ UNCHANGED <<defs, hooks>> /\ queue' \subseteq queue /\ queue # {}
      /\ flows' = [w \in Flows |->
                     IF w \in Matched(e)
                     THEN [flows[w] EXCEPT !.status = "COMPLETED", !.by = e.by]
                     ELSE flows[w]]
  BY DEF Dispatch
<1>2. /\ Flows = {"parent"} /\ flows \in [Flows -> Task] /\ Sources = {"driver"}
      /\ e.by = "driver" /\ "COMPLETED" \in Terminal
  BY OneOfEach DEF IInv, Events, Terminal
<1>3. "parent" \in Matched(e) => flows["parent"].status = "RUNNING"
  BY DEF Matched
<1>4. CASE "parent" \in Matched(e)
  <2>1. flows'["parent"] = [flows["parent"] EXCEPT !.status = "COMPLETED", !.by = "driver"]
    BY <1>1, <1>2, <1>4
  <2>2. flows["parent"] \in Task
    BY <1>2
  <2>3. /\ [flows["parent"] EXCEPT !.status = "COMPLETED", !.by = "driver"] \in Task
        /\ [flows["parent"] EXCEPT !.status = "COMPLETED", !.by = "driver"].by = "driver"
    BY <1>2, <2>2 DEF Task
  <2>4. flows' \in [Flows -> Task] /\ flows'["parent"].by = "driver"
    BY <1>1, <1>2, <2>1, <2>3
  <2>5. QED
    BY <1>1, <1>3, <1>4, <2>4, WebhookSide
<1>5. CASE "parent" \notin Matched(e)
  <2>1. flows' = flows
    BY <1>1, <1>2, <1>5
  <2>2. QED
    BY <1>1, <1>2, <2>1, WebhookSide
<1>6. QED
  BY <1>4, <1>5

-----------------------------------------------------------------------------
(* The theorems.                                                           *)

LEMMA InitHolds == ASSUME Init PROVE IInv
<1>1. /\ at = 1 /\ calling = FALSE /\ raising = FALSE /\ exit = None /\ keepDefs \in BOOLEAN
      /\ passed = [i \in {"parent", "terminate"} |-> None]
      /\ status = [i \in Instances |-> "ABSENT"] /\ done = [i \in Instances |-> {}]
      /\ iteration = 0 /\ queue = {} /\ defs = [n \in Names |-> None]
      /\ hooks = [h \in Hooks |-> None] /\ flows = [w \in Flows |-> Absent]
      /\ deliveries = [r \in Sources |-> 0]
  BY DEF Init, ConductorInit, Service!Init
<1>2. Driver
  <2>1. exit # 0
    BY <1>1, NoneApart
  <2>2. passed \in [{"parent", "terminate"} -> {None, TRUE, FALSE}]
    BY <1>1
  <2>3. exit \in {None, 0, 1, 3} /\ at \in 1 .. 15
    BY <1>1
  <2>4. ~ calling /\ ~ raising /\ calling \in BOOLEAN /\ raising \in BOOLEAN
    BY <1>1
  <2>5. ~ (at > 7) /\ ~ (at > 13)
    BY <1>1
  <2>6. QED
    BY <1>1, <2>1, <2>2, <2>3, <2>4, <2>5 DEF Driver
<1>3. Left
  <2>1. {"child", "parent", "terminate"} = Names /\ Hooks = {"hook"}
    BY OneOfEach DEF Instances
  <2>2. QED
    BY <1>1, <2>1 DEF Left
<1>4. Events
  <2>1. Absent \in Task
    BY DEF Absent, Task
  <2>2. Flows = {"parent"} /\ Absent.status = "ABSENT"
    BY OneOfEach DEF Absent
  <2>3. QED
    BY <1>1, <2>1, <2>2 DEF Events
<1>5. Engine
  BY <1>1 DEF Engine, Instances
<1>6. Ends
  <2>1. passed["parent"] = None /\ passed["terminate"] = None /\ None # TRUE
    BY <1>1, NoneApart
  <2>2. QED
    BY <1>1, <2>1 DEF Ends, Instances
<1>7. QED
  BY <1>2, <1>3, <1>4, <1>5, <1>6 DEF IInv

LEMMA ServerKeeps ==
  ASSUME IInv, Server, UNCHANGED <<driverVars, serviceVars, littered>>
  PROVE  IInv'
<1>1. CASE EngineStep /\ UNCHANGED <<conductorVars, disturbed>>
  BY <1>1, DecideKeeps, CompleteKeeps, RunTaskKeeps, RunLoopKeeps, StartChildKeeps,
     ChildEndsKeeps, WaitEndsKeeps, TerminateKeeps DEF EngineStep
<1>2. CASE (Register \/ \E e \in queue : Dispatch(e)) /\ UNCHANGED <<engineVars, disturbed>>
  BY <1>2, RegisterKeeps, DispatchKeeps
<1>3. CASE \E i \in Instances : EndInstance(i)
  BY <1>3, EndInstanceKeeps
<1>4. QED
  BY <1>1, <1>2, <1>3 DEF Server

LEMMA NextKeeps == ASSUME IInv, [Next]_vars PROVE IInv'
<1>1. CASE DriverStep
  BY <1>1, PingKeeps, DefineKeeps, RegisterWebhookKeeps, StartKeeps, FireKeeps,
     FireAnsweredKeeps, PollKeeps, PollTimesOutKeeps, SkipKeeps, RemoveKeeps, FinishKeeps
  DEF DriverStep
<1>2. CASE Interrupt
  BY <1>2, InterruptKeeps
<1>3. CASE Deliver
  BY <1>3, DeliverKeeps
<1>4. CASE Server /\ UNCHANGED <<driverVars, serviceVars, littered>>
  BY <1>4, ServerKeeps
<1>5. CASE UNCHANGED vars
  <2>1. UNCHANGED <<conductorVars, driverVars, engineVars, serviceVars, littered, disturbed>>
    BY <1>5 DEF vars
  <2>2. Engine' /\ Ends'
    <3>1. UNCHANGED <<status, done, iteration, flows>>
      BY <2>1 DEF engineVars, conductorVars
    <3>2. Driver' /\ at' = at /\ UNCHANGED passed
      BY <2>1, DriverStays DEF IInv
    <3>3. QED
      BY <2>1, <3>1, <3>2, EngineSame DEF IInv, Ends
  <2>3. QED
    BY <2>1, <2>2, EngineOnly
<1>6. QED
  BY <1>1, <1>2, <1>3, <1>4, <1>5 DEF Next

\* The inductive invariant: every step of the driver, the engine, the webhook worker and
\* whoever ends instances from outside keeps the five parts.
THEOREM Invariance == Spec => []IInv
<1>1. Init => IInv
  BY InitHolds
<1>2. IInv /\ [Next]_vars => IInv'
  BY NextKeeps
<1>3. QED
  BY <1>1, <1>2, PTL DEF Spec

\* The driver is at a step of its plan, a call is under way only at the step that fires,
\* an exception is on its way only at a removal, and no task is done before those it
\* waits for.
THEOREM Typed == Spec => []TypeOK
<1>1. IInv => TypeOK
  <2>1. SUFFICES ASSUME IInv PROVE TypeOK
    OBVIOUS
  <2>2. Driver /\ at \in 1 .. 15
    BY <2>1 DEF IInv, Driver
  <2>3. calling => Op = "fire"
    BY <2>2, OpIs DEF Driver
  <2>4. raising \in BOOLEAN
    BY <2>2, Zenon DEF Driver
  <2>5. raising => Removal(at)
    <3>1. raising => at \in {8, 9, 10, 14}
      BY <2>2 DEF Driver
    <3>2. QED
      BY <2>2, <3>1, RemovalIs
  <2>6. exit \in {None, 0, 1, 3} /\ passed \in [{"parent", "terminate"} -> {None, TRUE, FALSE}]
    BY <2>2 DEF Driver
  <2>7. at \in 1 .. Len(Plan) + 1
    BY <2>2, PlanLength
  <2>8. /\ status \in [Instances -> Terminal \cup {"ABSENT", "RUNNING"}]
        /\ \A i \in Instances : \A t \in done[i] : Has(i, t)
        /\ iteration \in 0 .. 3
    BY <2>1 DEF IInv, Engine
  <2>9. QED
    BY <2>3, <2>4, <2>5, <2>6, <2>7, <2>8, Zenon DEF TypeOK
<1>2. QED
  BY <1>1, Invariance, PTL

\* What finalRef waits for is, through the graph, everything: no order in which the engine
\* takes the tasks has it before the four branches.
LEMMA FinalIsLast ==
  ASSUME IInv, Has("parent", "finalRef")
  PROVE  /\ {"joinRef", "waitRef", "captureRef", "childRef", "dynJoinRef", "loopRef",
             "dyn1Ref", "dyn2Ref", "dyn3Ref", "dynForkRef", "forkRef", "inlineOkRef",
             "switchRef", "transformRef", "seedRef"} \subseteq done["parent"]
         /\ flows["parent"].by = "driver" /\ deliveries["driver"] = 1
         /\ iteration = 3 /\ status["child"] = "COMPLETED"
<1>1. \A t \in done["parent"] : Has("parent", t)
  BY DEF IInv, Engine, Instances
<1>2. {"joinRef", "waitRef", "captureRef", "childRef", "dynJoinRef", "loopRef",
       "dyn1Ref", "dyn2Ref", "dyn3Ref", "dynForkRef", "forkRef", "inlineOkRef",
       "switchRef", "transformRef", "seedRef"} \subseteq done["parent"]
  BY <1>1, AllBeforeFinal
<1>3. "waitRef" \in done["parent"] /\ "loopRef" \in done["parent"] /\ "childRef" \in done["parent"]
  BY <1>2
<1>4. QED
  BY <1>2, <1>3 DEF IInv, Engine, Events

\* The composite cannot be COMPLETED, nor its aggregation be scheduled, before the driver's
\* own event, the three iterations, the child and the three dynamic tasks are through, in
\* whatever order the engine took the branches.
THEOREM BranchesJoin == Spec => []AllBranchesJoin
<1>1. IInv => AllBranchesJoin
  BY FinalIsLast DEF AllBranchesJoin, Dynamic
<1>2. QED
  BY <1>1, Invariance, PTL

\* What a COMPLETED composite has behind it.
LEMMA CompletedIsWhole ==
  ASSUME IInv, status["parent"] = "COMPLETED"
  PROVE  /\ done["parent"] = DOMAIN Graph["parent"] /\ iteration = 3
         /\ {"seedRef", "transformRef", "waitRef", "childRef", "dynJoinRef", "inlineOkRef",
             "dyn1Ref", "dyn2Ref", "dyn3Ref"} \subseteq done["parent"]
         /\ flows["parent"].by = "driver" /\ status["child"] = "COMPLETED"
<1>1. "finalRef" \in done["parent"]
  BY DEF IInv, Ends
<1>2. \A t \in done["parent"] : Has("parent", t)
  BY DEF IInv, Engine, Instances
<1>3. Has("parent", "finalRef")
  BY <1>1, <1>2
<1>4. /\ {"joinRef", "waitRef", "captureRef", "childRef", "dynJoinRef", "loopRef",
          "dyn1Ref", "dyn2Ref", "dyn3Ref", "dynForkRef", "forkRef", "inlineOkRef",
          "switchRef", "transformRef", "seedRef"} \subseteq done["parent"]
      /\ flows["parent"].by = "driver" /\ status["child"] = "COMPLETED" /\ iteration = 3
  BY <1>3, FinalIsLast
<1>5. done["parent"] \subseteq DOMAIN Graph["parent"]
  BY <1>2 DEF Has
<1>6. DOMAIN Graph["parent"] \subseteq done["parent"]
  BY <1>1, <1>4, ParentTasks
<1>7. QED
  BY <1>4, <1>5, <1>6

\* Exit code 0 is the truth about the conductor, whatever its engine, an operator and an
\* interrupt did meanwhile.
THEOREM ZeroIsTrue == Spec => []CleanExitIsTrue
<1>1. IInv => CleanExitIsTrue
  <2>1. SUFFICES ASSUME IInv, exit = 0 PROVE CleanExitIsTrue
    BY DEF CleanExitIsTrue
  <2>2. passed["parent"] = TRUE /\ passed["terminate"] = TRUE
    BY <2>1 DEF IInv, Driver
  <2>3. /\ status["parent"] = "COMPLETED" /\ status["terminate"] = "TERMINATED"
        /\ "terminateNowRef" \in done["terminate"]
    BY <2>1, <2>2 DEF IInv, Ends
  <2>4. QED
    BY <2>1, <2>3, CompletedIsWhole DEF CleanExitIsTrue
<1>2. QED
  BY <1>1, Invariance, PTL

\* The checks ask of a workflow no more than its definition gives it: an instance that
\* ended undisturbed passes every one of them, and no run of the harness fails for a
\* conductor that did right.
THEOREM ChecksAreSatisfied == Spec => []ChecksFitDefinitions
<1>1. IInv => ChecksFitDefinitions
  <2>1. SUFFICES ASSUME IInv, Op = "poll", status[Arg] \in Terminal, ~ disturbed
                 PROVE  Checks(Arg)
    BY DEF ChecksFitDefinitions
  <2>2. at \in 1 .. 15
    BY <2>1 DEF IInv, Driver
  <2>3. \/ at = 7 /\ Arg = "parent"
        \/ at = 13 /\ Arg = "terminate"
    BY <2>1, <2>2, OpIs
  <2>4. CASE at = 7 /\ Arg = "parent"
    <3>1. status["parent"] = "COMPLETED"
      BY <2>1, <2>4 DEF IInv, Ends, Terminal
    <3>2. /\ done["parent"] = DOMAIN Graph["parent"] /\ iteration = 3
          /\ {"seedRef", "transformRef", "waitRef", "childRef", "dynJoinRef", "inlineOkRef",
              "dyn1Ref", "dyn2Ref", "dyn3Ref"} \subseteq done["parent"]
      BY <2>1, <3>1, CompletedIsWhole
    <3>3. Has("parent", "inlineOkRef") /\ ~ Has("parent", "httpRef")
          /\ ~ Has("parent", "terminateNoopRef")
      <4>1. Has("parent", "inlineOkRef")
        BY <2>1, <3>2 DEF IInv, Engine, Instances
      <4>2. "httpRef" \notin DOMAIN Graph["parent"]
            /\ "terminateNoopRef" \notin DOMAIN Graph["parent"]
        BY ParentTasks
      <4>3. QED
        BY <4>1, <4>2 DEF Has
    <3>4. Cardinality(Joined) >= 3
      <4>1. Joined = {"dyn1Ref", "dyn2Ref", "dyn3Ref"}
        BY <3>2 DEF Joined, Dynamic
      <4>2. Cardinality({"dyn1Ref", "dyn2Ref", "dyn3Ref"}) = 3
        <5>1. IsFiniteSet({}) /\ Cardinality({}) = 0
          BY FS_EmptySet
        <5>2. IsFiniteSet({"dyn1Ref"}) /\ Cardinality({"dyn1Ref"}) = 1
          BY FS_Singleton
        <5>3. /\ IsFiniteSet({"dyn1Ref"} \cup {"dyn2Ref"})
              /\ Cardinality({"dyn1Ref"} \cup {"dyn2Ref"}) = 2
          BY <5>2, FS_AddElement
        <5>4. /\ Cardinality(({"dyn1Ref"} \cup {"dyn2Ref"}) \cup {"dyn3Ref"}) = 3
          BY <5>3, FS_AddElement
        <5>5. ({"dyn1Ref"} \cup {"dyn2Ref"}) \cup {"dyn3Ref"} = {"dyn1Ref", "dyn2Ref", "dyn3Ref"}
          OBVIOUS
        <5>6. QED
          BY <5>4, <5>5
      <4>3. QED
        BY <4>1, <4>2
    <3>5. AssertComposite
      BY <3>1, <3>2, <3>3, <3>4 DEF AssertComposite
    <3>6. QED
      BY <2>4, <3>5 DEF Checks
  <2>5. CASE at = 13 /\ Arg = "terminate"
    <3>1. status["terminate"] = "TERMINATED" /\ "terminateNowRef" \in done["terminate"]
      BY <2>1, <2>5 DEF IInv, Ends, Terminal
    <3>2. "preRef" \in done["terminate"]
      <4>1. Has("terminate", "terminateNowRef")
        BY <2>1, <3>1 DEF IInv, Engine, Instances
      <4>2. QED
        BY <4>1, TerminateTasks
    <3>3. AssertTerminate
      BY <3>1, <3>2 DEF AssertTerminate
    <3>4. QED
      BY <2>5, <3>3 DEF Checks
  <2>6. QED
    BY <2>3, <2>4, <2>5
<1>2. QED
  BY <1>1, Invariance, PTL

\* However the driver came to its end, nothing it registered is left, unless it was to be
\* kept or a registration or a removal did not end well.
THEOREM CleanupIsWhole == Spec => []NothingLeftBehind
<1>1. IInv => NothingLeftBehind
  <2>1. SUFFICES ASSUME IInv, exit # None, ~ littered, ~ keepDefs
                 PROVE  hooks["hook"] = None /\ \A n \in Names : defs[n] = None
    BY DEF NothingLeftBehind
  <2>2. at = 15
    BY <2>1 DEF IInv, Driver
  <2>3. /\ hooks["hook"] = None /\ defs["child"] = None /\ defs["parent"] = None
        /\ defs["terminate"] = None
    BY <2>1, <2>2 DEF IInv, Left
  <2>4. QED
    BY <2>3, OneOfEach DEF Instances
<1>2. QED
  BY <1>1, Invariance, PTL
=============================================================================
