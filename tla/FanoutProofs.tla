---------------------------- MODULE FanoutProofs ----------------------------
(***************************************************************************)
(* Theorems about Fanout, for either driver and any number of workflows    *)
(* and emitters.                                                           *)
(*                                                                         *)
(* What a driver saw stays true: a terminal status does not change, and an *)
(* event that got through is not delivered again.  Judged says what each   *)
(* way to the end of the driver leaves behind.                             *)
(***************************************************************************)
EXTENDS Fanout, TLAPS

Instances ==
  [name : {None, Name}, matches : {{}, {"event"}},
   status : Terminal \cup {"RUNNING", "ABSENT"}, registered : BOOLEAN, by : Sources \cup {None}]

Shape == /\ defs \in [Names -> {None, {"event"}}]
         /\ flows \in [Flows -> Instances]
         /\ deliveries \in [Sources -> {0, 1}]

\* Whatever is queued was fired by the driver.
OwnEvents == \A x \in queue : x.by \in Fires

\* What was started is there to be polled, and a judgement is what it came to, unless
\* the driver ran out of time.
FlowKnown(w) ==
  /\ w \in started => flows[w].status # "ABSENT"
  /\ flows[w].status = "COMPLETED" => flows[w].by \in Fires
  /\ result[w] \in Terminal => flows[w].status = result[w]
  /\ result[w] = "TIMEOUT" => gaveUp

\* Only what a driver fires is on its way, and "fired" is said of what arrived.
EventKnown(e) ==
  /\ pc[e] # "parked" => e \in Fires
  /\ pc[e] = "fired" => deliveries[e] = 1

AllKnown == (\A w \in Flows : FlowKnown(w)) /\ (\A e \in Sources : EventKnown(e))

Before == {"register_wf", "register_webhook", "start", "fire"}

Judged ==
  /\ stage \in Before => pending = Flows
  /\ stage \in {"fire", "poll"} => started = Flows
  /\ stage = "poll" => Delivered
  /\ exit = 0 => stage = "end" /\ Delivered /\ Ok
  /\ stage = "end" /\ exit = 1 /\ ~ gaveUp => pending = {} /\ ~ Ok

IInv == TypeOK /\ Shape /\ OwnEvents /\ AllKnown /\ Judged

-----------------------------------------------------------------------------
(* The driver.                                                             *)

Stages == Before \cup {"poll", "end"}

LEMMA TypeKept ==
  ASSUME TypeOK, UNCHANGED <<driver, startVars, pc, code, pollVars>>,
         stage' \in Stages, exit' \in {None, 0, 1}, gaveUp' \in BOOLEAN
  PROVE  TypeOK'
<1>1. UNCHANGED <<started, refused, pending, polled, result>>
  BY DEF startVars, pollVars
<1>2. stage' \in {"register_wf", "register_webhook", "start", "fire", "poll", "end"}
  BY DEF Stages, Before
<1>3. QED
  BY <1>1, <1>2 DEF TypeOK

\* What is known is of the conductor, the events and the judgements, wherever the driver is.
LEMMA KnownKept ==
  ASSUME IInv, UNCHANGED <<driver, started, flows, queue, pc, pollVars, deliveries>>,
         gaveUp => gaveUp'
  PROVE  AllKnown' /\ OwnEvents'
<1>1. Fires' = Fires /\ result' = result
  BY DEF Fires, pollVars
<1>2. ASSUME NEW w \in Flows PROVE FlowKnown(w)'
  BY <1>1 DEF IInv, AllKnown, FlowKnown
<1>3. ASSUME NEW e \in Sources PROVE EventKnown(e)'
  BY <1>1 DEF IInv, AllKnown, EventKnown
<1>4. OwnEvents'
  BY <1>1 DEF IInv, OwnEvents
<1>5. QED
  BY <1>2, <1>3, <1>4 DEF AllKnown

\* A step of the driver that touches neither the workflows nor the events.
LEMMA DriverMoves ==
  ASSUME IInv, UNCHANGED <<driver, flows, queue, startVars, pc, code, pollVars, serviceVars>>,
         defs' \in [Names -> {None, {"event"}}],
         stage' \in Stages, exit' \in {None, 0, 1}, gaveUp' \in BOOLEAN, gaveUp => gaveUp',
         Judged'
  PROVE  IInv'
<1>1. TypeOK'
  BY TypeKept DEF IInv
<1>2. deliveries' = deliveries /\ started' = started
  BY DEF serviceVars, startVars
<1>3. AllKnown' /\ OwnEvents'
  BY <1>2, KnownKept
<1>4. Shape'
  BY <1>2 DEF IInv, Shape
<1>5. QED
  BY <1>1, <1>3, <1>4 DEF IInv

\* Before the polls no exit code is 0, and one of 1 says that the driver gave up.
LEMMA NotYetJudged ==
  ASSUME IInv, stage \in Before, UNCHANGED pending,
         stage' \in {"fire", "poll"} => started' = Flows,
         \/ stage' \in Before /\ exit' = exit
         \/ stage' = "poll" /\ exit' = exit /\ Delivered'
         \/ stage' = "end" /\ exit' = 1 /\ gaveUp'
  PROVE  Judged'
<1>1. exit # 0 /\ pending = Flows
  BY DEF IInv, Judged, Before
<1>2. QED
  BY <1>1 DEF Judged, Before

LEMMA RegisterWorkflowKeeps == ASSUME IInv, RegisterWorkflow PROVE IInv'
<1>1. /\ stage = "register_wf"
      /\ UNCHANGED <<driver, hooks, flows, queue, startVars, pc, code, pollVars, serviceVars>>
      /\ \/ stage' = "register_webhook" /\ exit' = exit /\ gaveUp' = gaveUp
         \/ stage' = "end" /\ exit' = 1 /\ gaveUp'
      /\ defs' = [defs EXCEPT ![Name] = {"event"}] \/ defs' = defs
  BY Zenon DEF RegisterWorkflow, PutDef, Goto, GiveUp, End
<1>2. defs' \in [Names -> {None, {"event"}}]
  BY <1>1, SharedIds DEF IInv, Shape
<1>3. gaveUp' \in BOOLEAN
  BY Zenon DEF RegisterWorkflow, Goto, GiveUp, End, IInv, TypeOK
<1>4. stage' \in Stages /\ exit' \in {None, 0, 1} /\ (gaveUp => gaveUp')
  BY <1>1 DEF Stages, Before, IInv, TypeOK
<1>5. pending' = pending
  BY <1>1 DEF pollVars
<1>6. Judged'
  BY <1>1, <1>5, NotYetJudged DEF Before
<1>7. QED
  BY <1>1, <1>2, <1>3, <1>4, <1>6, DriverMoves

LEMMA RegisterWebhookKeeps == ASSUME IInv, RegisterWebhook PROVE IInv'
<1>1. /\ stage = "register_webhook"
      /\ UNCHANGED <<driver, defs, flows, queue, startVars, pc, code, pollVars, serviceVars>>
      /\ \/ stage' = "start" /\ exit' = exit /\ gaveUp' = gaveUp
         \/ stage' = "end" /\ exit' = 1 /\ gaveUp'
  BY Zenon DEF RegisterWebhook, Goto, GiveUp, End
<1>2. gaveUp' \in BOOLEAN
  BY Zenon DEF RegisterWebhook, Goto, GiveUp, End, IInv, TypeOK
<1>3. stage' \in Stages /\ exit' \in {None, 0, 1} /\ (gaveUp => gaveUp')
  BY <1>1 DEF Stages, Before, IInv, TypeOK
<1>4. pending' = pending
  BY <1>1 DEF pollVars
<1>5. Judged'
  BY <1>1, <1>4, NotYetJudged DEF Before
<1>6. QED
  BY <1>1, <1>2, <1>3, <1>5, DriverMoves DEF IInv, Shape

LEMMA AllStartedKeeps == ASSUME IInv, AllStarted PROVE IInv'
<1>1. /\ stage = "start"
      /\ UNCHANGED <<driver, conductorVars, startVars, pc, code, pollVars, serviceVars>>
      /\ \/ stage' = "fire" /\ exit' = exit /\ gaveUp' = gaveUp
         \/ stage' = "end" /\ exit' = 1 /\ gaveUp'
  BY Zenon DEF AllStarted, Goto, GiveUp, End
<1>2. gaveUp' \in BOOLEAN
  BY Zenon DEF AllStarted, Goto, GiveUp, End, IInv, TypeOK
<1>3. stage' \in Stages /\ exit' \in {None, 0, 1} /\ (gaveUp => gaveUp')
  BY <1>1 DEF Stages, Before, IInv, TypeOK
<1>4. pending' = pending /\ defs' = defs /\ flows' = flows /\ queue' = queue
  BY <1>1 DEF pollVars, conductorVars
<1>5. Judged'
  <2>1. stage' = "fire" => started' = Flows
    BY DEF AllStarted, GiveUp, End, startVars
  <2>2. QED
    BY <1>1, <1>4, <2>1, NotYetJudged DEF Before
<1>6. QED
  BY <1>1, <1>2, <1>3, <1>4, <1>5, DriverMoves DEF IInv, Shape

LEMMA AllFiredKeeps == ASSUME IInv, AllFired PROVE IInv'
<1>1. /\ stage = "fire"
      /\ UNCHANGED <<driver, conductorVars, startVars, pc, code, pollVars, serviceVars>>
      /\ \/ stage' = "poll" /\ exit' = exit /\ gaveUp' = gaveUp /\ Delivered
         \/ stage' = "end" /\ exit' = 1 /\ gaveUp'
  BY Zenon DEF AllFired, Goto, GiveUp, End
<1>2. gaveUp' \in BOOLEAN
  BY Zenon DEF AllFired, Goto, GiveUp, End, IInv, TypeOK
<1>3. stage' \in Stages /\ exit' \in {None, 0, 1} /\ (gaveUp => gaveUp')
  BY <1>1 DEF Stages, Before, IInv, TypeOK
<1>4. pending' = pending /\ defs' = defs /\ flows' = flows /\ queue' = queue
  BY <1>1 DEF pollVars, conductorVars
<1>5. Delivered => Delivered'
  BY <1>1 DEF Delivered, Fires
<1>6. Judged'
  <2>1. started' = Flows
    BY <1>1 DEF IInv, Judged, startVars
  <2>2. QED
    BY <1>1, <1>4, <1>5, <2>1, NotYetJudged DEF Before
<1>7. QED
  BY <1>1, <1>2, <1>3, <1>4, <1>6, DriverMoves DEF IInv, Shape

\* Nothing is pending, so "not all COMPLETED" is what some workflow came to.
LEMMA VerdictKeeps == ASSUME IInv, Verdict PROVE IInv'
<1>1. /\ stage = "poll" /\ stage' = "end" /\ pending = {}
      /\ UNCHANGED <<driver, conductorVars, startVars, pc, code, pollVars, serviceVars, gaveUp>>
      /\ \/ exit' = 0 /\ Ok
         \/ exit' = 1 /\ ~ Ok
  BY Zenon DEF Verdict, End
<1>2. gaveUp' \in BOOLEAN
  BY <1>1 DEF IInv, TypeOK
<1>3. pending' = pending /\ result' = result /\ defs' = defs /\ flows' = flows /\ queue' = queue
  BY <1>1 DEF pollVars, conductorVars
<1>4. Delivered' /\ (Ok' <=> Ok)
  BY <1>1, <1>3 DEF Delivered, Ok, Fires, IInv, Judged
<1>5. Judged'
  BY <1>1, <1>3, <1>4 DEF Judged, Before
<1>6. QED
  BY <1>1, <1>2, <1>3, <1>5, DriverMoves DEF IInv, Shape, Stages

\* A workflow that starts, or may have, is one nothing was judged of.
LEMMA StartKeeps == ASSUME IInv, NEW w \in Flows, Start(w) PROVE IInv'
<1>1. /\ stage = "start" /\ w \notin started \cup refused
      /\ UNCHANGED <<driver, defs, hooks, queue, pc, code, pollVars, deliveries>>
      /\ StartFlow(w, Name) \/ (flows' = flows /\ started' = started)
      /\ \/ stage' = stage /\ exit' = exit /\ gaveUp' = gaveUp
         \/ stage' = "end" /\ exit' = 1 /\ gaveUp'
      /\ \/ started' = started \cup {w} /\ refused' = refused
         \/ started' = started /\ refused' = refused \cup {w}
  BY Zenon DEF Start, GiveUp, End, driverVars, serviceVars
<1>2. gaveUp' \in BOOLEAN
  BY Zenon DEF Start, GiveUp, End, IInv, TypeOK
<1>3. /\ pending' = pending /\ polled' = polled /\ result' = result
      /\ exit' \in {None, 0, 1} /\ stage' \in {"start", "end"} /\ (gaveUp => gaveUp')
  BY <1>1 DEF pollVars, IInv, TypeOK
<1>4. started' \subseteq Flows /\ refused' \subseteq Flows \ started'
  BY <1>1 DEF IInv, TypeOK
<1>5. TypeOK'
  BY <1>1, <1>2, <1>3, <1>4 DEF IInv, TypeOK
<1> DEFINE new == [name |-> Name, matches |-> defs[Name], status |-> "RUNNING",
                   registered |-> FALSE, by |-> None]
<1>6. CASE flows' = flows /\ started' = started
  <2>1. AllKnown' /\ OwnEvents'
    BY <1>1, <1>3, <1>6, KnownKept
  <2>2. Judged'
    BY <1>1, <1>3, NotYetJudged DEF Before
  <2>3. QED
    BY <1>1, <1>5, <1>6, <2>1, <2>2 DEF IInv, Shape
<1>7. CASE StartFlow(w, Name)
  <2>1. defs[Name] # None /\ flows' = [flows EXCEPT ![w] = new]
    BY <1>7 DEF StartFlow, StartInstance
  <2>2. new \in Instances
    BY <2>1, SharedIds DEF IInv, Shape, Instances
  <2>3. flows' \in [Flows -> Instances] /\ flows'[w] = new
        /\ \A v \in Flows \ {w} : flows'[v] = flows[v]
    <3> HIDE DEF new
    <3>1. QED
      BY <2>1, <2>2 DEF IInv, Shape
  <2>4. flows'[w].status = "RUNNING" /\ result[w] = None
    BY <1>1, <2>3 DEF IInv, Judged, TypeOK, Before
  <2>5. Fires' = Fires
    BY <1>1 DEF Fires
  <2>6. ASSUME NEW v \in Flows PROVE FlowKnown(v)'
    <3>1. CASE v = w
      BY <1>3, <2>4, <3>1, NoneApart DEF FlowKnown
    <3>2. CASE v # w
      BY <1>1, <1>3, <2>3, <2>5, <3>2 DEF IInv, AllKnown, FlowKnown
    <3>3. QED
      BY <3>1, <3>2
  <2>7. \A e \in Sources : EventKnown(e)'
    BY <1>1, <2>5 DEF IInv, AllKnown, EventKnown
  <2>8. OwnEvents' /\ Shape'
    BY <1>1, <2>3, <2>5 DEF IInv, OwnEvents, Shape
  <2>9. Judged'
    BY <1>1, <1>3, NotYetJudged DEF Before
  <2>10. QED
    BY <1>5, <2>6, <2>7, <2>8, <2>9 DEF IInv, AllKnown
<1>8. QED
  BY <1>1, <1>6, <1>7

-----------------------------------------------------------------------------
(* The events.                                                             *)

\* Nothing is delivered of an event that is not fired, and no event twice.
LEMMA EventStepKeeps ==
  ASSUME IInv, UNCHANGED <<defs, flows, driverVars, startVars, pollVars, gaveUp>>,
         pc' \in [Sources -> {"parked", "firing", "fired", "raised"}],
         code' \in [Sources -> {None, "2xx", "status"}],
         deliveries' \in [Sources -> {0, 1}],
         \A e \in Sources : EventKnown(e)', OwnEvents',
         Delivered => Delivered'
  PROVE  IInv'
<1>1. UNCHANGED <<driver, stage, exit, started, refused, pending, polled, result>>
  BY DEF driverVars, startVars, pollVars
<1>2. TypeOK'
  BY <1>1 DEF IInv, TypeOK
<1>3. \A w \in Flows : FlowKnown(w)'
  BY <1>1 DEF IInv, AllKnown, FlowKnown, Fires
<1>4. Judged'
  BY <1>1 DEF IInv, Judged, Ok
<1>5. QED
  BY <1>2, <1>3, <1>4 DEF IInv, AllKnown, Shape

LEMMA FireKeeps == ASSUME IInv, NEW e \in Sources, Fire(e) PROVE IInv'
<1>1. /\ stage = "fire" /\ e \in Fires /\ pc[e] = "parked" /\ pc' = [pc EXCEPT ![e] = "firing"]
      /\ UNCHANGED <<conductorVars, driverVars, startVars, code, pollVars, deliveries, gaveUp>>
  BY DEF Fire, serviceVars
<1>2. defs' = defs /\ flows' = flows /\ queue' = queue /\ Fires' = Fires
  BY <1>1 DEF conductorVars, driverVars, Fires
<1>3. pc \in [Sources -> {"parked", "firing", "fired", "raised"}]
  BY DEF IInv, TypeOK
<1>4. \A d \in Sources : EventKnown(d)'
  BY <1>1, <1>2, <1>3 DEF IInv, AllKnown, EventKnown
<1>5. OwnEvents'
  BY <1>2 DEF IInv, OwnEvents
<1>6. ~ Delivered
  BY <1>1 DEF Delivered
<1>7. /\ pc' \in [Sources -> {"parked", "firing", "fired", "raised"}]
      /\ code' \in [Sources -> {None, "2xx", "status"}] /\ deliveries' \in [Sources -> {0, 1}]
  BY <1>1, <1>3 DEF IInv, TypeOK, Shape
<1>8. QED
  BY <1>1, <1>2, <1>4, <1>5, <1>6, <1>7, EventStepKeeps

LEMMA FireAnsweredKeeps == ASSUME IInv, NEW e \in Sources, FireAnswered(e) PROVE IInv'
<1>1. /\ stage = "fire" /\ pc[e] = "firing"
      /\ \/ deliveries[e] = 1 /\ pc' = [pc EXCEPT ![e] = "fired"]
         \/ pc' = [pc EXCEPT ![e] = "raised"]
      /\ UNCHANGED <<conductorVars, driverVars, startVars, code, pollVars, deliveries, gaveUp>>
  BY DEF FireAnswered, Service!Fired
<1>2. defs' = defs /\ flows' = flows /\ queue' = queue /\ Fires' = Fires
  BY <1>1 DEF conductorVars, driverVars, Fires
<1>3. pc \in [Sources -> {"parked", "firing", "fired", "raised"}]
  BY DEF IInv, TypeOK
<1>4. \A d \in Sources : EventKnown(d)'
  BY <1>1, <1>2, <1>3 DEF IInv, AllKnown, EventKnown
<1>5. OwnEvents'
  BY <1>2 DEF IInv, OwnEvents
<1>6. ~ Delivered
  BY <1>1 DEF Delivered, IInv, AllKnown, EventKnown
<1>7. /\ pc' \in [Sources -> {"parked", "firing", "fired", "raised"}]
      /\ code' \in [Sources -> {None, "2xx", "status"}] /\ deliveries' \in [Sources -> {0, 1}]
  BY <1>1, <1>3 DEF IInv, TypeOK, Shape
<1>8. QED
  BY <1>1, <1>2, <1>4, <1>5, <1>6, <1>7, EventStepKeeps

\* An event that is yet to arrive is of no driver that took it for delivered.
LEMMA DeliverKeeps == ASSUME IInv, NEW e \in Sources, Deliver(e) PROVE IInv'
<1>1. /\ pc[e] # "parked" /\ deliveries[e] = 0 /\ deliveries' = [deliveries EXCEPT ![e] = 1]
      /\ \E reply \in {"2xx", "status"} : code' = [code EXCEPT ![e] = reply]
      /\ queue' = queue \cup {[hook |-> Hook, body |-> Body(e), by |-> e]} \/ queue' = queue
      /\ UNCHANGED <<defs, flows, driverVars, startVars, pc, pollVars, gaveUp>>
  BY DEF Deliver, Service!Deliver, Enqueue
<1>2. /\ deliveries \in [Sources -> {0, 1}]
      /\ code \in [Sources -> {None, "2xx", "status"}]
      /\ pc \in [Sources -> {"parked", "firing", "fired", "raised"}]
  BY DEF IInv, Shape, TypeOK
<1>3. e \in Fires /\ pc[e] # "fired" /\ Fires' = Fires
  BY <1>1 DEF IInv, AllKnown, EventKnown, Fires, driverVars
<1>4. /\ deliveries' \in [Sources -> {0, 1}] /\ deliveries'[e] = 1
      /\ \A d \in Sources \ {e} : deliveries'[d] = deliveries[d]
  BY <1>1, <1>2
<1>5. \A d \in Sources : EventKnown(d)'
  BY <1>1, <1>3, <1>4 DEF IInv, AllKnown, EventKnown
<1>6. OwnEvents'
  BY <1>1, <1>3 DEF IInv, OwnEvents
<1>7. ~ Delivered
  BY <1>3 DEF Delivered
<1>8. code' \in [Sources -> {None, "2xx", "status"}]
  BY <1>1, <1>2
<1>9. pc' \in [Sources -> {"parked", "firing", "fired", "raised"}]
  BY <1>1, <1>2
<1>10. QED
  BY <1>1, <1>4, <1>5, <1>6, <1>7, <1>8, <1>9, EventStepKeeps

-----------------------------------------------------------------------------
(* The polls.                                                              *)

\* A judgement is of what the conductor says for good, or of the time that ran out.
LEMMA JudgementKeeps ==
  ASSUME IInv, NEW w \in pending, NEW s \in Terminal \cup {"TIMEOUT"}, Judge(w, s),
         stage = "poll", polled' \in [Flows -> Statuses],
         s \in Terminal => flows[w].status = s, s = "TIMEOUT" => gaveUp', gaveUp => gaveUp',
         gaveUp' \in BOOLEAN,
         UNCHANGED <<conductorVars, driverVars, startVars, pc, code, serviceVars>>
  PROVE  IInv'
<1>1. /\ UNCHANGED <<driver, stage, exit, started, refused, defs, flows, queue, deliveries>>
      /\ pending' = pending \ {w} /\ result' = [result EXCEPT ![w] = s]
  BY DEF conductorVars, driverVars, startVars, serviceVars, Judge
<1>2. /\ w \in Flows /\ pending \subseteq Flows
      /\ result \in [Flows -> Terminal \cup {None, "TIMEOUT"}]
      /\ \A v \in Flows : v \in pending <=> result[v] = None
  BY DEF IInv, TypeOK
<1>3. s # None
  BY NoneApart
<1>4. /\ result' \in [Flows -> Terminal \cup {None, "TIMEOUT"}] /\ result'[w] = s
      /\ \A v \in Flows \ {w} : result'[v] = result[v]
  BY <1>1, <1>2
<1>5. pending' \subseteq Flows /\ \A v \in Flows : v \in pending' <=> result'[v] = None
  BY <1>1, <1>2, <1>3, <1>4
<1>6. TypeOK'
  BY <1>1, <1>4, <1>5 DEF IInv, TypeOK
<1>7. Fires' = Fires /\ (Delivered => Delivered')
  BY <1>1 DEF Fires, Delivered
<1>8. ASSUME NEW v \in Flows PROVE FlowKnown(v)'
  <2>1. FlowKnown(v)
    BY DEF IInv, AllKnown
  <2>2. QED
    BY <1>1, <1>4, <1>7, <2>1 DEF FlowKnown
<1>9. \A e \in Sources : EventKnown(e)'
  BY <1>1, <1>7 DEF IInv, AllKnown, EventKnown
<1>10. Judged'
  BY <1>1, <1>7 DEF IInv, Judged, Before, startVars
<1>11. QED
  BY <1>1, <1>6, <1>7, <1>8, <1>9, <1>10 DEF IInv, AllKnown, OwnEvents, Shape

\* A step that judges nothing: the driver goes on polling, or gives up.
LEMMA Unjudged ==
  ASSUME IInv, stage = "poll", polled' \in [Flows -> Statuses],
         UNCHANGED <<driver, conductorVars, startVars, pc, code, pending, result, serviceVars>>,
         gaveUp' \in BOOLEAN, gaveUp => gaveUp',
         \/ stage' = stage /\ exit' = exit
         \/ stage' = "end" /\ exit' = 1 /\ gaveUp'
  PROVE  IInv'
<1>1. UNCHANGED <<started, refused, defs, flows, queue, deliveries>>
  BY DEF conductorVars, startVars, serviceVars
<1>2. stage' \in {"poll", "end"} /\ exit' \in {None, 0, 1}
  BY DEF IInv, TypeOK
<1>3. TypeOK'
  BY <1>1, <1>2 DEF IInv, TypeOK
<1>4. Fires' = Fires /\ (Delivered => Delivered')
  BY DEF Fires, Delivered
<1>5. \A w \in Flows : FlowKnown(w)'
  BY <1>1, <1>4 DEF IInv, AllKnown, FlowKnown
<1>6. \A e \in Sources : EventKnown(e)'
  BY <1>1, <1>4 DEF IInv, AllKnown, EventKnown
<1>7. exit # 0
  BY DEF IInv, Judged
<1>8. Judged'
  BY <1>1, <1>4, <1>7 DEF IInv, Judged, Before
<1>9. QED
  BY <1>1, <1>3, <1>4, <1>5, <1>6, <1>8 DEF IInv, AllKnown, OwnEvents, Shape

LEMMA PollKeeps == ASSUME IInv, NEW w \in Flows, Poll(w) PROVE IInv'
<1>1. /\ stage = "poll" /\ w \in pending
      /\ UNCHANGED <<conductorVars, startVars, pc, code, serviceVars>>
  BY DEF Poll, Asked
<1>2. gaveUp \in BOOLEAN /\ polled \in [Flows -> Statuses]
  BY DEF IInv, TypeOK
<1>3. CASE \E s \in {flows[w].status, "UNKNOWN"} :
              /\ polled' = [polled EXCEPT ![w] = s]
              /\ IF s \in Terminal THEN Judge(w, s) ELSE UNCHANGED <<pending, result>>
              /\ UNCHANGED <<driverVars, gaveUp>>
  <2>1. PICK s \in {flows[w].status, "UNKNOWN"} :
              /\ polled' = [polled EXCEPT ![w] = s]
              /\ IF s \in Terminal THEN Judge(w, s) ELSE UNCHANGED <<pending, result>>
              /\ UNCHANGED <<driverVars, gaveUp>>
    BY <1>3
  <2>2. CASE s \in Terminal
    <3>1. s = flows[w].status
      BY <2>2 DEF Terminal
    <3>2. polled' \in [Flows -> Statuses]
      BY <1>2, <2>1, <2>2 DEF Statuses
    <3>3. s # "TIMEOUT"
      BY <2>2 DEF Terminal
    <3>4. gaveUp' \in BOOLEAN /\ (gaveUp => gaveUp')
      BY <1>2, <2>1
    <3>5. QED
      BY <1>1, <2>1, <2>2, <3>1, <3>2, <3>3, <3>4, JudgementKeeps
  <2>3. CASE s \notin Terminal
    <3>1. flows[w] \in Instances /\ flows[w].status # "ABSENT"
      BY <1>1 DEF IInv, Shape, Judged, AllKnown, FlowKnown
    <3>2. s \in Statuses
      BY <3>1 DEF Instances, Statuses
    <3>3. polled' \in [Flows -> Statuses]
      BY <1>2, <2>1, <3>2
    <3>4. /\ gaveUp' \in BOOLEAN /\ (gaveUp => gaveUp')
          /\ UNCHANGED <<driver, stage, exit, pending, result>>
      BY <1>2, <2>1, <2>3 DEF driverVars
    <3>5. QED
      BY <1>1, <3>3, <3>4, Unjudged
  <2>4. QED
    BY <2>2, <2>3
<1>4. CASE PollFails(w)
  <2>1. UNCHANGED <<driver, pending, polled, result>>
    BY <1>4 DEF PollFails, GiveUp, End, driverVars, pollVars
  <2>2. \/ stage' = stage /\ exit' = exit /\ gaveUp' = gaveUp
        \/ stage' = "end" /\ exit' = 1 /\ gaveUp'
    BY <1>4, Zenon DEF PollFails, GiveUp, End, driverVars
  <2>3. gaveUp' \in BOOLEAN
    BY <1>2, <1>4, Zenon DEF PollFails, GiveUp
  <2>4. QED
    BY <1>1, <1>2, <2>1, <2>2, <2>3, Unjudged
<1>5. QED
  BY <1>3, <1>4 DEF Poll

\* Where the time runs out the driver is to blame: gaveUp remembers it.
LEMMA DeadlineKeeps == ASSUME IInv, NEW w \in Flows, Deadline(w) PROVE IInv'
<1>1. /\ stage = "poll" /\ w \in pending
      /\ UNCHANGED <<conductorVars, startVars, pc, code, polled, serviceVars>>
  BY DEF Deadline, Asked
<1>2. gaveUp' /\ polled' \in [Flows -> Statuses]
  BY <1>1 DEF Deadline, IInv, TypeOK
<1>3. gaveUp' \in BOOLEAN
  BY Zenon DEF Deadline
<1>4. CASE End(1) /\ UNCHANGED <<pending, result>>
  BY <1>1, <1>2, <1>3, <1>4, Unjudged DEF End
<1>5. CASE Judge(w, "TIMEOUT") /\ UNCHANGED driverVars
  <2>1. "TIMEOUT" \notin Terminal
    BY DEF Terminal
  <2>2. QED
    BY <1>1, <1>2, <1>3, <1>5, <2>1, JudgementKeeps
<1>6. QED
  BY <1>4, <1>5 DEF Deadline

-----------------------------------------------------------------------------
(* The conductor.                                                          *)

\* A status is for good once it is terminal, and COMPLETED is by an event of the queue.
LEMMA ConductorStepKeeps ==
  ASSUME IInv, flows' \in [Flows -> Instances], queue' \subseteq queue,
         UNCHANGED <<defs, driverVars, startVars, pc, code, pollVars, serviceVars, gaveUp>>,
         \A w \in Flows :
           \/ flows'[w].status = flows[w].status /\ flows'[w].by = flows[w].by
           \/ /\ flows[w].status = "RUNNING" /\ flows'[w].status \in Terminal
              /\ flows'[w].status = "COMPLETED" => flows'[w].by \in Fires
  PROVE  IInv'
<1>1. /\ UNCHANGED <<driver, stage, exit, started, refused, pending, polled, result, deliveries>>
      /\ gaveUp' = gaveUp
  BY DEF driverVars, startVars, pollVars, serviceVars
<1>2. TypeOK'
  BY <1>1 DEF IInv, TypeOK
<1>3. Fires' = Fires /\ (Delivered <=> Delivered')
  BY <1>1 DEF Fires, Delivered
<1>4. ASSUME NEW w \in Flows PROVE FlowKnown(w)'
  <2>1. FlowKnown(w)
    BY DEF IInv, AllKnown
  <2>2. "ABSENT" \notin Terminal /\ "RUNNING" \notin Terminal
    BY DEF Terminal
  <2>3. QED
    BY <1>1, <1>3, <2>1, <2>2 DEF FlowKnown
<1>5. \A e \in Sources : EventKnown(e)'
  BY <1>1, <1>3 DEF IInv, AllKnown, EventKnown
<1>6. Judged'
  BY <1>1, <1>3 DEF IInv, Judged, Ok
<1>7. OwnEvents' /\ Shape'
  BY <1>1, <1>3 DEF IInv, OwnEvents, Shape
<1>8. QED
  BY <1>2, <1>4, <1>5, <1>6, <1>7 DEF IInv, AllKnown

LEMMA ConductorKeeps ==
  ASSUME IInv, ConductorNext,
         UNCHANGED <<driverVars, startVars, pc, code, pollVars, serviceVars, gaveUp>>
  PROVE  IInv'
<1>1. flows \in [Flows -> Instances]
  BY DEF IInv, Shape
<1>2. ASSUME NEW w \in Flows, RegisterWait(w) PROVE IInv'
  <2>1. /\ flows' = [flows EXCEPT ![w].registered = TRUE]
        /\ UNCHANGED <<defs, hooks, queue>>
    BY <1>2 DEF RegisterWait
  <2>2. flows' \in [Flows -> Instances]
    BY <1>1, <2>1 DEF Instances
  <2>3. \A c \in Flows : flows'[c].status = flows[c].status /\ flows'[c].by = flows[c].by
    BY <1>1, <2>1 DEF Instances
  <2>4. QED
    BY <2>1, <2>2, <2>3, ConductorStepKeeps
<1>3. ASSUME NEW w \in Flows, Abort(w) PROVE IInv'
  <2>1. PICK s \in Terminal \ {"COMPLETED"} : flows' = [flows EXCEPT ![w].status = s]
    BY <1>3 DEF Abort
  <2>2. flows[w].status = "RUNNING" /\ UNCHANGED <<defs, hooks, queue>>
    BY <1>3 DEF Abort
  <2>3. flows' \in [Flows -> Instances]
    BY <1>1, <2>1 DEF Instances
  <2>4. flows'[w].status = s /\ \A c \in Flows \ {w} : flows'[c] = flows[c]
    BY <1>1, <2>1 DEF Instances
  <2>5. QED
    BY <2>2, <2>3, <2>4, ConductorStepKeeps
<1>4. ASSUME NEW x \in queue, Dispatch(x) PROVE IInv'
  <2>1. /\ queue' = queue \ {x} /\ UNCHANGED <<defs, hooks>>
        /\ flows' = [w \in Flows |-> IF w \in Matched(x)
                                    THEN [flows[w] EXCEPT !.status = "COMPLETED", !.by = x.by]
                                    ELSE flows[w]]
    BY <1>4 DEF Dispatch
  <2>2. x.by \in Fires /\ Fires \subseteq Sources
    BY SharedIds DEF IInv, OwnEvents, Fires
  <2>3. ASSUME NEW w \in Flows, w \in Matched(x)
        PROVE  /\ flows'[w] \in Instances /\ flows[w].status = "RUNNING"
               /\ flows'[w].status = "COMPLETED" /\ flows'[w].by = x.by
    <3>1. flows[w] \in Instances
            /\ flows'[w] = [flows[w] EXCEPT !.status = "COMPLETED", !.by = x.by]
      BY <1>1, <2>1, <2>3
    <3>2. /\ flows'[w] \in Instances
          /\ flows'[w].status = "COMPLETED" /\ flows'[w].by = x.by
      BY <2>2, <3>1 DEF Instances, Terminal
    <3>3. QED
      BY <2>3, <3>2 DEF Matched
  <2>4. \A w \in Flows \ Matched(x) : flows'[w] = flows[w]
    BY <2>1
  <2>5. flows' \in [Flows -> Instances]
    BY <1>1, <2>1, <2>3, <2>4
  <2>6. "COMPLETED" \in Terminal
    BY DEF Terminal
  <2>7. QED
    BY <2>1, <2>2, <2>3, <2>4, <2>5, <2>6, ConductorStepKeeps
<1>5. QED
  BY <1>2, <1>3, <1>4 DEF ConductorNext

-----------------------------------------------------------------------------
(* The theorems.                                                           *)

LEMMA InitIInv == Init => IInv
<1>1. SUFFICES ASSUME Init PROVE IInv
  OBVIOUS
<1>2. Shape
  BY <1>1 DEF Init, ConductorInit, Service!Init, Shape, Absent, Instances
<1>3. TypeOK
  BY <1>1 DEF Init, TypeOK, Statuses
<1>4. OwnEvents
  BY <1>1 DEF Init, ConductorInit, OwnEvents
<1>5. AllKnown
  <2>1. \A w \in Flows : flows[w].status = "ABSENT" /\ result[w] = None
    BY <1>1 DEF Init, ConductorInit, Absent
  <2>2. ASSUME NEW w \in Flows PROVE FlowKnown(w)
    BY <1>1, <2>1, NoneApart DEF Init, FlowKnown
  <2>3. \A e \in Sources : EventKnown(e)
    BY <1>1 DEF Init, EventKnown
  <2>4. QED
    BY <2>2, <2>3 DEF AllKnown
<1>6. Judged
  BY <1>1, NoneApart DEF Init, Judged
<1>7. QED
  BY <1>2, <1>3, <1>4, <1>5, <1>6 DEF IInv

LEMMA StutterKeeps == ASSUME IInv, UNCHANGED vars PROVE IInv'
<1>1. UNCHANGED <<defs, flows, queue, driverVars, startVars, pc, code, pollVars, serviceVars,
                  gaveUp>>
  BY DEF vars, conductorVars
<1>2. flows' \in [Flows -> Instances]
  BY <1>1 DEF IInv, Shape
<1>3. QED
  BY <1>1, <1>2, ConductorStepKeeps

\* What a driver saw of the workflows and the events is so in every later state.
THEOREM Invariance == Spec => []IInv
<1>1. IInv /\ [Next]_vars => IInv'
  BY RegisterWorkflowKeeps, RegisterWebhookKeeps, AllStartedKeeps, AllFiredKeeps, VerdictKeeps,
     StartKeeps, FireKeeps, FireAnsweredKeeps, DeliverKeeps, PollKeeps, DeadlineKeeps,
     ConductorKeeps, StutterKeeps DEF Next, Step
<1>2. QED
  BY <1>1, InitIInv, PTL DEF Spec

\* Every variable keeps to its type: no workflow is polled that was not started.
THEOREM Typed == Spec => []TypeOK
<1>1. IInv => TypeOK
  BY DEF IInv
<1>2. QED
  BY <1>1, Invariance, PTL

\* PASS is said of workflows that are COMPLETED, each by an event of the driver's, and of
\* events that all got through.
THEOREM PassesAreTrue == Spec => []PassIsTrue
<1>1. "COMPLETED" \in Terminal
  BY DEF Terminal
<1>2. Fires \subseteq Sources
  BY SharedIds DEF Fires
<1>3. IInv => PassIsTrue
  BY <1>1, <1>2 DEF IInv, Judged, Ok, Delivered, AllKnown, FlowKnown, EventKnown, PassIsTrue
<1>4. QED
  BY <1>3, Invariance, PTL

\* FAIL is said of a workflow that ended otherwise, or by a driver that gave up.
THEOREM FailuresAreReal == Spec => []NoFalseAlarm
<1>1. ASSUME IInv, stage = "end", exit = 1, ~ gaveUp
      PROVE  \E w \in Flows : flows[w].status \in Terminal \ {"COMPLETED"}
  <2>1. pending = {} /\ ~ Ok
    BY <1>1 DEF IInv, Judged
  <2>2. PICK w \in Flows : result[w] # "COMPLETED"
    BY <2>1 DEF Ok
  <2>3. result[w] \in Terminal \cup {None, "TIMEOUT"} /\ result[w] # None
    BY <1>1, <2>1 DEF IInv, TypeOK
  <2>4. FlowKnown(w)
    BY <1>1 DEF IInv, AllKnown
  <2>5. QED
    BY <1>1, <2>2, <2>3, <2>4 DEF FlowKnown
<1>2. IInv => NoFalseAlarm
  BY <1>1 DEF NoFalseAlarm
<1>3. QED
  BY <1>2, Invariance, PTL
=============================================================================
