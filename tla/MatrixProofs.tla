---------------------------- MODULE MatrixProofs ----------------------------
(***************************************************************************)
(* Theorems about Matrix, for any list of targets, whichever of them have  *)
(* a compose file, and any deadline.                                       *)
(*                                                                         *)
(* None of the three properties is inductive: each speaks of the end, or   *)
(* of a backing judged long ago.  What carries them is which targets are   *)
(* judged so far (Progress) and whose server has the port at each stage    *)
(* of the current one (OwnServer, TornDown).                               *)
(***************************************************************************)
EXTENDS Matrix, TLAPS, SequenceTheorems

AtTarget == stage \in {"down", "up", "health", "harness", "teardown"}

judged == Len(Targets) - Len(todo)

JudgedTargets == {Targets[i] : i \in 1 .. judged}

\* The targets before the current one are judged, each of them one way.
Progress ==
  /\ Len(todo) <= Len(Targets)
  /\ \A i \in 1 .. Len(todo) : todo[i] = Targets[judged + i]
  /\ PASS \cup FAIL = JudgedTargets
  /\ PASS \cap FAIL = {}
  /\ AtTarget => todo # <<>>

\* An exit code other than a refusal's or a signal's is that of the results.
ExitIsOfResults ==
  stage = "end" /\ exit \notin {3, 130} =>
     exit \in {0, 1} /\ todo = <<>> /\ (exit = 0 <=> FAIL = {})

\* From its start on, a stack that could be brought up has the port.
OwnServer ==
  ~ disturbed =>
    /\ occupant # "foreign"
    /\ stage = "up" => occupant = None
    /\ stage \in {"health", "harness"} => occupant = target

Tested(b) == tested[b] # None /\ (~ disturbed => tested[b] = b)

PassesTested == stage = "teardown" /\ smoke_rc = 0 => Tested(target)

\* Between two targets nothing has the port, once a stack was taken down.
TornDown ==
  /\ ~ KEEP_UP /\ ~ disturbed
  /\ stage \in {"check_emitter", "next"} \/ (stage = "end" /\ exit \in {0, 1})
  /\ (PASS \cup FAIL) \cap Composable # {}
  => occupant = None

IInv == /\ TypeOK
        /\ Progress
        /\ ExitIsOfResults
        /\ OwnServer
        /\ PassWasTested
        /\ PassesTested
        /\ TornDown

-----------------------------------------------------------------------------
(* The list of targets.                                                    *)

\* The current target is the first that nobody judged.
LEMMA TargetIsNext ==
  ASSUME TypeOK, Progress, todo # <<>>
  PROVE  /\ judged \in Nat /\ judged + 1 \in 1 .. Len(Targets)
         /\ target = Targets[judged + 1]
         /\ target \in Backings
         /\ target \notin PASS \cup FAIL
<1>1. /\ Len(Targets) \in Nat /\ DOMAIN Targets = 1 .. Len(Targets)
      /\ Len(todo) \in Nat \ {0}
  BY LenProperties, EmptySeq, TargetsAreBackings DEF TypeOK
<1>2. judged \in Nat /\ judged + 1 \in 1 .. Len(Targets)
  BY <1>1 DEF judged, Progress
<1>3. target = Targets[judged + 1]
  <2>1. Head(todo) = todo[1]
    OBVIOUS
  <2>2. todo[1] = Targets[judged + 1]
    BY <1>1 DEF Progress
  <2>3. QED
    BY <2>1, <2>2 DEF target
<1>4. target \in Backings
  BY HeadTailProperties DEF TypeOK, target
<1>5. \A i \in 1 .. judged : Targets[i] # Targets[judged + 1]
  BY <1>1, <1>2, OneOfEachTarget
<1>6. QED
  BY <1>2, <1>3, <1>4, <1>5 DEF Progress, JudgedTargets

LEMMA JudgeTyped ==
  ASSUME TypeOK, Progress, todo # <<>>, NEW rc, Judge(rc)
  PROVE  /\ todo' \in Seq(Backings)
         /\ PASS' \subseteq Backings /\ FAIL' \subseteq Backings
         /\ stage' = "next" /\ elapsed' \in 0 .. HealthTimeout /\ smoke_rc' = 0
         /\ KEEP_UP' = KEEP_UP /\ exit' = exit
<1>1. target \in Backings
  BY TargetIsNext
<1>2. Tail(todo) \in Seq(Backings)
  BY HeadTailProperties DEF TypeOK
<1>3. QED
  BY <1>1, <1>2, CountsAreNatural DEF Judge, TypeOK

\* A judgement moves the list on by one, and judges no target twice.
LEMMA JudgeProgress ==
  ASSUME TypeOK, Progress, todo # <<>>, NEW rc, Judge(rc)
  PROVE  Progress'
<1>1. /\ Len(Targets) \in Nat /\ Len(todo) \in Nat \ {0}
      /\ DOMAIN Targets = 1 .. Len(Targets)
  BY LenProperties, EmptySeq, TargetsAreBackings DEF TypeOK
<1>2. /\ Len(todo') = Len(todo) - 1
      /\ \A i \in 1 .. Len(todo') : todo'[i] = todo[i + 1]
  BY HeadTailProperties DEF TypeOK, Judge
<1>3. judged' = judged + 1 /\ judged \in Nat
  BY <1>1, <1>2, TargetIsNext DEF judged
<1>4. \A i \in 1 .. Len(todo') : todo'[i] = Targets[judged' + i]
  <2>1. TAKE i \in 1 .. Len(todo')
  <2>2. i + 1 \in 1 .. Len(todo) /\ todo'[i] = todo[i + 1]
    BY <1>1, <1>2
  <2>3. todo[i + 1] = Targets[judged + (i + 1)]
    BY <2>2 DEF Progress
  <2>4. judged + (i + 1) = judged' + i
    BY <1>3, <1>1, <1>2
  <2>5. QED
    BY <2>2, <2>3, <2>4
<1>5. JudgedTargets' = JudgedTargets \cup {target}
  BY <1>3, TargetIsNext DEF JudgedTargets
<1>6. PASS' \cup FAIL' = PASS \cup FAIL \cup {target} /\ PASS' \cap FAIL' = {}
  BY TargetIsNext DEF Judge, Progress
<1>7. ~ AtTarget'
  BY DEF Judge, AtTarget
<1>8. QED
  BY <1>1, <1>2, <1>4, <1>5, <1>6, <1>7 DEF Progress

\* A step that leaves the list and the verdicts alone.
LEMMA ProgressKept ==
  ASSUME Progress, UNCHANGED <<todo, PASS, FAIL>>, AtTarget' => AtTarget \/ todo # <<>>
  PROVE  Progress'
  BY DEF Progress, JudgedTargets, judged

-----------------------------------------------------------------------------
(* The inductive invariant, action by action.                              *)

LEMMA InitIInv == Init => IInv
<1>1. SUFFICES ASSUME Init PROVE IInv
  OBVIOUS
<1>2. Targets \in Seq(Backings) /\ Len(Targets) \in Nat
  BY LenProperties, TargetsAreBackings
<1>3. TypeOK
  <2>1. tested \in [Backings -> {None, "foreign"} \cup Backings]
    BY <1>1 DEF Init
  <2>2. elapsed \in 0 .. HealthTimeout
    BY <1>1, CountsAreNatural DEF Init
  <2>3. QED
    BY <1>1, <1>2, <2>1, <2>2 DEF Init, TypeOK
<1>4. Progress
  <2>1. judged = 0
    BY <1>1, <1>2 DEF Init, judged
  <2>2. \A i \in 1 .. Len(todo) : todo[i] = Targets[judged + i]
    BY <1>1, <1>2, <2>1 DEF Init
  <2>3. JudgedTargets = {}
    BY <2>1 DEF JudgedTargets
  <2>4. QED
    BY <1>1, <1>2, <2>2, <2>3 DEF Init, Progress, AtTarget
<1>5. ExitIsOfResults /\ PassWasTested /\ PassesTested /\ TornDown
  BY <1>1 DEF Init, ExitIsOfResults, PassWasTested, PassesTested, TornDown
<1>6. OwnServer
  BY <1>1, ForeignIsNoBacking DEF Init, OwnServer
<1>7. QED
  BY <1>3, <1>4, <1>5, <1>6 DEF IInv

\* The script stops where it is.
LEMMA LeaveKeeps ==
  ASSUME IInv, NEW code \in {0, 1, 3, 130}, Leave(code),
         UNCHANGED <<portVars, tested, disturbed>>,
         code \in {0, 1} => /\ stage = "next" /\ todo = <<>>
                            /\ code = 0 <=> FAIL = {}
  PROVE  IInv'
<1>1. TypeOK'
  BY DEF IInv, TypeOK, Leave, portVars
<1>2. Progress'
  BY ProgressKept DEF IInv, Leave, AtTarget
<1>3. ExitIsOfResults'
  BY DEF IInv, Leave, ExitIsOfResults
<1>4. OwnServer' /\ PassWasTested' /\ PassesTested'
  BY DEF IInv, Leave, portVars, OwnServer, PassWasTested, Tested, PassesTested
<1>5. TornDown'
  BY DEF IInv, Leave, portVars, TornDown
<1>6. QED
  BY <1>1, <1>2, <1>3, <1>4, <1>5 DEF IInv

LEMMA CheckEmitterKeeps == ASSUME IInv, CheckEmitter PROVE IInv'
<1>1. CASE Leave(3)
  BY <1>1, LeaveKeeps DEF CheckEmitter
<1>2. CASE Goto("next")
  <2>1. TypeOK'
    BY <1>2 DEF CheckEmitter, Goto, IInv, TypeOK, portVars
  <2>2. Progress'
    BY <1>2, ProgressKept DEF CheckEmitter, Goto, IInv, AtTarget
  <2>3. ExitIsOfResults' /\ OwnServer' /\ PassWasTested' /\ PassesTested'
    BY <1>2 DEF CheckEmitter, Goto, IInv, portVars, ExitIsOfResults, OwnServer,
                PassWasTested, Tested, PassesTested
  <2>4. TornDown'
    BY <1>2 DEF CheckEmitter, Goto, IInv, portVars, TornDown
  <2>5. QED
    BY <2>1, <2>2, <2>3, <2>4 DEF IInv
<1>3. QED
  BY <1>1, <1>2 DEF CheckEmitter

LEMMA BeginKeeps == ASSUME IInv, Begin PROVE IInv'
<1>1. CASE target \in Composable /\ Goto("down")
  <2>1. TypeOK'
    BY <1>1 DEF Begin, Goto, IInv, TypeOK, portVars
  <2>2. Progress'
    BY <1>1, ProgressKept DEF Begin, Goto, IInv
  <2>3. ExitIsOfResults' /\ OwnServer' /\ PassWasTested' /\ PassesTested' /\ TornDown'
    BY <1>1 DEF Begin, Goto, IInv, portVars, ExitIsOfResults, OwnServer,
                PassWasTested, Tested, PassesTested, TornDown
  <2>4. QED
    BY <2>1, <2>2, <2>3 DEF IInv
<1>2. CASE target \notin Composable /\ Judge(2)
  <2>1. TypeOK'
    BY <1>2, JudgeTyped DEF Begin, IInv, TypeOK, portVars
  <2>2. Progress'
    BY <1>2, JudgeProgress DEF Begin, IInv
  <2>3. PASS' = PASS /\ FAIL' = FAIL \cup {target} /\ stage' = "next" /\ KEEP_UP' = KEEP_UP
    BY <1>2 DEF Judge
  <2>4. ExitIsOfResults' /\ OwnServer' /\ PassWasTested' /\ PassesTested'
    BY <2>3 DEF Begin, IInv, portVars, ExitIsOfResults, OwnServer,
                PassWasTested, Tested, PassesTested
  <2>5. TornDown'
    BY <1>2, <2>3 DEF Begin, IInv, portVars, TornDown
  <2>6. QED
    BY <2>1, <2>2, <2>4, <2>5 DEF IInv
<1>3. QED
  BY <1>1, <1>2 DEF Begin

\* docker compose down leaves nothing of the script's own on the port, or docker failed.
LEMMA DownClears ==
  ASSUME TypeOK, OwnServer, NEW b, Down(b)
  PROVE  /\ occupant' \in {None, "foreign"} \cup Backings
         /\ health' \in {"starting", "healthy", "failed", "hung"}
         /\ disturbed' \in BOOLEAN
         /\ ~ disturbed' => ~ disturbed /\ occupant' = None
  BY DEF TypeOK, OwnServer, Down, Fails, portVars

LEMMA BringDownKeeps == ASSUME IInv, BringDown PROVE IInv'
<1>1. TypeOK'
  BY DownClears DEF BringDown, Goto, IInv, TypeOK
<1>2. Progress'
  BY ProgressKept DEF BringDown, Goto, IInv, AtTarget
<1>3. OwnServer' /\ PassWasTested'
  BY DownClears, ForeignIsNoBacking
  DEF BringDown, Goto, IInv, OwnServer, PassWasTested, Tested
<1>4. ExitIsOfResults' /\ PassesTested' /\ TornDown'
  BY DEF BringDown, Goto, ExitIsOfResults, PassesTested, TornDown
<1>5. QED
  BY <1>1, <1>2, <1>3, <1>4 DEF IInv

LEMMA BringUpKeeps == ASSUME IInv, BringUp PROVE IInv'
<1>1. todo # <<>> /\ target \in Backings /\ target \notin PASS
  BY TargetIsNext DEF IInv, Progress, BringUp, AtTarget
<1>2. TypeOK'
  BY <1>1 DEF BringUp, Up, Fails, portVars, Goto, IInv, TypeOK
<1>3. Progress'
  BY ProgressKept DEF BringUp, Goto, IInv, AtTarget
<1>4. OwnServer'
  <2>1. CASE disturbed'
    BY <2>1 DEF OwnServer
  <2>2. CASE ~ disturbed'
    <3>1. ~ disturbed /\ occupant = None /\ occupant' = target
      BY <2>2 DEF BringUp, Up, Fails, IInv, TypeOK, OwnServer
    <3>2. target' = target /\ stage' = "health"
      BY DEF BringUp, Goto, target
    <3>3. QED
      BY <1>1, <3>1, <3>2, ForeignIsNoBacking DEF OwnServer
  <2>3. QED
    BY <2>1, <2>2
<1>5. PassWasTested'
  BY DEF BringUp, Up, Fails, Goto, IInv, TypeOK, PassWasTested, Tested
<1>6. ExitIsOfResults' /\ PassesTested' /\ TornDown'
  BY DEF BringUp, Goto, ExitIsOfResults, PassesTested, TornDown
<1>7. QED
  BY <1>2, <1>3, <1>4, <1>5, <1>6 DEF IInv

LEMMA WaitHealthKeeps == ASSUME IInv, WaitHealth PROVE IInv'
<1>1. /\ stage = "health" /\ stage' \in {"health", "harness", "teardown"}
      /\ UNCHANGED <<KEEP_UP, todo, PASS, FAIL, exit, portVars, tested, disturbed>>
      /\ stage' = "teardown" => smoke_rc' = 4
      /\ smoke_rc' \in {smoke_rc, 4}
  BY DEF WaitHealth, Goto, GiveUp, Sleep
<1>2. elapsed' \in 0 .. HealthTimeout
  BY CountsAreNatural DEF WaitHealth, Goto, GiveUp, Sleep, IInv, TypeOK
<1>3. TypeOK'
  BY <1>1, <1>2 DEF IInv, TypeOK, portVars
<1>4. Progress'
  BY <1>1, ProgressKept DEF IInv, AtTarget
<1>5. OwnServer' /\ PassWasTested'
  BY <1>1 DEF IInv, portVars, OwnServer, PassWasTested, Tested, target
<1>6. ExitIsOfResults' /\ PassesTested' /\ TornDown'
  BY <1>1 DEF ExitIsOfResults, PassesTested, TornDown
<1>7. QED
  BY <1>3, <1>4, <1>5, <1>6 DEF IInv

\* The harness runs against whatever has the port, and says 0 only of a server.
LEMMA RunHarnessKeeps == ASSUME IInv, RunHarness PROVE IInv'
<1>1. todo # <<>> /\ target \in Backings /\ target \notin PASS /\ target' = target
  BY TargetIsNext DEF IInv, Progress, RunHarness, AtTarget, target
<1>2. tested' = [tested EXCEPT ![target] = occupant] /\ tested'[target] = occupant
  BY <1>1 DEF RunHarness, IInv, TypeOK
<1>3. TypeOK'
  <2>1. tested' \in [Backings -> {None, "foreign"} \cup Backings]
    BY <1>1, <1>2 DEF IInv, TypeOK
  <2>2. QED
    BY <2>1 DEF RunHarness, IInv, TypeOK, portVars
<1>4. Progress'
  BY ProgressKept DEF RunHarness, IInv, AtTarget
<1>5. PassWasTested'
  <2>1. \A b \in PASS : tested'[b] = tested[b]
    BY <1>1, <1>2 DEF IInv, TypeOK
  <2>2. QED
    BY <2>1 DEF RunHarness, IInv, PassWasTested
<1>6. PassesTested'
  <2>1. ~ disturbed => occupant = target
    BY DEF RunHarness, IInv, OwnServer
  <2>2. smoke_rc' = 0 => occupant # None
    BY DEF RunHarness, SeenHealthy
  <2>3. QED
    BY <1>1, <1>2, <2>1, <2>2 DEF RunHarness, PassesTested, Tested
<1>7. OwnServer'
  BY DEF RunHarness, IInv, portVars, OwnServer
<1>8. ExitIsOfResults' /\ TornDown'
  BY DEF RunHarness, ExitIsOfResults, TornDown
<1>9. QED
  BY <1>3, <1>4, <1>5, <1>6, <1>7, <1>8 DEF IInv

LEMMA TearDownKeeps == ASSUME IInv, TearDown PROVE IInv'
<1>1. todo # <<>> /\ stage = "teardown"
  BY DEF IInv, Progress, TearDown, AtTarget
<1>2. Judge(smoke_rc)
  BY DEF TearDown
<1>3. /\ stage' = "next" /\ KEEP_UP' = KEEP_UP
      /\ PASS' = IF smoke_rc = 0 THEN PASS \cup {target} ELSE PASS
  BY <1>2 DEF Judge
<1>4. /\ occupant' \in {None, "foreign"} \cup Backings
      /\ health' \in {"starting", "healthy", "failed", "hung"}
      /\ disturbed' \in BOOLEAN
      /\ ~ disturbed' => ~ disturbed /\ occupant' \in {occupant, None}
      /\ ~ disturbed' /\ ~ KEEP_UP => occupant' = None
  BY DownClears DEF TearDown, IInv, TypeOK, portVars
<1>5. TypeOK'
  BY <1>1, <1>2, <1>4, JudgeTyped DEF TearDown, IInv, TypeOK
<1>6. Progress'
  BY <1>1, <1>2, JudgeProgress DEF IInv
<1>7. OwnServer'
  BY <1>3, <1>4, ForeignIsNoBacking DEF IInv, OwnServer
<1>8. PassWasTested'
  BY <1>1, <1>3, <1>4 DEF TearDown, IInv, PassWasTested, PassesTested, Tested
<1>9. ExitIsOfResults' /\ PassesTested' /\ TornDown'
  BY <1>3, <1>4 DEF ExitIsOfResults, PassesTested, TornDown
<1>10. QED
  BY <1>5, <1>6, <1>7, <1>8, <1>9 DEF IInv

LEMMA ServerKeeps == ASSUME IInv, Server PROVE IInv'
<1>1. TypeOK'
  BY DEF Server, scriptVars, IInv, TypeOK
<1>2. Progress'
  BY ProgressKept DEF Server, scriptVars, IInv, AtTarget
<1>3. OwnServer' /\ PassWasTested' /\ PassesTested'
  BY DEF Server, scriptVars, IInv, OwnServer, PassWasTested, PassesTested, Tested, target
<1>4. ExitIsOfResults' /\ TornDown'
  BY DEF Server, scriptVars, IInv, ExitIsOfResults, TornDown
<1>5. QED
  BY <1>1, <1>2, <1>3, <1>4 DEF IInv

LEMMA ForeignKeeps == ASSUME IInv, Foreign PROVE IInv'
<1>1. disturbed' = TRUE /\ UNCHANGED <<scriptVars, tested>>
  BY DEF Foreign
<1>2. TypeOK'
  BY DEF Foreign, scriptVars, IInv, TypeOK
<1>3. Progress'
  BY <1>1, ProgressKept DEF scriptVars, IInv, AtTarget
<1>4. OwnServer' /\ TornDown' /\ PassWasTested' /\ PassesTested'
  BY <1>1 DEF scriptVars, IInv, OwnServer, TornDown, PassWasTested, PassesTested,
              Tested, target
<1>5. ExitIsOfResults'
  BY <1>1 DEF scriptVars, IInv, ExitIsOfResults
<1>6. QED
  BY <1>2, <1>3, <1>4, <1>5 DEF IInv

LEMMA StutterKeeps == ASSUME IInv, UNCHANGED vars PROVE IInv'
  BY ProgressKept
  DEF vars, scriptVars, portVars, IInv, TypeOK, AtTarget, ExitIsOfResults, OwnServer,
      PassWasTested, PassesTested, Tested, TornDown, target

-----------------------------------------------------------------------------
(* Theorems.                                                               *)

\* Every step of the script, of a server and of the operator keeps what is known of
\* the targets judged so far and of who has the port.
THEOREM Invariance == Spec => []IInv
<1>1. Init => IInv
  BY InitIInv
<1>2. IInv /\ [Next]_vars => IInv'
  <2>1. SUFFICES ASSUME IInv, [Next]_vars PROVE IInv'
    OBVIOUS
  <2>2. CASE Script
    BY <2>1, <2>2, CheckEmitterKeeps, BeginKeeps, BringDownKeeps, BringUpKeeps,
       WaitHealthKeeps, RunHarnessKeeps, TearDownKeeps, LeaveKeeps DEF Script, Command, Results
  <2>3. CASE Interrupt
    BY <2>1, <2>3, LeaveKeeps DEF Interrupt
  <2>4. CASE Server \/ Foreign
    BY <2>1, <2>4, ServerKeeps, ForeignKeeps
  <2>5. CASE UNCHANGED vars
    BY <2>1, <2>5, StutterKeeps
  <2>6. QED
    BY <2>1, <2>2, <2>3, <2>4, <2>5 DEF Next
<1>3. QED
  BY <1>1, <1>2, PTL DEF Spec

\* At the end of a script that was neither refused nor interrupted, every target is
\* judged, one way, and the exit code is 0 only when none failed: a backing whose
\* stack or harness fails does not end the matrix for those behind it.
THEOREM TargetsAreJudged == Spec => []EveryTargetJudged
<1>1. IInv => EveryTargetJudged
  <2>1. SUFFICES ASSUME IInv, stage = "end", exit \notin {3, 130}
                 PROVE  EveryTargetJudged
    BY DEF EveryTargetJudged
  <2>2. todo = <<>> /\ (exit = 0 <=> FAIL = {})
    BY <2>1 DEF IInv, ExitIsOfResults
  <2>3. DOMAIN Targets = 1 .. judged
    BY <2>2, LenProperties, TargetsAreBackings DEF judged
  <2>4. QED
    BY <2>1, <2>2, <2>3 DEF IInv, Progress, JudgedTargets, EveryTargetJudged
<1>2. QED
  BY <1>1, Invariance, PTL

\* A backing passes only by a harness that ran against a server, its own if docker did
\* what it was told and no other server came.
THEOREM PassesWereTested == Spec => []PassWasTested
  BY Invariance, PTL DEF IInv

\* After the results nothing of the script's is on the port, whatever had it when the
\* script began, unless the stacks were to be kept up or docker failed.
THEOREM StacksAreTakenDown == Spec => []NothingLeftUp
<1>1. IInv => NothingLeftUp
  BY DEF IInv, TornDown, NothingLeftUp
<1>2. QED
  BY <1>1, Invariance, PTL

\* The variables keep their types: the wait for a stack ends at its deadline at the
\* latest, and an exit code is one of those matrix.sh documents.
THEOREM Typed == Spec => []TypeOK
  BY Invariance, PTL DEF IInv
=============================================================================
