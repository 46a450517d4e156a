------------------------------- MODULE Matrix -------------------------------
(***************************************************************************)
(* The persistence matrix (conductor-smoke/matrix.sh): for one backing     *)
(* after the other, take down what is there, bring up the backing's stack, *)
(* wait until somebody says on CONDUCTOR_PORT that it is healthy, run a    *)
(* harness against that port, take the stack down, and judge the backing   *)
(* by the harness's exit code.                                             *)
(*                                                                         *)
(* run_one is the condition of an `if`, where `set -e` is off: a docker    *)
(* command that fails changes nothing and stops nothing.  All stacks are   *)
(* of one compose project, that of the directory their files are in, so    *)
(* that `down --remove-orphans` removes whichever of them is up.           *)
(***************************************************************************)
EXTENDS Optional, Sequences, Naturals

CONSTANTS Backings,       \* what --backing may name
          Targets,        \* TARGETS, in the order of the loop
          Composable,     \* backings with a compose file that exists
          HealthTimeout,  \* HEALTH_TIMEOUT, in turns of the 5 s loop
          FastFailFrom    \* the first turn at which it reads the logs

ASSUME TargetsAreBackings == Targets \in Seq(Backings) /\ Composable \subseteq Backings
ASSUME OneOfEachTarget == \A i, j \in DOMAIN Targets : Targets[i] = Targets[j] => i = j
ASSUME CountsAreNatural == HealthTimeout \in Nat /\ FastFailFrom \in Nat
ASSUME ForeignIsNoBacking == "foreign" \notin Backings \cup {None}

VARIABLES KEEP_UP,    \* --keep-up was given
          stage,      \* where the script is
          todo,       \* targets still to be judged, the current one first
          elapsed,    \* of wait_health
          smoke_rc,
          PASS, FAIL, \* the judged backings
          exit,       \* exit code, None before
          occupant,   \* the backing whose server has the port, "foreign" or None
          health,     \* of that server; a hung one accepts a probe and never answers
          tested,     \* history: whose server had the port when the harness ran
          disturbed   \* history: docker failed, or a foreign server came

scriptVars == <<KEEP_UP, stage, todo, elapsed, smoke_rc, PASS, FAIL, exit>>
portVars   == <<occupant, health>>
vars       == <<scriptVars, portVars, tested, disturbed>>

target == Head(todo)

Init ==
  /\ KEEP_UP \in BOOLEAN
  /\ stage = "check_emitter" /\ todo = Targets /\ elapsed = 0 /\ smoke_rc = 0
  /\ PASS = {} /\ FAIL = {} /\ exit = None
  /\ occupant \in {None} \cup Backings
  /\ health \in {"healthy", "failed", "hung"}
  /\ tested = [b \in Backings |-> None]
  /\ disturbed = FALSE

-----------------------------------------------------------------------------
(* docker compose, external.                                               *)

Fails == UNCHANGED portVars /\ disturbed' = TRUE

Down(b) ==
  \/ /\ occupant' = IF occupant = "foreign" THEN occupant ELSE None
     /\ UNCHANGED <<health, disturbed>>
  \/ Fails

\* The server cannot start while another has the port.
Up(b) ==
  \/ occupant = None /\ occupant' = b /\ health' = "starting" /\ UNCHANGED disturbed
  \/ occupant # None /\ UNCHANGED <<portVars, disturbed>>
  \/ Fails

-----------------------------------------------------------------------------
(* The script.                                                             *)

Goto(s) == stage' = s /\ UNCHANGED <<KEEP_UP, todo, elapsed, smoke_rc, PASS, FAIL, exit>>

Leave(code) ==
  stage' = "end" /\ exit' = code /\ UNCHANGED <<KEEP_UP, todo, elapsed, smoke_rc, PASS, FAIL>>

CheckEmitter ==
  /\ stage = "check_emitter"
  /\ Goto("next") \/ Leave(3)
  /\ UNCHANGED <<portVars, tested, disturbed>>

\* Mutation: run_one outside an `if`, so that `set -e` ends the script.
JudgeOrDie(rc) ==
  IF rc = 0
  THEN /\ PASS' = PASS \cup {target}
       /\ todo' = Tail(todo)
       /\ stage' = "next" /\ elapsed' = 0 /\ smoke_rc' = 0
       /\ UNCHANGED <<KEEP_UP, FAIL, exit>>
  ELSE Leave(rc)

Judge(rc) ==
  /\ IF rc = 0 THEN PASS' = PASS \cup {target} /\ UNCHANGED FAIL
               ELSE FAIL' = FAIL \cup {target} /\ UNCHANGED PASS
  /\ todo' = Tail(todo)
  /\ stage' = "next" /\ elapsed' = 0 /\ smoke_rc' = 0
  /\ UNCHANGED <<KEEP_UP, exit>>

Begin ==
  /\ stage = "next"
  /\ todo # <<>>
  /\ \/ target \in Composable /\ Goto("down")
     \/ target \notin Composable /\ Judge(2)
  /\ UNCHANGED <<portVars, tested, disturbed>>

\* Mutation: only the stack that is wanted is seen to.
BringDownSkipped == stage = "down" /\ Goto("up") /\ UNCHANGED <<portVars, tested, disturbed>>

BringDown == stage = "down" /\ Goto("up") /\ Down(target) /\ UNCHANGED tested

\* A build, when one is asked for, is under the same rule: its failure is ignored.
BringUp == stage = "up" /\ Goto("health") /\ Up(target) /\ UNCHANGED tested

SeenHealthy == occupant # None /\ health = "healthy"

SeenDead == elapsed >= FastFailFrom /\ occupant = target /\ health = "failed"

GiveUp ==
  stage' = "teardown" /\ smoke_rc' = 4 /\ UNCHANGED <<KEEP_UP, todo, elapsed, PASS, FAIL, exit>>

\* Mutation: the loop forgets to count.
SleepUncounted ==
  /\ ~ SeenHealthy /\ ~ SeenDead
  /\ UNCHANGED scriptVars

\* Mutation: the deadline is not looked at.
SleepUnbounded ==
  /\ ~ SeenHealthy /\ ~ SeenDead
  /\ elapsed' = elapsed + 1
  /\ UNCHANGED <<KEEP_UP, stage, todo, smoke_rc, PASS, FAIL, exit>>

Sleep ==
  /\ elapsed < HealthTimeout /\ ~ SeenHealthy /\ ~ SeenDead
  /\ elapsed' = elapsed + 1
  /\ UNCHANGED <<KEEP_UP, stage, todo, smoke_rc, PASS, FAIL, exit>>

\* The probe of a turn has no time limit: a hung server keeps it, and the deadline, which
\* is looked at between turns, with it.
Hung ==
  stage = "health" /\ elapsed < HealthTimeout /\ occupant # None /\ health = "hung"

\* One turn of the loop, which asks the port and reads the logs of the own stack.
WaitHealth ==
  /\ stage = "health"
  /\ ~ Hung
  /\ \/ elapsed < HealthTimeout /\ SeenHealthy /\ Goto("harness")
     \/ elapsed < HealthTimeout /\ ~ SeenHealthy /\ SeenDead /\ GiveUp
     \/ elapsed >= HealthTimeout /\ GiveUp
     \/ Sleep
  /\ UNCHANGED <<portVars, tested, disturbed>>

\* The harness can only pass against a server that is still there.
RunHarness ==
  /\ stage = "harness"
  /\ \E rc \in {0, 1, 3} : /\ rc = 0 => SeenHealthy
                           /\ smoke_rc' = rc
  /\ tested' = [tested EXCEPT ![target] = occupant]
  /\ stage' = "teardown"
  /\ UNCHANGED <<KEEP_UP, todo, elapsed, PASS, FAIL, exit, portVars, disturbed>>

\* Mutation: what failed is left up.
TearDownPassed ==
  /\ stage = "teardown"
  /\ Judge(smoke_rc)
  /\ IF KEEP_UP \/ smoke_rc # 0 THEN UNCHANGED <<portVars, disturbed>> ELSE Down(target)
  /\ UNCHANGED tested

TearDown ==
  /\ stage = "teardown"
  /\ Judge(smoke_rc)
  /\ IF KEEP_UP THEN UNCHANGED <<portVars, disturbed>> ELSE Down(target)
  /\ UNCHANGED tested

Results ==
  /\ stage = "next"
  /\ todo = <<>>
  /\ Leave(IF FAIL = {} THEN 0 ELSE 1)
  /\ UNCHANGED <<portVars, tested, disturbed>>

\* There is no trap: a SIGINT ends the script where it is.
Interrupt ==
  /\ stage # "end"
  /\ Leave(130)
  /\ UNCHANGED <<portVars, tested, disturbed>>

-----------------------------------------------------------------------------
(* The servers, external: one starts or does not, may hang, recover or die *)
(* at any time, and an operator's own comes and goes.                      *)

Server ==
  /\ occupant # None
  /\ health # "failed" /\ health' \in {"healthy", "failed", "hung"} \ {health}
  /\ UNCHANGED <<scriptVars, occupant, tested, disturbed>>

Foreign ==
  /\ \/ occupant = None /\ occupant' = "foreign" /\ health' \in {"healthy", "hung"}
     \/ occupant = "foreign" /\ occupant' = None /\ UNCHANGED health
  /\ disturbed' = TRUE
  /\ UNCHANGED <<scriptVars, tested>>

Command == \/ Begin \/ BringDown \/ BringUp \/ RunHarness \/ TearDown \/ Results

Script == CheckEmitter \/ WaitHealth \/ Command

Next == Script \/ Interrupt \/ Server \/ Foreign

Spec == Init /\ [][Next]_vars

\* docker and the harness end, and a probe of a server that answers, recovers or goes
\* away returns.  The check of the emitter has no time limit either and owes nothing, no
\* more than the servers and the operator do.
FairSpec == Spec /\ WF_vars(Command) /\ SF_vars(WaitHealth)

-----------------------------------------------------------------------------
(* Properties.                                                             *)

TypeOK ==
  /\ KEEP_UP \in BOOLEAN
  /\ stage \in {"check_emitter", "next", "down", "up", "health", "harness", "teardown", "end"}
  /\ todo \in Seq(Backings)
  /\ elapsed \in 0 .. HealthTimeout
  /\ smoke_rc \in {0, 1, 3, 4}
  /\ PASS \subseteq Backings /\ FAIL \subseteq Backings
  /\ exit \in {None, 0, 1, 3, 130}
  /\ occupant \in {None, "foreign"} \cup Backings
  /\ health \in {"starting", "healthy", "failed", "hung"}
  /\ tested \in [Backings -> {None, "foreign"} \cup Backings]
  /\ disturbed \in BOOLEAN

\* Whatever becomes of one backing, the others are judged too, each of them once, and
\* the exit code tells of any that failed.
EveryTargetJudged ==
  stage = "end" /\ exit \notin {3, 130} =>
     /\ PASS \cup FAIL = {Targets[i] : i \in DOMAIN Targets}
     /\ PASS \cap FAIL = {}
     /\ exit = 0 <=> FAIL = {}

\* A backing passes only by a harness that ran to the end against a server; and that
\* was the backing's own, not one left by the target before or by an earlier matrix,
\* unless docker failed or a foreign server came.
PassWasTested ==
  \A b \in PASS : tested[b] # None /\ (~ disturbed => tested[b] = b)

\* Nothing is left on the port, of passing and of failing backings, unless it was to
\* be kept, docker failed or the script was interrupted.
NothingLeftUp ==
  /\ stage = "end" /\ exit \in {0, 1}
  /\ ~ KEEP_UP /\ ~ disturbed
  /\ (PASS \cup FAIL) \cap Composable # {}
  => occupant = None

\* Once past the check of the emitter the matrix ends, also with stacks that fail, or
\* refuse or deny every probe until the deadline, unless a server on the port takes a
\* probe and keeps it for ever.
MatrixEnds == <>(stage # "check_emitter") => <>(stage = "end") \/ <>[]Hung

\* "drive smoke.py against conductor with each persistence backing" (matrix.sh, line
\* 2): a backing that passed was the one the harness ran against.
PassIsOfItsBacking == \A b \in PASS : tested[b] = b
=============================================================================
