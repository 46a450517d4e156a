---------------------------- MODULE SmokeProofs ----------------------------
(***************************************************************************)
(* Theorems about Smoke, for any number of cases and any selections.       *)
(*                                                                         *)
(* Cases that share a definition share its events, and a late event may    *)
(* complete a workflow that is not its own.  That a summary without a FAIL *)
(* is right about every case goes from the first to the last: when all     *)
(* earlier cases passed, their events are spent, so that the only event    *)
(* left for a case's workflow, until it is judged, is the case's own.      *)
(***************************************************************************)
EXTENDS Smoke, SequenceTheorems, TLAPS

\* Where the plan has the poll of a case; its fire and its start come just before.
Last(i) == IF driver = "smoke" THEN 5 * i ELSE 3 * i + 4

HookPlace(i) == IF driver = "smoke" THEN 5 * i - 3 ELSE i + 1
FirePlace(e) == IF driver = "replay" THEN <<4, 6, 10, 13>>[e] ELSE Last(e) - 1

Registered == IF driver = "replay" THEN {1} ELSE Judged
Fires      == IF driver = "replay" THEN 1 .. 4 ELSE Judged

Instances == [name : Names \cup {None}, matches : {{}, {"event"}},
              status : Terminal \cup {"RUNNING", "ABSENT"}, registered : BOOLEAN,
              by : Sources \cup {None}]

\* Where the driver is in its plan, and that a case is judged once its turn is over.
Turn ==
  /\ driver \in {"smoke", "multi", "replay"}
  /\ selected \in Selections \cup {<<>>}
  /\ at \in 0 .. Len(Plan) + 1
  /\ calling => at \in DOMAIN Plan /\ (\E e \in Sources : Plan[at] = <<"fire", e>>) /\ exit = None
  /\ exit \in {None, 0, 1, 2, 3}
  /\ verdict \in [Flows -> {None, "PASS", "FAIL"}]
  /\ exit = 0 => \A i \in Judged : verdict[i] = "PASS"
  /\ driver = "smoke" /\ exit \in {0, 1} => at = Len(Plan) + 1
  /\ driver = "smoke" /\ at >= 1 => \A i \in DOMAIN selected : selected[i] \in AllCases
  /\ \A i \in Judged : verdict[i] # None <=> Last(i) < at

\* What the driver was told, and the variables of the conductor and of the service: a
\* webhook is the one its case registers.
Servers ==
  /\ seen \in [Flows -> Terminal \cup {None, "TIMEOUT"}]
  /\ code \in [Sources -> {None, "2xx", "status"}]
  /\ \A e \in Sources : deliveries[e] = 1 <=> code[e] # None
  /\ defs \in [Names -> {None, {"event"}}]
  /\ DOMAIN hooks = Hooks
  /\ \A i \in Hooks : hooks[i] = None \/ hooks[i] = Config(i)
  /\ flows \in [Flows -> Instances]
  /\ deliveries \in [Sources -> {0, 1}]
  /\ told \in [Sources -> {"nothing", "fired", "refused", "unknown"}]

\* Until its case is over, a registered webhook is there.
HookKnown(i) ==
  HookPlace(i) < at /\ (driver = "smoke" => at <= Last(i)) => hooks[i] = Config(i)

\* No event exists before its turn.
EventKnown(e) ==
  told[e] # "nothing" \/ deliveries[e] = 1 => e \in Fires /\ FirePlace(e) <= at

\* There is at most one event of a case in the queue: this one.
Event(e) == [hook |-> HookOf(e), body |-> Body(HookOf(e)), by |-> e]

QueueKnown ==
  \A x \in queue : x.by \in Sources /\ deliveries[x.by] = 1 /\ x = Event(x.by)

\* No workflow exists before its turn; an event that completed one is spent.
FlowKnown(i) ==
  /\ flows[i].status # "ABSENT" =>
        /\ flows[i].name = NameOf(i)
        /\ driver # "replay" => i \in Judged /\ Last(i) - 2 <= at
  /\ flows[i].status = "COMPLETED" =>
        /\ flows[i].by \in Sources
        /\ deliveries[flows[i].by] = 1
        /\ NameOf(HookOf(flows[i].by)) = NameOf(i)
        /\ \A x \in queue : x.by # flows[i].by

\* If all cases before this one passed, its workflow is completed by nobody else until
\* its turn is over.
CaseKnown(i) ==
  /\ verdict[i] = "PASS" => flows[i].status = "COMPLETED" /\ code[i] = "2xx"
  /\ /\ \A j \in 1 .. i - 1 : verdict[j] = "PASS"
     /\ flows[i].status = "COMPLETED"
     /\ at <= Last(i) \/ verdict[i] = "PASS"
     => flows[i].by = i

\* Until the first poll is over there is only the first event.
ReplayKnown ==
  driver = "replay" =>
     /\ at <= 5 => seen[1] = None
     /\ at <= 5 /\ flows[1].status = "COMPLETED" => flows[1].by = 1
     /\ seen[1] = "COMPLETED" => flows[1].status = "COMPLETED" /\ flows[1].by = 1

IInv ==
  /\ Turn /\ Servers /\ QueueKnown /\ ReplayKnown
  /\ \A i \in Registered : HookKnown(i)
  /\ \A e \in Sources : EventKnown(e)
  /\ \A i \in Flows : FlowKnown(i)
  /\ \A i \in Judged : CaseKnown(i)

-----------------------------------------------------------------------------
(* The plans: where each step stands.                                      *)

\* Where a step stands in the plan of the verifiers, one after the other.
LEMMA FiveSteps ==
  ASSUME NEW n \in Nat \ {0}
  PROVE  \E i \in Nat \ {0}, k \in 1 .. 5 :
            /\ n = 5 * (i - 1) + k
            /\ (n - 1) % 5 = k - 1
            /\ 1 + (n - 1) \div 5 = i
<1> DEFINE q == (n - 1) \div 5  r == (n - 1) % 5
<1>1. q \in Nat /\ r \in 0 .. 4 /\ n - 1 = 5 * q + r
  OBVIOUS
<1> WITNESS q + 1 \in Nat \ {0}
<1> WITNESS r + 1 \in 1 .. 5
<1>2. QED
  BY <1>1

LEMMA SelectedTyped ==
  ASSUME selected \in Selections \cup {<<>>}
  PROVE  /\ selected \in Seq(Verifiers)
         /\ Len(selected) \in Nat /\ DOMAIN selected = 1 .. Len(selected)
         /\ Len(selected) <= Cases
<1>1. selected \in Seq(Verifiers) /\ Len(selected) <= Cases
  <2>1. CASE selected \in Selections
    BY <2>1, SelectionsFit
  <2>2. CASE selected = <<>>
    BY <2>2, EmptySeq, EnoughCases
  <2>3. QED
    BY <2>1, <2>2
<1>2. QED
  BY <1>1, LenProperties

LEMMA SmokePlanLength ==
  ASSUME selected \in Selections \cup {<<>>}
  PROVE  /\ DOMAIN SmokePlan = 1 .. 5 * Len(selected)
         /\ Len(SmokePlan) = 5 * Len(selected)
  BY SelectedTyped DEF SmokePlan

LEMMA MultiPlanSteps ==
  /\ Len(MultiPlan) = 13
  /\ DOMAIN MultiPlan = 1 .. 13
  /\ MultiPlan[1] = <<"define", 1>>
  /\ \A i \in 1 .. 3 : /\ MultiPlan[i + 1] = <<"hook", i>>
                       /\ MultiPlan[3 * i + 2] = <<"start", i>>
                       /\ MultiPlan[3 * i + 3] = <<"fire", i>>
                       /\ MultiPlan[3 * i + 4] = <<"poll", i>>
<1> DEFINE H == << <<"define", 1>>, <<"hook", 1>>, <<"hook", 2>>, <<"hook", 3>> >>
           T == [n \in 1 .. 9 |-> <<CaseSteps[3 + ((n - 1) % 3)], 1 + (n - 1) \div 3>>]
           S == {"define", "hook", "start", "fire", "poll"} \X (1 .. 3)
<1>1. CaseSteps[3] = "start" /\ CaseSteps[4] = "fire" /\ CaseSteps[5] = "poll"
  BY DEF CaseSteps
<1>2. /\ T[1] = <<"start", 1>> /\ T[2] = <<"fire", 1>> /\ T[3] = <<"poll", 1>>
      /\ T[4] = <<"start", 2>> /\ T[5] = <<"fire", 2>> /\ T[6] = <<"poll", 2>>
      /\ T[7] = <<"start", 3>> /\ T[8] = <<"fire", 3>> /\ T[9] = <<"poll", 3>>
  BY <1>1
<1>3. H \in Seq(S) /\ Len(H) = 4
  OBVIOUS
<1>4. T \in Seq(S) /\ Len(T) = 9
  <2>1. \A n \in 1 .. 9 : T[n] \in S
    BY <1>2
  <2>2. DOMAIN T = 1 .. 9
    OBVIOUS
  <2> HIDE DEF T, S
  <2>3. T \in [1 .. 9 -> S]
    <3>1. T = [n \in 1 .. 9 |-> T[n]]
      BY <2>2 DEF T
    <3>2. QED
      BY <2>1, <3>1
  <2>4. T \in Seq(S)
    BY <2>3, SeqDef
  <2>5. QED
    BY <2>2, <2>4, LenProperties
<1> HIDE DEF T, H, S
<1>5. MultiPlan = H \o T
  BY DEF MultiPlan, H, T
<1>6. /\ MultiPlan \in Seq(S) /\ Len(MultiPlan) = 13
      /\ \A n \in 1 .. 4 : MultiPlan[n] = H[n]
      /\ \A n \in 1 .. 9 : MultiPlan[n + 4] = T[n]
  <2>1. Len(H) + Len(T) = 13
    BY <1>3, <1>4
  <2>2. /\ \A n \in 1 .. 13 : MultiPlan[n] = IF n <= 4 THEN H[n] ELSE T[n - 4]
        /\ MultiPlan \in Seq(S) /\ Len(MultiPlan) = 13
    <3>1. /\ H \o T \in Seq(S) /\ Len(H \o T) = Len(H) + Len(T)
          /\ \A n \in 1 .. Len(H) + Len(T) :
                (H \o T)[n] = IF n <= Len(H) THEN H[n] ELSE T[n - Len(H)]
      BY <1>3, <1>4, ConcatProperties
    <3>2. QED
      BY <1>3, <1>5, <2>1, <3>1
  <2>3. ASSUME NEW n \in 1 .. 9 PROVE MultiPlan[n + 4] = T[n]
    <3>1. n + 4 \in 1 .. 13 /\ ~ (n + 4 <= 4) /\ (n + 4) - 4 = n
      OBVIOUS
    <3>2. QED
      BY <2>2, <3>1
  <2>4. QED
    BY <2>2, <2>3
<1>7. DOMAIN MultiPlan = 1 .. 13
  BY <1>6, LenProperties
<1>8. /\ H[1] = <<"define", 1>> /\ H[2] = <<"hook", 1>>
      /\ H[3] = <<"hook", 2>> /\ H[4] = <<"hook", 3>>
  BY DEF H
<1>9. /\ MultiPlan[1] = <<"define", 1>> /\ MultiPlan[2] = <<"hook", 1>>
      /\ MultiPlan[3] = <<"hook", 2>> /\ MultiPlan[4] = <<"hook", 3>>
  BY <1>6, <1>8
<1>10. /\ MultiPlan[5]  = <<"start", 1>> /\ MultiPlan[6] = <<"fire", 1>>
       /\ MultiPlan[7]  = <<"poll", 1>>  /\ MultiPlan[8] = <<"start", 2>>
       /\ MultiPlan[9]  = <<"fire", 2>>  /\ MultiPlan[10] = <<"poll", 2>>
       /\ MultiPlan[11] = <<"start", 3>> /\ MultiPlan[12] = <<"fire", 3>>
       /\ MultiPlan[13] = <<"poll", 3>>
  BY <1>2, <1>6
<1>11. QED
  BY <1>6, <1>7, <1>9, <1>10

LEMMA SmokePlanSteps ==
  ASSUME selected \in Selections \cup {<<>>}, NEW n \in DOMAIN SmokePlan,
         NEW op, NEW i, SmokePlan[n] = <<op, i>>
  PROVE  /\ i \in DOMAIN selected
         /\ \/ op = "define" /\ n = 5 * i - 4
            \/ op = "hook"   /\ n = 5 * i - 3
            \/ op = "start"  /\ n = 5 * i - 2
            \/ op = "fire"   /\ n = 5 * i - 1
            \/ op = "poll"   /\ n = 5 * i
<1>1. n \in 1 .. 5 * Len(selected) /\ Len(selected) \in Nat /\ DOMAIN selected = 1 .. Len(selected)
  BY SmokePlanLength, SelectedTyped
<1>2. PICK q \in Nat \ {0}, k \in 1 .. 5 :
        n = 5 * (q - 1) + k /\ (n - 1) % 5 = k - 1 /\ 1 + (n - 1) \div 5 = q
  <2>1. n \in Nat \ {0}
    BY <1>1
  <2>2. QED
    BY <2>1, FiveSteps
<1>3. SmokePlan[n] = <<CaseSteps[k], q>>
  <2>1. SmokePlan[n] = <<CaseSteps[1 + ((n - 1) % 5)], 1 + (n - 1) \div 5>>
    BY <1>1 DEF SmokePlan
  <2>2. 1 + (k - 1) = k
    OBVIOUS
  <2>3. QED
    BY <1>2, <2>1, <2>2
<1>4. op = CaseSteps[k] /\ i = q
  BY <1>3
<1>5. /\ CaseSteps[1] = "define" /\ CaseSteps[2] = "hook" /\ CaseSteps[3] = "start"
      /\ CaseSteps[4] = "fire" /\ CaseSteps[5] = "poll"
  BY DEF CaseSteps
<1>6. k = 1 \/ k = 2 \/ k = 3 \/ k = 4 \/ k = 5
  OBVIOUS
<1>7. i \in 1 .. Len(selected)
  BY <1>1, <1>2, <1>4
<1>8. QED
  BY <1>1, <1>2, <1>4, <1>5, <1>6, <1>7

LEMMA ReplayPlanSteps ==
  /\ Len(ReplayPlan) = 15
  /\ DOMAIN ReplayPlan = 1 .. 15
  /\ \A n \in 1 .. 15 : \A op, i :
       ReplayPlan[n] = <<op, i>> =>
          \/ op = "define" /\ n = 1 /\ i = 1
          \/ op = "hook"   /\ n = 2 /\ i = 1
          \/ op = "start"  /\ n = 3 /\ i = 1
          \/ op = "start"  /\ n > 5 /\ i \in {2, 3}
          \/ op = "fire"   /\ i \in 1 .. 4 /\ n = <<4, 6, 10, 13>>[i]
          \/ op = "poll"   /\ n = 5 /\ i = 1
          \/ op = "status" /\ n > 5
<1>1. Len(ReplayPlan) = 15 /\ DOMAIN ReplayPlan = 1 .. 15
  BY DEF ReplayPlan
<1>2. /\ ReplayPlan[1] = <<"define", 1>> /\ ReplayPlan[2] = <<"hook", 1>>
      /\ ReplayPlan[3] = <<"start", 1>> /\ ReplayPlan[4] = <<"fire", 1>>
      /\ ReplayPlan[5] = <<"poll", 1>> /\ ReplayPlan[6] = <<"fire", 2>>
      /\ ReplayPlan[7] = <<"status", 1>> /\ ReplayPlan[8] = <<"start", 2>>
      /\ ReplayPlan[9] = <<"start", 3>> /\ ReplayPlan[10] = <<"fire", 3>>
      /\ ReplayPlan[11] = <<"status", 2>> /\ ReplayPlan[12] = <<"status", 3>>
      /\ ReplayPlan[13] = <<"fire", 4>> /\ ReplayPlan[14] = <<"status", 2>>
      /\ ReplayPlan[15] = <<"status", 3>>
  BY DEF ReplayPlan
<1>3. ASSUME NEW n \in 1 .. 15, NEW op, NEW i, ReplayPlan[n] = <<op, i>>
      PROVE  \/ op = "define" /\ n = 1 /\ i = 1
             \/ op = "hook"   /\ n = 2 /\ i = 1
             \/ op = "start"  /\ n = 3 /\ i = 1
             \/ op = "start"  /\ n > 5 /\ i \in {2, 3}
             \/ op = "fire"   /\ i \in 1 .. 4 /\ n = <<4, 6, 10, 13>>[i]
             \/ op = "poll"   /\ n = 5 /\ i = 1
             \/ op = "status" /\ n > 5
  BY <1>2, <1>3
<1>4. QED
  BY <1>1, <1>3

LEMMA MultiPlanPlaces ==
  ASSUME NEW n \in 1 .. 13, NEW op, NEW i, MultiPlan[n] = <<op, i>>
  PROVE  /\ i \in 1 .. 3
         /\ \/ op = "define" /\ n = 1
            \/ op = "hook"   /\ n = i + 1
            \/ op = "start"  /\ n = 3 * i + 2
            \/ op = "fire"   /\ n = 3 * i + 3
            \/ op = "poll"   /\ n = 3 * i + 4
<1>1. n = 1 \/ (\E k \in 1 .. 3 : n = k + 1 \/ n = 3 * k + 2 \/ n = 3 * k + 3 \/ n = 3 * k + 4)
  OBVIOUS
<1>2. CASE n = 1
  BY <1>2, MultiPlanSteps
<1>3. ASSUME NEW k \in 1 .. 3, n = k + 1 \/ n = 3 * k + 2 \/ n = 3 * k + 3 \/ n = 3 * k + 4
      PROVE  /\ i = k
             /\ \/ op = "hook"  /\ n = k + 1
                \/ op = "start" /\ n = 3 * k + 2
                \/ op = "fire"  /\ n = 3 * k + 3
                \/ op = "poll"  /\ n = 3 * k + 4
  BY <1>3, MultiPlanSteps
<1>4. QED
  BY <1>1, <1>2, <1>3

\* The cases and the length of the plan.
LEMMA PlanFacts ==
  ASSUME driver \in {"smoke", "multi", "replay"}, selected \in Selections \cup {<<>>}
  PROVE  /\ DOMAIN Plan = 1 .. Len(Plan) /\ Len(Plan) \in Nat
         /\ \E m \in 0 .. Cases :
              /\ Judged = 1 .. m
              /\ driver = "smoke" => Len(Plan) = 5 * m /\ DOMAIN selected = 1 .. m
         /\ \A i \in Judged : i \in Flows /\ i \in Nat \ {0} /\ Last(i) <= Len(Plan)
         /\ driver = "replay" => Judged = {}
<1>1. CASE driver = "smoke"
  <2> DEFINE m == Len(selected)
  <2>1. m \in 0 .. Cases /\ DOMAIN selected = 1 .. m
    BY SelectedTyped, EnoughCases
  <2>2. Plan = SmokePlan /\ Judged = 1 .. m /\ \A i : Last(i) = 5 * i
    BY <1>1, <2>1 DEF Plan, Judged, Last
  <2>3. DOMAIN Plan = 1 .. 5 * m /\ Len(Plan) = 5 * m
    BY <2>2, SmokePlanLength
  <2> HIDE DEF m
  <2>4. \A i \in Judged : i \in Flows /\ i \in Nat \ {0} /\ Last(i) <= Len(Plan)
    BY <2>1, <2>2, <2>3, EnoughCases, Numbered
  <2>5. QED
    BY <1>1, <2>1, <2>2, <2>3, <2>4
<1>2. CASE driver = "multi"
  <2>1. Plan = MultiPlan /\ Judged = 1 .. 3 /\ \A i : Last(i) = 3 * i + 4
    BY <1>2 DEF Plan, Judged, Last
  <2>2. DOMAIN Plan = 1 .. 13 /\ Len(Plan) = 13
    BY <2>1, MultiPlanSteps
  <2>3. 3 \in 0 .. Cases
    BY EnoughCases
  <2>4. \A i \in Judged : i \in Flows /\ i \in Nat \ {0} /\ Last(i) <= Len(Plan)
    BY <2>1, <2>2, <2>3, EnoughCases, Numbered
  <2>5. QED
    BY <1>2, <2>1, <2>2, <2>3, <2>4
<1>3. CASE driver = "replay"
  <2>1. Plan = ReplayPlan /\ Judged = {}
    BY <1>3 DEF Plan, Judged
  <2>2. DOMAIN Plan = 1 .. 15 /\ Len(Plan) = 15
    BY <2>1, ReplayPlanSteps
  <2>3. Judged = 1 .. 0 /\ 0 \in 0 .. Cases
    BY <2>1, EnoughCases
  <2>4. QED
    BY <1>3, <2>1, <2>2, <2>3
<1>4. QED
  BY <1>1, <1>2, <1>3

\* The place of a step in the plan.
LEMMA StepPlace ==
  ASSUME driver \in {"smoke", "multi", "replay"}, selected \in Selections \cup {<<>>},
         NEW n \in DOMAIN Plan, NEW op, NEW i, Plan[n] = <<op, i>>
  PROVE  \/ driver # "replay" /\ i \in Judged
            /\ \/ op = "define" /\ n < Last(i)
                                /\ (driver = "smoke" => n = 5 * i - 4)
                                /\ (driver = "multi" => n = 1)
               \/ op = "hook"   /\ n = HookPlace(i)
               \/ op = "start"  /\ n = Last(i) - 2
               \/ op = "fire"   /\ n = FirePlace(i)
               \/ op = "poll"   /\ n = Last(i)
         \/ driver = "replay"
            /\ \/ op = "define" /\ n = 1 /\ i = 1
               \/ op = "hook"   /\ n = HookPlace(1) /\ i = 1
               \/ op = "start"  /\ n = 3 /\ i = 1
               \/ op = "start"  /\ n > 5 /\ i \in {2, 3}
               \/ op = "fire"   /\ i \in 1 .. 4 /\ n = FirePlace(i)
               \/ op = "poll"   /\ n = 5 /\ i = 1
               \/ op = "status" /\ n > 5
<1>1. CASE driver = "smoke"
  <2>1. Plan = SmokePlan
    BY <1>1 DEF Plan
  <2>2. /\ i \in DOMAIN selected
        /\ \/ op = "define" /\ n = 5 * i - 4
           \/ op = "hook"   /\ n = 5 * i - 3
           \/ op = "start"  /\ n = 5 * i - 2
           \/ op = "fire"   /\ n = 5 * i - 1
           \/ op = "poll"   /\ n = 5 * i
    BY <2>1, SmokePlanSteps
  <2>3. i \in Nat /\ i \in Judged
    BY <1>1, <2>2, SelectedTyped DEF Judged
  <2>4. Last(i) = 5 * i /\ HookPlace(i) = 5 * i - 3 /\ FirePlace(i) = 5 * i - 1
    BY <1>1 DEF Last, HookPlace, FirePlace
  <2>5. QED
    BY <1>1, <2>2, <2>3, <2>4
<1>2. CASE driver = "multi"
  <2>1. Plan = MultiPlan
    BY <1>2 DEF Plan
  <2>2. /\ i \in 1 .. 3
        /\ \/ op = "define" /\ n = 1
           \/ op = "hook"   /\ n = i + 1
           \/ op = "start"  /\ n = 3 * i + 2
           \/ op = "fire"   /\ n = 3 * i + 3
           \/ op = "poll"   /\ n = 3 * i + 4
    BY <2>1, MultiPlanPlaces, MultiPlanSteps
  <2>3. i \in Judged
    BY <1>2, <2>2 DEF Judged
  <2>4. Last(i) = 3 * i + 4 /\ HookPlace(i) = i + 1 /\ FirePlace(i) = (3 * i + 4) - 1
    BY <1>2 DEF Last, HookPlace, FirePlace
  <2>5. QED
    BY <1>2, <2>2, <2>3, <2>4
<1>3. CASE driver = "replay"
  <2>1. Plan = ReplayPlan
    BY <1>3 DEF Plan
  <2>2. HookPlace(1) = 2 /\ FirePlace(i) = <<4, 6, 10, 13>>[i]
    BY <1>3 DEF HookPlace, FirePlace
  <2>3. QED
    BY <1>3, <2>1, <2>2, ReplayPlanSteps
<1>4. QED
  BY <1>1, <1>2, <1>3

LEMMA LastSpaced ==
  ASSUME NEW i \in Nat, NEW j \in Nat, driver \in {"smoke", "multi", "replay"}
  PROVE  /\ Last(i) \in Nat /\ (i < j <=> Last(i) + 3 <= Last(j))
         /\ i = j <=> Last(i) = Last(j)
  BY DEF Last

\* What no step changes.
LEMMA SamePlan ==
  ASSUME UNCHANGED <<driver, selected>>
  PROVE  /\ Plan' = Plan /\ Judged' = Judged /\ Registered' = Registered /\ Fires' = Fires
         /\ \A i : /\ Last(i)' = Last(i) /\ HookPlace(i)' = HookPlace(i)
                   /\ FirePlace(i)' = FirePlace(i)
                   /\ NameOf(i)' = NameOf(i) /\ HookOf(i)' = HookOf(i)
                   /\ Config(i)' = Config(i) /\ Body(i)' = Body(i) /\ Event(i)' = Event(i)
  BY DEF Plan, SmokePlan, MultiPlan, ReplayPlan, Judged, Registered, Fires, Last, HookPlace,
     FirePlace, NameOf, HookOf, Config, Secret, Verifier, HeaderKey, HeaderValue, Body, Event

-----------------------------------------------------------------------------
(* The driver's turns.                                                     *)

\* A step that is nobody's last leads to the next.
LEMMA TurnAdvances ==
  ASSUME Turn, exit = None, ~ calling', at \in DOMAIN Plan, \A i \in Judged : at # Last(i),
         Advance, UNCHANGED verdict
  PROVE  Turn' /\ at <= at'
<1>1. /\ UNCHANGED <<driver, selected, exit, verdict>> /\ at' = at + 1
      /\ driver \in {"smoke", "multi", "replay"} /\ selected \in Selections \cup {<<>>}
  BY DEF Advance, Turn
<1>2. Plan' = Plan /\ Judged' = Judged /\ \A i : Last(i)' = Last(i)
  BY <1>1, SamePlan
<1>3. DOMAIN Plan = 1 .. Len(Plan) /\ Len(Plan) \in Nat /\ \A i \in Judged : Last(i) \in Nat
  BY <1>1, PlanFacts, LastSpaced
<1>4. at' \in 0 .. Len(Plan) + 1 /\ at >= 1
  BY <1>1, <1>3
<1>5. exit' # 0 /\ exit' \notin {0, 1}
  BY <1>1, NoneApart
<1>6. \A i \in Judged : Last(i) < at <=> Last(i) < at'
  BY <1>1, <1>3
<1>7. QED
  BY <1>1, <1>2, <1>4, <1>5, <1>6 DEF Turn

\* A case that fails or is judged is over, and no later one has begun.
LEMMA TurnOver ==
  ASSUME Turn, exit = None, ~ calling', NEW i \in Judged, at \in DOMAIN Plan, at <= Last(i),
         \A j \in Judged : j < i => Last(j) < at,
         NEW v \in {"PASS", "FAIL"}, verdict' = [verdict EXCEPT ![i] = v],
         at' = Last(i) + 1, UNCHANGED <<driver, selected, exit>>
  PROVE  Turn' /\ at <= at'
<1>1. driver \in {"smoke", "multi", "replay"} /\ selected \in Selections \cup {<<>>}
  BY DEF Turn
<1>2. Plan' = Plan /\ Judged' = Judged /\ \A j : Last(j)' = Last(j)
  BY SamePlan
<1>3. /\ DOMAIN Plan = 1 .. Len(Plan) /\ Len(Plan) \in Nat
      /\ \A j \in Judged : j \in Flows /\ j \in Nat /\ Last(j) \in Nat /\ Last(j) <= Len(Plan)
  BY <1>1, PlanFacts, LastSpaced
<1>4. at' \in 0 .. Len(Plan) + 1 /\ at >= 1 /\ at <= at'
  BY <1>3
<1>5. exit' # 0 /\ exit' \notin {0, 1}
  BY NoneApart
<1>6. verdict' \in [Flows -> {None, "PASS", "FAIL"}]
  BY DEF Turn
<1>7. ASSUME NEW j \in Judged PROVE verdict'[j] # None <=> Last(j) < at'
  <2>1. CASE j = i
    BY <1>3, <2>1, NoneApart DEF Turn
  <2>2. CASE j < i
    <3>1. Last(j) < at /\ Last(j) < at'
      BY <2>2, <1>3, <1>4
    <3>2. verdict'[j] = verdict[j]
      BY <1>3, <2>2 DEF Turn
    <3>3. QED
      BY <3>1, <3>2 DEF Turn
  <2>3. CASE i < j
    <3>1. ~ (Last(j) < at) /\ ~ (Last(j) < at')
      <4>1. Last(i) + 3 <= Last(j) /\ Last(i) \in Nat /\ Last(j) \in Nat
        BY <1>1, <1>3, <2>3, LastSpaced
      <4>2. at \in Nat
        BY <1>3
      <4>3. QED
        BY <4>1, <4>2
    <3>2. verdict'[j] = verdict[j]
      BY <1>3, <2>3 DEF Turn
    <3>3. QED
      BY <3>1, <3>2 DEF Turn
  <2>4. QED
    BY <1>3, <2>1, <2>2, <2>3
<1>8. QED
  BY <1>1, <1>2, <1>4, <1>5, <1>6, <1>7 DEF Turn

\* An ending other than the verdict's leaves the driver where it is.
LEMMA TurnEnds ==
  ASSUME Turn, exit = None, ~ calling', UNCHANGED verdict, NEW c \in {1, 2, 3}, End(c),
         driver = "smoke" => c # 1
  PROVE  Turn' /\ at' = at
<1>1. Plan' = Plan /\ Judged' = Judged /\ \A j : Last(j)' = Last(j)
  BY SamePlan DEF End
<1>2. QED
  BY <1>1 DEF Turn, End

\* A failure of step i, which is a step of case i for "smoke".
LEMMA TurnFails ==
  ASSUME Turn, exit = None, ~ calling', at \in DOMAIN Plan, NEW op, NEW i, Plan[at] = <<op, i>>,
         Fail(i)
  PROVE  /\ Turn' /\ at <= at'
         /\ \A j \in Flows : verdict'[j] = "PASS" => verdict[j] = "PASS"
<1>1. driver \in {"smoke", "multi", "replay"} /\ selected \in Selections \cup {<<>>}
      /\ at \in Nat
  BY PlanFacts DEF Turn
<1>2. CASE driver = "smoke"
  <2>1. i \in Judged /\ i \in Nat /\ Last(i) = 5 * i /\ at <= Last(i) /\ 5 * i - 4 <= at
    <3>1. i \in Judged /\ i \in Nat
      BY <1>1, <1>2, StepPlace, PlanFacts
    <3>2. Last(i) = 5 * i /\ HookPlace(i) = 5 * i - 3 /\ FirePlace(i) = 5 * i - 1
      BY <1>2, <3>1 DEF Last, HookPlace, FirePlace
    <3>3. at \in {5 * i - 4, 5 * i - 3, 5 * i - 2, 5 * i - 1, 5 * i}
      BY <1>1, <1>2, <3>1, <3>2, StepPlace
    <3>4. QED
      BY <3>1, <3>2, <3>3
  <2>2. ASSUME NEW j \in Judged, j < i PROVE Last(j) < at
    <3>1. j \in Nat /\ Last(j) = 5 * j
      BY <1>1, <1>2, PlanFacts DEF Last
    <3>2. QED
      BY <1>1, <2>1, <2>2, <3>1
  <2>3. /\ verdict' = [verdict EXCEPT ![i] = "FAIL"] /\ at' = Last(i) + 1
        /\ UNCHANGED <<driver, selected, exit>>
    BY <1>2, <2>1 DEF Fail
  <2>4. Turn' /\ at <= at'
    BY <2>1, <2>2, <2>3, TurnOver
  <2>5. \A j \in Flows : verdict'[j] = "PASS" => verdict[j] = "PASS"
    BY <2>3 DEF Turn
  <2>6. QED
    BY <2>4, <2>5
<1>3. CASE driver # "smoke"
  <2>1. End(1) /\ UNCHANGED verdict
    BY <1>3 DEF Fail
  <2>2. Turn' /\ at' = at
    BY <1>3, <2>1, TurnEnds
  <2>3. QED
    BY <1>1, <2>1, <2>2
<1>4. QED
  BY <1>2, <1>3

\* A call that is answered, or an exchange.
LEMMA TurnGoes ==
  ASSUME Turn, exit = None, ~ calling', at \in DOMAIN Plan, NEW op, NEW i, Plan[at] = <<op, i>>,
         op # "poll", (Advance /\ UNCHANGED verdict) \/ Fail(i)
  PROVE  /\ Turn' /\ at <= at' /\ UNCHANGED <<driver, selected>>
         /\ \A j \in Flows : verdict'[j] = "PASS" => verdict[j] = "PASS"
<1>1. driver \in {"smoke", "multi", "replay"} /\ selected \in Selections \cup {<<>>}
      /\ at \in Nat
  BY PlanFacts DEF Turn
<1>2. UNCHANGED <<driver, selected>>
  BY DEF Advance, Fail, End
<1>3. CASE Fail(i)
  BY <1>2, <1>3, TurnFails
<1>4. CASE Advance /\ UNCHANGED verdict
  <2>1. ASSUME NEW j \in Judged PROVE at # Last(j)
    <3>1. j \in Nat /\ driver # "replay"
      BY <1>1, PlanFacts
    <3>2. i \in Judged /\ i \in Nat
      BY <1>1, <3>1, StepPlace, PlanFacts
    <3>3. CASE driver = "smoke"
      BY <1>1, <3>1, <3>2, <3>3, StepPlace DEF Last, HookPlace, FirePlace
    <3>4. CASE driver = "multi"
      BY <1>1, <3>1, <3>2, <3>4, StepPlace DEF Last, HookPlace, FirePlace, Judged
    <3>5. QED
      BY <1>1, <3>1, <3>3, <3>4
  <2>2. QED
    BY <1>2, <1>4, <2>1, TurnAdvances
<1>5. QED
  BY <1>3, <1>4

\* Only its own step takes the driver past the place of a webhook.
LEMMA HooksPassed ==
  ASSUME Turn, exit = None, at \in DOMAIN Plan, NEW op, NEW k, Plan[at] = <<op, k>>,
         Advance \/ Fail(k), NEW i \in Registered, HookPlace(i) < at',
         driver = "smoke" => at' <= Last(i)
  PROVE  \/ HookPlace(i) < at /\ (driver = "smoke" => at <= Last(i))
         \/ op = "hook" /\ i = k /\ Advance
<1>1. /\ driver \in {"smoke", "multi", "replay"} /\ selected \in Selections \cup {<<>>}
      /\ at \in Nat
  BY PlanFacts DEF Turn
<1>2. CASE driver = "smoke"
  <2>1. i \in Nat /\ k \in Nat
    BY <1>1, <1>2, StepPlace, PlanFacts DEF Registered
  <2>2. /\ Last(i) = 5 * i /\ HookPlace(i) = 5 * i - 3
        /\ Last(k) = 5 * k /\ HookPlace(k) = 5 * k - 3 /\ FirePlace(k) = 5 * k - 1
    BY <1>2 DEF Last, HookPlace, FirePlace
  <2>3. CASE Advance
    <3>1. at' = at + 1
      BY <2>3 DEF Advance
    <3>2. HookPlace(i) = at => op = "hook" /\ i = k
      BY <1>1, <1>2, <2>1, <2>2, StepPlace
    <3>3. QED
      BY <1>1, <1>2, <2>1, <2>2, <2>3, <3>1, <3>2
  <2>4. CASE Fail(k)
    <3>1. at' = 5 * k + 1
      BY <1>2, <2>4 DEF Fail
    <3>2. QED
      BY <1>2, <2>1, <2>2, <3>1
  <2>5. QED
    BY <2>3, <2>4
<1>3. CASE driver # "smoke"
  <2>1. i \in Nat \ {0} /\ HookPlace(i) = i + 1 /\ (driver = "replay" => i = 1)
    BY <1>1, <1>3, PlanFacts DEF Registered, HookPlace
  <2>2. CASE Fail(k)
    BY <1>3, <2>2 DEF Fail, End
  <2>3. CASE Advance
    <3>1. at' = at + 1
      BY <2>3 DEF Advance
    <3>2. HookPlace(i) = at => op = "hook" /\ i = k
      <4>1. CASE driver = "multi"
        <5>1. k \in 1 .. 3 /\ i \in 1 .. 3
          BY <1>1, <4>1, StepPlace DEF Judged, Registered
        <5>2. Last(k) = 3 * k + 4 /\ HookPlace(k) = k + 1 /\ FirePlace(k) = (3 * k + 4) - 1
          BY <4>1 DEF Last, HookPlace, FirePlace
        <5>3. QED
          BY <1>1, <2>1, <4>1, <5>1, <5>2, StepPlace
      <4>2. CASE driver = "replay"
        <5>1. k \in 1 .. 4 => FirePlace(k) \in {4, 6, 10, 13}
          BY <4>2 DEF FirePlace
        <5>2. QED
          BY <1>1, <2>1, <4>2, <5>1, StepPlace
      <4>3. QED
        BY <1>1, <1>3, <4>1, <4>2
    <3>3. QED
      BY <1>1, <1>3, <2>1, <2>3, <3>1, <3>2
  <2>4. QED
    BY <2>2, <2>3
<1>4. QED
  BY <1>2, <1>3

-----------------------------------------------------------------------------
(* The invariant, action by action.                                        *)

\* Parts that mention the driver only by its plan and by how far it got.
Known == /\ QueueKnown
         /\ \A e \in Sources : EventKnown(e)
         /\ \A i \in Flows : FlowKnown(i)
         /\ \A i \in Judged : CaseKnown(i)

LEMMA PlacesTyped ==
  ASSUME Turn
  PROVE  /\ at \in Nat
         /\ \A i \in Judged : i \in Nat \ {0} /\ i \in Flows /\ Last(i) \in Nat
         /\ \A e \in Fires : FirePlace(e) \in Nat
         /\ \A i \in Registered : HookPlace(i) \in Nat /\ HookPlace(i) > 1
<1>1. driver \in {"smoke", "multi", "replay"} /\ selected \in Selections \cup {<<>>}
  BY DEF Turn
<1>2. at \in Nat /\ \A i \in Judged : i \in Nat \ {0} /\ i \in Flows /\ Last(i) \in Nat
  BY <1>1, PlanFacts, LastSpaced DEF Turn
<1>3. ASSUME NEW e \in Fires PROVE FirePlace(e) \in Nat
  <2>1. CASE driver = "replay"
    BY <2>1 DEF Fires, FirePlace
  <2>2. CASE driver # "replay"
    <3>1. e \in Nat \ {0}
      BY <1>2, <2>2 DEF Fires
    <3>2. QED
      BY <3>1, <2>2 DEF FirePlace, Last
  <2>3. QED
    BY <2>1, <2>2
<1>4. ASSUME NEW i \in Registered PROVE HookPlace(i) \in Nat /\ HookPlace(i) > 1
  <2>1. i \in Nat \ {0}
    BY <1>2 DEF Registered
  <2>2. QED
    BY <2>1 DEF HookPlace
<1>5. QED
  BY <1>2, <1>3, <1>4

LEMMA StaysInPlan ==
  ASSUME Turn', UNCHANGED <<driver, selected>>
  PROVE  at' \in Nat
<1>1. (driver \in {"smoke", "multi", "replay"} /\ selected \in Selections \cup {<<>>})'
  BY DEF Turn
<1>2. Plan' = Plan /\ driver \in {"smoke", "multi", "replay"} /\ selected \in Selections \cup {<<>>}
  BY SamePlan, <1>1
<1>3. QED
  BY <1>2, PlanFacts DEF Turn

\* While no workflow changes, time only confirms what is known of the events.
LEMMA FactsOnward ==
  ASSUME IInv, Turn', at <= at', UNCHANGED <<driver, selected, flows, queue, deliveries, told>>
  PROVE  /\ QueueKnown'
         /\ \A e \in Sources : EventKnown(e)'
         /\ \A i \in Flows : FlowKnown(i)'
<1>1. /\ Judged' = Judged /\ Fires' = Fires
      /\ \A i : /\ Last(i)' = Last(i) /\ FirePlace(i)' = FirePlace(i)
                /\ NameOf(i)' = NameOf(i) /\ HookOf(i)' = HookOf(i) /\ Event(i)' = Event(i)
  BY SamePlan
<1>2. /\ at \in Nat /\ at' \in Nat
      /\ \A i \in Judged : Last(i) \in Nat
      /\ \A e \in Fires : FirePlace(e) \in Nat
  <2>1. at' \in Nat
    BY StaysInPlan
  <2>2. QED
    BY <2>1, PlacesTyped DEF IInv
<1>3. QueueKnown'
  BY <1>1 DEF IInv, QueueKnown
<1>4. ASSUME NEW e \in Sources PROVE EventKnown(e)'
  BY <1>1, <1>2 DEF IInv, EventKnown
<1>5. ASSUME NEW i \in Flows PROVE FlowKnown(i)'
  <2>1. FlowKnown(i)
    BY DEF IInv
  <2>2. HookOf(flows[i].by)' = HookOf(flows[i].by)
        /\ NameOf(HookOf(flows[i].by))' = NameOf(HookOf(flows[i].by))
    BY <1>1
  <2>3. QED
    BY <1>1, <1>2, <2>1, <2>2 DEF FlowKnown
<1>6. QED
  BY <1>3, <1>4, <1>5

LEMMA KnownOnward ==
  ASSUME IInv, Turn', at <= at',
         UNCHANGED <<driver, selected, flows, queue, deliveries, told, code>>,
         \A j \in Flows : verdict'[j] = "PASS" => verdict[j] = "PASS"
  PROVE  Known'
<1>1. Judged' = Judged /\ \A i : Last(i)' = Last(i)
  BY SamePlan
<1>2. /\ at \in Nat /\ at' \in Nat
      /\ \A i \in Judged : i \in Nat \ {0} /\ i \in Flows /\ Last(i) \in Nat
  <2>1. at' \in Nat
    BY StaysInPlan
  <2>2. QED
    BY <2>1, PlacesTyped DEF IInv
<1>3. ASSUME NEW i \in Judged PROVE CaseKnown(i)'
  <2>1. CaseKnown(i) /\ \A j \in 1 .. i - 1 : j \in Flows
    BY <1>2, Numbered, EnoughCases DEF IInv
  <2>2. QED
    BY <1>1, <1>2, <2>1 DEF CaseKnown
<1>4. QED
  BY <1>1, <1>3, FactsOnward DEF Known

LEMMA Assemble ==
  Turn /\ Servers /\ Known /\ ReplayKnown /\ (\A i \in Registered : HookKnown(i)) <=> IInv
  BY DEF IInv, Known

LEMMA InitHolds == Init => IInv
<1> SUFFICES ASSUME Init PROVE IInv
  OBVIOUS
<1>1. driver \in {"smoke", "multi", "replay"} /\ selected \in Selections \cup {<<>>} /\ at = 0
  BY DEF Init
<1>2. /\ DOMAIN Plan = 1 .. Len(Plan) /\ Len(Plan) \in Nat
      /\ \A i \in Judged : i \in Flows /\ Last(i) \in Nat
  BY <1>1, PlanFacts, LastSpaced
<1>3. Turn
  BY <1>1, <1>2, NoneApart DEF Init, Turn
<1>4. Servers
  BY Numbered, NoneApart DEF Init, Servers, ConductorInit, Service!Init, Absent, Instances
<1>5. Known
  BY <1>2, Numbered, NoneApart DEF Init, ConductorInit, Service!Init, Absent, Known, QueueKnown,
     EventKnown, FlowKnown, CaseKnown, Terminal
<1>6. ReplayKnown /\ \A i \in Registered : HookKnown(i)
  <2>1. \A i \in Registered : HookPlace(i) > 1 /\ HookPlace(i) \in Nat
    BY <1>3, PlacesTyped
  <2>2. 1 \in Flows
    BY Numbered, EnoughCases
  <2>3. QED
    BY <1>1, <2>1, <2>2, Numbered, NoneApart DEF Init, ConductorInit, Absent, ReplayKnown,
       HookKnown, Terminal
<1>7. QED
  BY <1>3, <1>4, <1>5, <1>6, Assemble

LEMMA BeginKeeps == ASSUME IInv, Begin PROVE IInv'
<1>1. UNCHANGED <<conductorVars, calling, judgeVars, code, serviceVars, driver, selected>>
  BY DEF Begin, Advance, End
<1>2. /\ Plan' = Plan /\ Judged' = Judged /\ Registered' = Registered
      /\ \A i : Last(i)' = Last(i) /\ HookPlace(i)' = HookPlace(i) /\ Config(i)' = Config(i)
  BY <1>1, SamePlan
<1>3. /\ DOMAIN Plan = 1 .. Len(Plan) /\ Len(Plan) \in Nat
      /\ \A i \in Judged : Last(i) \in Nat /\ Last(i) >= 1
  <2>1. driver \in {"smoke", "multi", "replay"} /\ selected \in Selections \cup {<<>>}
    BY DEF IInv, Turn
  <2>2. \A i \in Judged : i \in Nat \ {0}
    BY <2>1, PlanFacts
  <2>3. QED
    BY <2>1, <2>2, PlanFacts DEF Last
<1>4. ~ calling /\ at = 0 /\ exit = None
  BY <1>3 DEF IInv, Turn, Begin
<1>5. at' \in {0, 1} /\ exit' \in {None, 2, 3} /\ (at' = 1 => exit' = None)
      /\ (at' = 1 /\ driver = "smoke" => \A i \in DOMAIN selected : selected[i] \in AllCases)
  BY <1>4 DEF Begin, Advance, End
<1>6. Turn'
  <2>1. exit' # 0 /\ exit' \notin {0, 1}
    BY <1>5, NoneApart
  <2>2. at' \in 0 .. Len(Plan) + 1
    BY <1>3, <1>5
  <2>3. \A i \in Judged : verdict'[i] # None <=> Last(i) < at'
    BY <1>1, <1>3, <1>4, <1>5 DEF IInv, Turn, judgeVars
  <2>4. QED
    BY <1>1, <1>2, <1>4, <1>5, <2>1, <2>2, <2>3 DEF IInv, Turn, judgeVars
<1>7. Servers'
  BY <1>1, <1>2 DEF IInv, Servers, conductorVars, judgeVars, serviceVars
<1>8. Known'
  BY <1>1, <1>4, <1>5, <1>6, KnownOnward DEF conductorVars, judgeVars, serviceVars
<1>9. ReplayKnown'
  BY <1>1, <1>4, <1>5 DEF IInv, ReplayKnown, conductorVars, judgeVars
<1>10. \A i \in Registered : HookPlace(i) \in Nat /\ HookPlace(i) > 1
  BY PlacesTyped DEF IInv
<1>11. \A i \in Registered' : HookKnown(i)'
  BY <1>2, <1>5, <1>10 DEF HookKnown
<1>12. QED
  BY <1>6, <1>7, <1>8, <1>9, <1>11, Assemble, Zenon DEF IInv, Known

LEMMA FinishKeeps == ASSUME IInv, Finish PROVE IInv'
<1>1. UNCHANGED <<conductorVars, calling, judgeVars, code, serviceVars, driver, selected, at>>
  BY DEF Finish, End
<1>2. /\ Plan' = Plan /\ Judged' = Judged /\ Registered' = Registered
      /\ \A i : Last(i)' = Last(i) /\ HookPlace(i)' = HookPlace(i) /\ Config(i)' = Config(i)
  BY <1>1, SamePlan
<1>3. DOMAIN Plan = 1 .. Len(Plan) /\ Len(Plan) \in Nat
  BY PlanFacts DEF IInv, Turn
<1>4. ~ calling /\ at = Len(Plan) + 1
  BY <1>3 DEF IInv, Turn, Finish
<1>5. exit' \in {0, 1} /\ (exit' = 0 => \A i \in Judged : verdict[i] = "PASS")
  BY DEF Finish, End
<1>6. Turn'
  BY <1>1, <1>2, <1>4, <1>5 DEF IInv, Turn, judgeVars
<1>7. Servers'
  BY <1>1, <1>2 DEF IInv, Servers, conductorVars, judgeVars, serviceVars
<1>8. Known'
  BY <1>1, <1>3, <1>4, <1>6, KnownOnward DEF conductorVars, judgeVars, serviceVars
<1>9. ReplayKnown'
  BY <1>1 DEF IInv, ReplayKnown, conductorVars, judgeVars
<1>10. \A i \in Registered' : HookKnown(i)'
  BY <1>1, <1>2 DEF IInv, HookKnown, conductorVars
<1>11. QED
  BY <1>6, <1>7, <1>8, <1>9, <1>10 DEF IInv, Known

\* The first poll of "replay" comes after everything that happens before step 5.
LEMMA ReplayOnward ==
  ASSUME IInv, at <= at', at' \in Nat, UNCHANGED <<driver, flows, seen>>
  PROVE  ReplayKnown'
  BY PlacesTyped DEF IInv, ReplayKnown

\* A step that registers nothing finds its webhooks where they were.
LEMMA HooksOnward ==
  ASSUME IInv, exit = None, at \in DOMAIN Plan, NEW op, NEW k, Plan[at] = <<op, k>>,
         Advance \/ Fail(k), op # "hook", UNCHANGED <<driver, selected, hooks>>
  PROVE  \A i \in Registered' : HookKnown(i)'
<1>1. /\ Registered' = Registered
      /\ \A i : Last(i)' = Last(i) /\ HookPlace(i)' = HookPlace(i) /\ Config(i)' = Config(i)
  BY SamePlan
<1>2. ASSUME NEW i \in Registered PROVE HookKnown(i)'
  <2>1. SUFFICES ASSUME HookPlace(i) < at', driver = "smoke" => at' <= Last(i)
                 PROVE  hooks[i] = Config(i)
    BY <1>1 DEF HookKnown
  <2>2. HookPlace(i) < at /\ (driver = "smoke" => at <= Last(i))
    BY <2>1, HooksPassed DEF IInv
  <2>3. QED
    BY <2>2 DEF IInv, HookKnown
<1>3. QED
  BY <1>1, <1>2

\* A step of the plan that is not a poll and that registers nothing.
LEMMA StepKeeps ==
  ASSUME IInv, exit = None, ~ calling', at \in DOMAIN Plan, NEW op, NEW k, Plan[at] = <<op, k>>,
         op \notin {"poll", "hook"}, (Advance /\ UNCHANGED verdict) \/ Fail(k),
         UNCHANGED <<hooks, flows, queue, seen, code, deliveries, told>>, Servers'
  PROVE  IInv'
<1>1. /\ Turn' /\ at <= at' /\ UNCHANGED <<driver, selected>>
      /\ \A j \in Flows : verdict'[j] = "PASS" => verdict[j] = "PASS"
  BY TurnGoes DEF IInv
<1>2. Known'
  BY <1>1, KnownOnward
<1>3. at' \in Nat
  BY <1>1, StaysInPlan
<1>4. ReplayKnown'
  BY <1>1, <1>3, ReplayOnward
<1>5. \A i \in Registered' : HookKnown(i)'
  BY <1>1, HooksOnward
<1>6. QED
  BY <1>1, <1>2, <1>4, <1>5 DEF IInv, Known

LEMMA DefineKeeps == ASSUME IInv, NEW i \in Flows, Define(i) PROVE IInv'
<1>1. /\ exit = None /\ at \in DOMAIN Plan /\ Plan[at] = <<"define", i>> /\ ~ calling'
      /\ UNCHANGED <<hooks, flows, queue, seen, code, deliveries, told>>
      /\ (Advance /\ UNCHANGED verdict) \/ Fail(i)
      /\ PutDef(NameOf(i), {"event"}) \/ UNCHANGED defs
  BY DEF Define, Is, Exchange, serviceVars
<1>2. UNCHANGED <<driver, selected>>
  BY <1>1 DEF Advance, Fail, End
<1>3. Servers'
  <2>1. defs' \in [Names -> {None, {"event"}}]
    BY <1>1 DEF IInv, Servers, PutDef
  <2>2. \A j : Config(j)' = Config(j)
    BY <1>2, SamePlan
  <2>3. QED
    BY <1>1, <2>1, <2>2 DEF IInv, Servers
<1>4. QED
  BY <1>1, <1>3, StepKeeps

LEMMA StatusKeeps == ASSUME IInv, NEW i \in Flows, Status(i) PROVE IInv'
<1>1. /\ exit = None /\ at \in DOMAIN Plan /\ Plan[at] = <<"status", i>> /\ ~ calling'
      /\ UNCHANGED <<conductorVars, hooks, flows, queue, seen, code, deliveries, told, verdict>>
      /\ Advance \/ End(1)
  BY DEF Status, Is, serviceVars, judgeVars, conductorVars
<1>2. UNCHANGED <<driver, selected>>
  BY <1>1 DEF Advance, End
<1>3. driver = "replay"
  BY <1>1, StepPlace DEF IInv, Turn
<1>4. Servers'
  <2>1. \A j : Config(j)' = Config(j)
    BY <1>2, SamePlan
  <2>2. QED
    BY <1>1, <2>1 DEF IInv, Servers, conductorVars
<1>5. (Advance /\ UNCHANGED verdict) \/ Fail(i)
  BY <1>1, <1>3 DEF Fail
<1>6. QED
  BY <1>1, <1>4, <1>5, StepKeeps

LEMMA RegisterWebhookKeeps == ASSUME IInv, NEW i \in Flows, RegisterWebhook(i) PROVE IInv'
<1>1. /\ exit = None /\ at \in DOMAIN Plan /\ Plan[at] = <<"hook", i>> /\ ~ calling'
      /\ UNCHANGED <<defs, flows, queue, seen, code, deliveries, told>>
      /\ (Advance /\ UNCHANGED verdict) \/ Fail(i)
      /\ CreateHook(i, Config(i)) \/ (UNCHANGED hooks /\ Fail(i))
  BY DEF RegisterWebhook, Is, Exchange, serviceVars
<1>2. /\ Turn' /\ at <= at' /\ UNCHANGED <<driver, selected>>
      /\ \A j \in Flows : verdict'[j] = "PASS" => verdict[j] = "PASS"
  BY <1>1, TurnGoes DEF IInv
<1>3. /\ Registered' = Registered
      /\ \A j : Last(j)' = Last(j) /\ HookPlace(j)' = HookPlace(j) /\ Config(j)' = Config(j)
  BY <1>2, SamePlan
<1>4. /\ i \in Hooks /\ DOMAIN hooks' = Hooks
      /\ \A j \in Hooks : hooks'[j] = hooks[j] \/ hooks'[j] = Config(j)
      /\ CreateHook(i, Config(i)) => hooks'[i] = Config(i)
  BY <1>1, Numbered DEF IInv, Servers, CreateHook
<1>5. Servers'
  BY <1>1, <1>3, <1>4 DEF IInv, Servers
<1>6. Known'
  BY <1>1, <1>2, KnownOnward
<1>7. at' \in Nat
  BY <1>2, StaysInPlan
<1>8. ReplayKnown'
  BY <1>1, <1>2, <1>7, ReplayOnward
<1>9. ASSUME NEW j \in Registered PROVE HookKnown(j)'
  <2>1. SUFFICES ASSUME HookPlace(j) < at', driver = "smoke" => at' <= Last(j)
                 PROVE  hooks'[j] = Config(j)
    BY <1>2, <1>3 DEF HookKnown
  <2>2. \/ HookPlace(j) < at /\ (driver = "smoke" => at <= Last(j))
        \/ j = i /\ Advance
    BY <1>1, <2>1, HooksPassed DEF IInv
  <2>3. CASE HookPlace(j) < at /\ (driver = "smoke" => at <= Last(j))
    <3>1. hooks[j] = Config(j)
      BY <2>3 DEF IInv, HookKnown
    <3>2. j \in Hooks
      BY Numbered, EnoughCases, PlacesTyped DEF Registered, IInv
    <3>3. QED
      BY <1>4, <3>1, <3>2
  <2>4. CASE j = i /\ Advance
    <3>1. ~ Fail(i)
      <4>1. CASE driver = "smoke"
        <5>1. i \in Nat /\ at = HookPlace(i) /\ HookPlace(i) = 5 * i - 3
          BY <1>1, <4>1, StepPlace, PlanFacts DEF HookPlace, IInv, Turn
        <5>2. QED
          BY <2>4, <4>1, <5>1 DEF Advance, Fail
      <4>2. CASE driver # "smoke"
        BY <1>1, <2>4, <4>2, NoneApart DEF Advance, Fail, End
      <4>3. QED
        BY <4>1, <4>2
    <3>2. QED
      BY <1>1, <1>4, <2>4, <3>1
  <2>5. QED
    BY <2>2, <2>3, <2>4
<1>10. QED
  BY <1>2, <1>3, <1>5, <1>6, <1>8, <1>9 DEF IInv, Known

\* A workflow that is started has never been judged, polled or completed.
LEMMA StartKeeps == ASSUME IInv, NEW i \in Flows, Start(i) PROVE IInv'
<1> DEFINE new == [name |-> NameOf(i), matches |-> defs[NameOf(i)], status |-> "RUNNING",
                   registered |-> FALSE, by |-> None]
<1>1. /\ exit = None /\ at \in DOMAIN Plan /\ Plan[at] = <<"start", i>> /\ ~ calling'
      /\ UNCHANGED <<defs, hooks, queue, seen, code, deliveries, told>>
      /\ (Advance /\ UNCHANGED verdict) \/ Fail(i)
      /\ \/ defs[NameOf(i)] # None /\ flows' = [flows EXCEPT ![i] = new]
         \/ UNCHANGED flows
  BY DEF Start, Is, Exchange, StartFlow, StartInstance, serviceVars
<1>2. /\ Turn' /\ at <= at' /\ UNCHANGED <<driver, selected>>
      /\ \A j \in Flows : verdict'[j] = "PASS" => verdict[j] = "PASS"
  BY <1>1, TurnGoes DEF IInv
<1>3. /\ Judged' = Judged /\ Fires' = Fires
      /\ \A j : /\ Last(j)' = Last(j) /\ FirePlace(j)' = FirePlace(j) /\ Config(j)' = Config(j)
                /\ NameOf(j)' = NameOf(j) /\ HookOf(j)' = HookOf(j) /\ Event(j)' = Event(j)
  BY <1>2, SamePlan
<1>4. /\ at \in Nat /\ at' \in Nat
      /\ \A j \in Judged : j \in Nat \ {0} /\ j \in Flows /\ Last(j) \in Nat
      /\ \A e \in Fires : FirePlace(e) \in Nat
  BY <1>2, StaysInPlan, PlacesTyped DEF IInv
<1>5. /\ driver # "replay" => i \in Judged /\ at = Last(i) - 2
      /\ driver = "replay" => i # 1 \/ at = 3
  BY <1>1, StepPlace DEF IInv, Turn
<1>6. \A j \in Flows : flows'[j] = flows[j] \/ (j = i /\ flows'[j] = new)
  BY <1>1 DEF IInv, Servers
<1>7. new.status = "RUNNING" /\ new.name = NameOf(i)
  OBVIOUS
<1>8. Servers'
  <2>1. flows' \in [Flows -> Instances]
    <3>1. CASE UNCHANGED flows
      BY <3>1 DEF IInv, Servers
    <3>2. CASE defs[NameOf(i)] # None /\ flows' = [flows EXCEPT ![i] = new]
      <4>1. NameOf(i) \in Names
        <5>1. CASE driver = "smoke"
          <6>1. i \in DOMAIN selected
            BY <1>5, <5>1 DEF Judged
          <6>2. selected[i] \in Verifiers
            BY <6>1, SelectedTyped DEF IInv, Turn
          <6>3. QED
            BY <5>1, <6>2, Named DEF NameOf
        <5>2. CASE driver # "smoke"
          BY <5>2, Named DEF NameOf, IInv, Turn
        <5>3. QED
          BY <5>1, <5>2
      <4>2. defs[NameOf(i)] = {"event"}
        BY <3>2, <4>1 DEF IInv, Servers
      <4>3. new \in Instances
        BY <4>1, <4>2 DEF Instances
      <4> HIDE DEF new
      <4>4. QED
        BY <3>2, <4>3 DEF IInv, Servers
    <3>3. QED
      BY <1>1, <3>1, <3>2
  <2>2. QED
    BY <1>1, <1>3, <2>1 DEF IInv, Servers
<1> HIDE DEF new
<1>9. QueueKnown'
  BY <1>1, <1>3 DEF IInv, QueueKnown
<1>10. ASSUME NEW e \in Sources PROVE EventKnown(e)'
  BY <1>1, <1>2, <1>3, <1>4 DEF IInv, EventKnown
<1>11. ASSUME NEW j \in Flows PROVE FlowKnown(j)'
  <2>1. FlowKnown(j)
    BY DEF IInv
  <2>2. CASE flows'[j] = flows[j]
    <3>1. HookOf(flows[j].by)' = HookOf(flows[j].by)
          /\ NameOf(HookOf(flows[j].by))' = NameOf(HookOf(flows[j].by))
      BY <1>3, <2>2
    <3>2. QED
      BY <1>1, <1>2, <1>3, <1>4, <2>1, <2>2, <3>1 DEF FlowKnown
  <2>3. CASE j = i /\ flows'[j] = new
    BY <1>2, <1>3, <1>4, <1>5, <1>7, <2>3 DEF FlowKnown
  <2>4. QED
    BY <1>6, <2>2, <2>3
<1>12. ASSUME NEW j \in Judged PROVE CaseKnown(j)'
  <2>1. CaseKnown(j) /\ j \in Flows /\ \A k \in 1 .. j - 1 : k \in Flows
    BY <1>4, Numbered, EnoughCases DEF IInv
  <2>2. CASE flows'[j] = flows[j]
    BY <1>1, <1>2, <1>3, <1>4, <2>1, <2>2 DEF CaseKnown
  <2>3. CASE j = i /\ flows'[j] = new
    <3>1. driver # "replay"
      BY PlanFacts DEF IInv, Turn
    <3>2. ~ (Last(j) < at)
      BY <1>4, <1>5, <2>3, <3>1
    <3>3. verdict[j] # "PASS"
      BY <3>2, NoneApart DEF IInv, Turn
    <3>4. verdict'[j] # "PASS"
      BY <1>2, <2>1, <3>3
    <3>5. QED
      BY <1>7, <2>3, <3>4 DEF CaseKnown
  <2>4. QED
    BY <1>6, <2>1, <2>2, <2>3
<1>13. ReplayKnown'
  <2>1. SUFFICES ASSUME driver = "replay"
                 PROVE  /\ at' <= 5 => seen[1] = None
                        /\ at' <= 5 /\ flows'[1].status = "COMPLETED" => flows'[1].by = 1
                        /\ seen[1] = "COMPLETED" =>
                             flows'[1].status = "COMPLETED" /\ flows'[1].by = 1
    BY <1>1, <1>2 DEF ReplayKnown
  <2>2. 1 \in Flows
    BY Numbered, EnoughCases
  <2>3. CASE flows'[1] = flows[1]
    BY <1>2, <1>4, <2>1, <2>3 DEF IInv, ReplayKnown
  <2>4. CASE i = 1 /\ flows'[1] = new
    <3>1. at <= 5
      BY <1>5, <2>1, <2>4
    <3>2. seen[1] = None
      BY <2>1, <3>1 DEF IInv, ReplayKnown
    <3>3. QED
      BY <1>7, <2>4, <3>2, NoneApart DEF Terminal
  <2>5. QED
    BY <1>6, <2>2, <2>3, <2>4
<1>14. \A j \in Registered' : HookKnown(j)'
  BY <1>1, <1>2, HooksOnward
<1>15. QED
  BY <1>2, <1>3, <1>8, <1>9, <1>10, <1>11, <1>12, <1>13, <1>14 DEF IInv

LEMMA FireKeeps == ASSUME IInv, NEW e \in Sources, Fire(e) PROVE IInv'
<1>1. /\ exit = None /\ at \in DOMAIN Plan /\ Plan[at] = <<"fire", e>>
      /\ UNCHANGED <<conductorVars, driver, selected, at, exit, judgeVars, code, serviceVars>>
  BY DEF Fire, Is
<1>2. /\ Plan' = Plan /\ Judged' = Judged /\ Registered' = Registered
      /\ \A i : Last(i)' = Last(i) /\ HookPlace(i)' = HookPlace(i) /\ Config(i)' = Config(i)
  BY <1>1, SamePlan
<1>3. Turn'
  BY <1>1, <1>2 DEF IInv, Turn, judgeVars
<1>4. Servers'
  BY <1>1, <1>2 DEF IInv, Servers, conductorVars, judgeVars, serviceVars
<1>5. at <= at' /\ at' \in Nat
  BY <1>1, PlacesTyped DEF IInv
<1>6. Known'
  BY <1>1, <1>3, <1>5, KnownOnward DEF conductorVars, judgeVars, serviceVars
<1>7. ReplayKnown'
  BY <1>1, <1>5, ReplayOnward DEF conductorVars, judgeVars
<1>8. \A i \in Registered' : HookKnown(i)'
  BY <1>1, <1>2 DEF IInv, HookKnown, conductorVars
<1>9. QED
  BY <1>3, <1>4, <1>6, <1>7, <1>8 DEF IInv, Known

LEMMA FireAnsweredKeeps == ASSUME IInv, NEW e \in Sources, FireAnswered(e) PROVE IInv'
<1>1. /\ calling /\ Plan[at] = <<"fire", e>> /\ ~ calling'
      /\ (Advance /\ UNCHANGED verdict) \/ Fail(e)
      /\ UNCHANGED <<defs, hooks, flows, queue, seen, code, deliveries>>
      /\ \E t \in {"fired", "refused", "unknown"} : told' = [told EXCEPT ![e] = t]
  BY DEF FireAnswered, conductorVars, Service!Fired, Service!Refused
<1>2. exit = None /\ at \in DOMAIN Plan
  BY <1>1 DEF IInv, Turn
<1>3. /\ Turn' /\ at <= at' /\ UNCHANGED <<driver, selected>>
      /\ \A j \in Flows : verdict'[j] = "PASS" => verdict[j] = "PASS"
  BY <1>1, <1>2, TurnGoes DEF IInv
<1>4. /\ Judged' = Judged /\ Fires' = Fires
      /\ \A j : /\ Last(j)' = Last(j) /\ FirePlace(j)' = FirePlace(j) /\ Config(j)' = Config(j)
                /\ NameOf(j)' = NameOf(j) /\ HookOf(j)' = HookOf(j) /\ Event(j)' = Event(j)
  BY <1>3, SamePlan
<1>5. /\ at \in Nat /\ at' \in Nat
      /\ \A j \in Judged : j \in Nat \ {0} /\ j \in Flows /\ Last(j) \in Nat
      /\ \A d \in Fires : FirePlace(d) \in Nat
  BY <1>3, StaysInPlan, PlacesTyped DEF IInv
<1>6. e \in Fires /\ at = FirePlace(e)
  BY <1>1, <1>2, StepPlace DEF IInv, Turn, Fires
<1>7. Servers'
  <2>1. told' \in [Sources -> {"nothing", "fired", "refused", "unknown"}]
    BY <1>1 DEF IInv, Servers
  <2>2. QED
    BY <1>1, <1>4, <2>1 DEF IInv, Servers
<1>8. QueueKnown'
  BY <1>1, <1>4 DEF IInv, QueueKnown
<1>9. ASSUME NEW d \in Sources PROVE EventKnown(d)'
  <2>1. CASE d = e
    BY <1>3, <1>4, <1>5, <1>6, <2>1 DEF EventKnown
  <2>2. CASE d # e
    <3>1. told'[d] = told[d]
      BY <1>1, <2>2 DEF IInv, Servers
    <3>2. QED
      BY <1>1, <1>3, <1>4, <1>5, <3>1 DEF IInv, EventKnown
  <2>3. QED
    BY <2>1, <2>2
<1>10. ASSUME NEW j \in Flows PROVE FlowKnown(j)'
  <2>1. FlowKnown(j) /\ HookOf(flows[j].by)' = HookOf(flows[j].by)
        /\ NameOf(HookOf(flows[j].by))' = NameOf(HookOf(flows[j].by))
    BY <1>1, <1>4 DEF IInv
  <2>2. QED
    BY <1>1, <1>3, <1>4, <1>5, <2>1 DEF FlowKnown
<1>11. ASSUME NEW j \in Judged PROVE CaseKnown(j)'
  <2>1. CaseKnown(j) /\ j \in Flows /\ \A k \in 1 .. j - 1 : k \in Flows
    BY <1>5, Numbered, EnoughCases DEF IInv
  <2>2. QED
    BY <1>1, <1>3, <1>4, <1>5, <2>1 DEF CaseKnown
<1>12. ReplayKnown'
  BY <1>1, <1>3, <1>5, ReplayOnward
<1>13. \A j \in Registered' : HookKnown(j)'
  BY <1>1, <1>2, <1>3, HooksOnward
<1>14. QED
  BY <1>3, <1>4, <1>7, <1>8, <1>9, <1>10, <1>11, <1>12, <1>13 DEF IInv

\* An event is accepted once, through the webhook of its case.
LEMMA DeliverKeeps == ASSUME IInv, NEW e \in Sources, Deliver(e) PROVE IInv'
<1>1. /\ UNCHANGED <<defs, hooks, flows, driver, selected, at, calling, exit, verdict, seen, told>>
      /\ (calling /\ Plan[at] = <<"fire", e>>) \/ told[e] # "nothing"
      /\ deliveries[e] = 0 /\ deliveries' = [deliveries EXCEPT ![e] = 1]
  BY DEF Deliver, driverVars, judgeVars, Service!Deliver
<1>2. PICK reply \in {"2xx", "status"} : code' = [code EXCEPT ![e] = reply]
  BY DEF Deliver
<1>3. queue' \subseteq queue \cup {Event(e)}
  BY DEF Deliver, Enqueue, Event
<1>4. /\ Plan' = Plan /\ Judged' = Judged /\ Registered' = Registered /\ Fires' = Fires
      /\ \A j : /\ Last(j)' = Last(j) /\ HookPlace(j)' = HookPlace(j)
                /\ FirePlace(j)' = FirePlace(j) /\ Config(j)' = Config(j)
                /\ NameOf(j)' = NameOf(j) /\ HookOf(j)' = HookOf(j) /\ Event(j)' = Event(j)
  BY <1>1, SamePlan
<1>5. e \in Fires /\ FirePlace(e) <= at
  <2>1. CASE told[e] # "nothing"
    BY <2>1 DEF IInv, EventKnown
  <2>2. CASE calling /\ Plan[at] = <<"fire", e>>
    <3>1. e \in Fires /\ FirePlace(e) = at
      BY <2>2, StepPlace DEF IInv, Turn, Fires
    <3>2. QED
      BY <3>1, PlacesTyped DEF IInv
  <2>3. QED
    BY <1>1, <2>1, <2>2
<1>6. Turn'
  BY <1>1, <1>4 DEF IInv, Turn
<1>7. /\ deliveries' \in [Sources -> {0, 1}] /\ deliveries'[e] = 1
      /\ \A d \in Sources \ {e} : deliveries'[d] = deliveries[d] /\ code'[d] = code[d]
      /\ code' \in [Sources -> {None, "2xx", "status"}] /\ code'[e] = reply
  BY <1>1, <1>2 DEF IInv, Servers
<1>8. Servers'
  <2>1. \A d \in Sources : deliveries'[d] = 1 <=> code'[d] # None
    BY <1>7, NoneApart DEF IInv, Servers
  <2>2. QED
    BY <1>1, <1>4, <1>7, <2>1 DEF IInv, Servers
<1>9. QueueKnown'
  <2>1. Event(e).by = e
    BY DEF Event
  <2>2. ASSUME NEW x \in queue'
        PROVE  x.by \in Sources /\ deliveries'[x.by] = 1 /\ x = Event(x.by)
    BY <1>3, <1>7, <2>1 DEF IInv, QueueKnown
  <2>3. QED
    BY <1>4, <2>2 DEF QueueKnown
<1>10. ASSUME NEW d \in Sources PROVE EventKnown(d)'
  BY <1>1, <1>4, <1>5, <1>7 DEF IInv, EventKnown
<1>11. ASSUME NEW j \in Flows PROVE FlowKnown(j)'
  <2>1. FlowKnown(j) /\ HookOf(flows[j].by)' = HookOf(flows[j].by)
        /\ NameOf(HookOf(flows[j].by))' = NameOf(HookOf(flows[j].by))
    BY <1>1, <1>4 DEF IInv
  <2>2. CASE flows[j].status = "COMPLETED"
    <3>1. flows[j].by \in Sources \ {e} /\ deliveries'[flows[j].by] = 1
      BY <1>1, <1>7, <2>1, <2>2 DEF FlowKnown
    <3>2. Event(e).by = e
      BY DEF Event
    <3>3. \A x \in queue' : x.by # flows[j].by
      BY <1>3, <2>1, <2>2, <3>1, <3>2 DEF FlowKnown
    <3>4. QED
      BY <1>1, <1>4, <2>1, <2>2, <3>1, <3>3 DEF FlowKnown
  <2>3. CASE flows[j].status # "COMPLETED"
    BY <1>1, <1>4, <2>1, <2>3 DEF FlowKnown
  <2>4. QED
    BY <2>2, <2>3
<1>12. ASSUME NEW j \in Judged PROVE CaseKnown(j)'
  <2>1. CaseKnown(j) /\ j \in Sources
    BY PlacesTyped, Numbered, EnoughCases DEF IInv
  <2>2. code[j] = "2xx" => code'[j] = "2xx"
    BY <1>1, <1>7, <2>1, NoneApart DEF IInv, Servers
  <2>3. QED
    BY <1>1, <1>4, <2>1, <2>2 DEF CaseKnown
<1>13. ReplayKnown'
  BY <1>1 DEF IInv, ReplayKnown
<1>14. \A j \in Registered' : HookKnown(j)'
  BY <1>1, <1>4 DEF IInv, HookKnown
<1>15. QED
  BY <1>4, <1>6, <1>8, <1>9, <1>10, <1>11, <1>12, <1>13, <1>14 DEF IInv

\* A step of the plan that raised.
LEMMA FailKeeps ==
  ASSUME IInv, exit = None, ~ calling', at \in DOMAIN Plan, NEW op, NEW k, Plan[at] = <<op, k>>,
         op # "hook", Fail(k),
         UNCHANGED <<defs, hooks, flows, queue, seen, code, deliveries, told>>
  PROVE  IInv'
<1>1. UNCHANGED <<driver, selected>>
  BY DEF Fail, End
<1>2. Turn' /\ at <= at' /\ \A j \in Flows : verdict'[j] = "PASS" => verdict[j] = "PASS"
  BY TurnFails DEF IInv
<1>3. \A j : Config(j)' = Config(j)
  BY <1>1, SamePlan
<1>4. Servers'
  BY <1>3 DEF IInv, Servers
<1>5. Known'
  BY <1>1, <1>2, KnownOnward
<1>6. at' \in Nat
  BY <1>1, <1>2, StaysInPlan
<1>7. ReplayKnown'
  BY <1>1, <1>2, <1>6, ReplayOnward
<1>8. \A i \in Registered' : HookKnown(i)'
  BY <1>1, HooksOnward
<1>9. QED
  BY <1>2, <1>4, <1>5, <1>7, <1>8, Assemble DEF IInv, Known

\* What a poll returned: the status of the workflow, or that the time is over.
LEMMA PolledKeeps ==
  ASSUME IInv, NEW i \in Flows, Is("poll", i), NEW s, Polled(i, s),
         (s \in Terminal /\ s = flows[i].status) \/ s = "TIMEOUT",
         UNCHANGED <<conductorVars, calling, code, serviceVars>>
  PROVE  IInv'
<1> DEFINE v == IF Passes(i, s) THEN "PASS" ELSE "FAIL"
<1>1. /\ exit = None /\ at \in DOMAIN Plan /\ Plan[at] = <<"poll", i>> /\ ~ calling'
      /\ seen' = [seen EXCEPT ![i] = s] /\ Advance
      /\ UNCHANGED <<defs, hooks, flows, queue, calling, code, deliveries, told>>
      /\ UNCHANGED <<driver, selected, exit>> /\ at' = at + 1
      /\ driver = "replay" => UNCHANGED verdict
      /\ driver # "replay" => verdict' = [verdict EXCEPT ![i] = v]
  BY DEF Is, Polled, Advance, conductorVars, serviceVars
<1>2. /\ at \in Nat /\ at <= at' /\ at' \in Nat
      /\ \A j \in Judged : j \in Nat \ {0} /\ j \in Flows /\ Last(j) \in Nat
      /\ driver \in {"smoke", "multi", "replay"} /\ selected \in Selections \cup {<<>>}
  BY <1>1, PlacesTyped DEF IInv, Turn
<1>3. /\ Judged' = Judged
      /\ \A j : Last(j)' = Last(j) /\ Config(j)' = Config(j)
  BY <1>1, SamePlan
<1>4. Servers'
  <2>1. seen' \in [Flows -> Terminal \cup {None, "TIMEOUT"}]
    BY <1>1 DEF IInv, Servers
  <2>2. QED
    BY <1>1, <1>3, <2>1 DEF IInv, Servers
<1>5. \A j \in Registered' : HookKnown(j)'
  BY <1>1, HooksOnward
<1>6. v \in {"PASS", "FAIL"} /\ (v = "PASS" => flows[i].status = "COMPLETED" /\ code[i] = "2xx")
  BY DEF Passes, Terminal
<1> HIDE DEF v
<1>7. CASE driver = "replay"
  <2>1. i = 1 /\ at = 5 /\ Judged = {}
    BY <1>1, <1>2, <1>7, StepPlace, PlanFacts
  <2>2. Turn'
    BY <1>1, <1>7, <2>1, TurnAdvances DEF IInv
  <2>3. Known'
    BY <1>1, <1>2, <1>7, <2>2, KnownOnward
  <2>4. ReplayKnown'
    <3>1. seen'[1] = s
      BY <1>1, <2>1 DEF IInv, Servers
    <3>2. s = "COMPLETED" => flows[1].status = "COMPLETED" /\ flows[1].by = 1
      BY <1>7, <2>1 DEF IInv, ReplayKnown
    <3>3. QED
      BY <1>1, <2>1, <3>1, <3>2 DEF ReplayKnown
  <2>5. QED
    BY <1>4, <1>5, <2>2, <2>3, <2>4, Assemble DEF IInv, Known
<1>8. CASE driver # "replay"
  <2>1. i \in Judged /\ at = Last(i)
    BY <1>1, <1>2, <1>8, StepPlace
  <2>2. ASSUME NEW j \in Judged, j < i PROVE Last(j) < at
    BY <1>2, <2>1, <2>2, LastSpaced
  <2>3. Turn'
    BY <1>1, <1>2, <1>6, <1>8, <2>1, <2>2, TurnOver DEF IInv
  <2>4. /\ verdict'[i] = v
        /\ \A j \in Flows : j # i => verdict'[j] = verdict[j]
    BY <1>1, <1>8 DEF IInv, Turn
  <2>5. ASSUME NEW k \in Judged PROVE CaseKnown(k)'
    <3>1. /\ CaseKnown(k) /\ k \in Nat /\ k \in Flows /\ Last(k) \in Nat
          /\ \A j \in 1 .. k - 1 : j \in Flows
      BY <1>2, Numbered, EnoughCases DEF IInv
    <3>2. CASE k = i
      <4>1. \A j \in 1 .. i - 1 : verdict'[j] = verdict[j]
        BY <2>4, <3>1, <3>2
      <4>2. QED
        BY <1>1, <1>3, <1>6, <2>1, <2>4, <3>1, <3>2, <4>1 DEF CaseKnown
    <3>3. CASE k < i
      <4>1. verdict'[k] = verdict[k] /\ \A j \in 1 .. k - 1 : verdict'[j] = verdict[j]
        BY <1>2, <2>1, <2>4, <3>1, <3>3
      <4>2. ~ (at' <= Last(k))
        BY <1>1, <1>2, <2>2, <3>1, <3>3
      <4>3. QED
        BY <1>1, <1>3, <3>1, <4>1, <4>2 DEF CaseKnown
    <3>4. CASE i < k
      <4>1. verdict'[k] = verdict[k]
        BY <2>4, <3>1, <3>4, <1>2, <2>1
      <4>2. Last(i) + 3 <= Last(k)
        BY <1>2, <2>1, <3>1, <3>4, LastSpaced
      <4>3. flows[k].status # "COMPLETED"
        BY <1>2, <1>8, <2>1, <3>1, <4>2 DEF IInv, FlowKnown
      <4>4. QED
        BY <1>1, <3>1, <4>1, <4>3 DEF CaseKnown
    <3>5. k = i \/ k < i \/ i < k
      <4>1. i \in Nat /\ k \in Nat
        BY <1>2, <2>1, <3>1
      <4>2. QED
        BY <4>1
    <3>6. QED
      BY <3>2, <3>3, <3>4, <3>5
  <2>6. Known'
    BY <1>1, <1>2, <1>3, <2>3, <2>5, FactsOnward DEF Known
  <2>7. ReplayKnown'
    BY <1>1, <1>8 DEF ReplayKnown
  <2>8. QED
    BY <1>4, <1>5, <2>3, <2>6, <2>7, Assemble DEF IInv, Known
<1>9. QED
  BY <1>7, <1>8

LEMMA Stutter == ASSUME IInv, UNCHANGED vars PROVE IInv'
<1>1. UNCHANGED <<driver, selected, at, exit, calling, verdict, seen, code, deliveries, told,
                  defs, hooks, flows, queue>>
  BY DEF vars, conductorVars, driverVars, judgeVars, serviceVars
<1>2. /\ Plan' = Plan /\ Judged' = Judged /\ Registered' = Registered
      /\ \A i : Last(i)' = Last(i) /\ HookPlace(i)' = HookPlace(i) /\ Config(i)' = Config(i)
  BY <1>1, SamePlan
<1>3. Turn' /\ Servers' /\ ReplayKnown' /\ \A i \in Registered' : HookKnown(i)'
  BY <1>1, <1>2 DEF IInv, Turn, Servers, ReplayKnown, HookKnown
<1>4. at <= at'
  BY <1>1, PlacesTyped DEF IInv
<1>5. Known'
  BY <1>1, <1>3, <1>4, KnownOnward
<1>6. QED
  BY <1>3, <1>5 DEF IInv, Known

LEMMA PollKeeps == ASSUME IInv, NEW i \in Flows, Poll(i) PROVE IInv'
<1>1. UNCHANGED <<conductorVars, calling, code, serviceVars>> /\ Is("poll", i)
  BY DEF Poll
<1>2. ASSUME NEW s \in {flows[i].status, "UNKNOWN"}, s \in Terminal, Polled(i, s) PROVE IInv'
  <2>1. s = flows[i].status
    BY <1>2 DEF Terminal
  <2>2. QED
    BY <1>1, <1>2, <2>1, PolledKeeps
<1>3. CASE UNCHANGED <<driver, selected, at, exit, judgeVars>>
  BY <1>1, <1>3, Stutter DEF vars, driverVars
<1>4. CASE Fail(i) /\ UNCHANGED seen
  BY <1>1, <1>4, FailKeeps DEF Is, conductorVars, serviceVars
<1>5. QED
  BY <1>2, <1>3, <1>4 DEF Poll

LEMMA PollTimesOutKeeps == ASSUME IInv, NEW i \in Flows, PollTimesOut(i) PROVE IInv'
  BY PolledKeeps DEF PollTimesOut

\* A step of the conductor completes no workflow, or those of one event.
LEMMA FlowsKeep ==
  ASSUME IInv, UNCHANGED <<defs, hooks, driverVars, judgeVars, code, serviceVars>>,
         queue' \subseteq queue, flows' \in [Flows -> Instances],
         \A j \in Flows :
            \/ flows'[j] = flows[j]
            \/ /\ flows[j].status = "RUNNING" /\ flows'[j].name = flows[j].name
               /\ \/ flows'[j].status \in {"RUNNING", "TERMINATED"}
                  \/ /\ flows'[j].by \in Sources
                     /\ deliveries[flows'[j].by] = 1
                     /\ NameOf(HookOf(flows'[j].by)) = NameOf(j)
                     /\ \E x \in queue : x.by = flows'[j].by
                     /\ \A x \in queue' : x.by # flows'[j].by
  PROVE  IInv'
<1>1. UNCHANGED <<driver, selected, at, exit, calling, verdict, seen, code, deliveries, told>>
  BY DEF driverVars, judgeVars, serviceVars
<1>2. /\ Plan' = Plan /\ Judged' = Judged /\ Registered' = Registered /\ Fires' = Fires
      /\ \A j : /\ Last(j)' = Last(j) /\ HookPlace(j)' = HookPlace(j)
                /\ FirePlace(j)' = FirePlace(j) /\ Config(j)' = Config(j)
                /\ NameOf(j)' = NameOf(j) /\ HookOf(j)' = HookOf(j) /\ Event(j)' = Event(j)
  BY <1>1, SamePlan
<1>3. /\ at \in Nat
      /\ \A j \in Judged : j \in Nat \ {0} /\ j \in Flows /\ Last(j) \in Nat
      /\ \A e \in Fires : FirePlace(e) \in Nat
  BY PlacesTyped DEF IInv
<1>4. Turn' /\ Servers' /\ \A i \in Registered' : HookKnown(i)'
  BY <1>1, <1>2 DEF IInv, Turn, Servers, HookKnown
<1>5. QueueKnown' /\ \A e \in Sources : EventKnown(e)'
  BY <1>1, <1>2 DEF IInv, QueueKnown, EventKnown
<1>6. ASSUME NEW j \in Flows PROVE FlowKnown(j)'
  <2>1. FlowKnown(j)
    BY DEF IInv
  <2>2. CASE flows'[j] = flows[j]
    <3>1. HookOf(flows[j].by)' = HookOf(flows[j].by)
          /\ NameOf(HookOf(flows[j].by))' = NameOf(HookOf(flows[j].by))
      BY <1>2, <2>2
    <3>2. QED
      BY <1>1, <1>2, <2>1, <2>2, <3>1 DEF FlowKnown
  <2>3. CASE flows[j].status = "RUNNING" /\ flows'[j].name = flows[j].name
    <3>1. flows[j].name = NameOf(j) /\ (driver # "replay" => j \in Judged /\ Last(j) - 2 <= at)
      BY <2>1, <2>3 DEF FlowKnown
    <3>2. CASE flows'[j].status \in {"RUNNING", "TERMINATED"}
      BY <1>1, <1>2, <2>3, <3>1, <3>2 DEF FlowKnown
    <3>3. CASE /\ flows'[j].by \in Sources
               /\ deliveries[flows'[j].by] = 1
               /\ NameOf(HookOf(flows'[j].by)) = NameOf(j)
               /\ \A x \in queue' : x.by # flows'[j].by
      <4>1. NameOf(HookOf(flows[j].by))' = NameOf(j)'
        BY <1>2, <3>3
      <4>2. QED
        BY <1>1, <1>2, <2>3, <3>1, <3>3, <4>1 DEF FlowKnown
    <3>4. QED
      BY <2>1, <2>2, <3>2, <3>3
  <2>4. QED
    BY <2>2, <2>3
<1>7. ASSUME NEW e \in Sources, deliveries[e] = 1 PROVE e \in Fires /\ FirePlace(e) <= at
  BY <1>7 DEF IInv, EventKnown
<1>8. ASSUME NEW i \in Judged PROVE CaseKnown(i)'
  <2>1. CaseKnown(i) /\ i \in Flows /\ i \in Nat \ {0} /\ \A j \in 1 .. i - 1 : j \in Flows
    BY <1>3, Numbered, EnoughCases DEF IInv
  <2>2. CASE flows'[i] = flows[i]
    BY <1>1, <1>2, <2>1, <2>2 DEF CaseKnown
  <2>3. CASE flows[i].status = "RUNNING"
    <3>1. verdict[i] # "PASS"
      BY <2>1, <2>3 DEF CaseKnown
    <3>2. SUFFICES ASSUME \A j \in 1 .. i - 1 : verdict[j] = "PASS",
                          flows'[i].status = "COMPLETED", at <= Last(i)
                   PROVE  flows'[i].by = i
      BY <1>1, <1>2, <3>1 DEF CaseKnown
    <3> DEFINE e == flows'[i].by
    <3>3. e \in Sources /\ deliveries[e] = 1 /\ \E x \in queue : x.by = e
      BY <2>1, <2>3, <3>2
    <3>4. driver # "replay" /\ driver \in {"smoke", "multi", "replay"}
      BY PlanFacts DEF IInv, Turn
    <3> HIDE DEF e
    <3>5. e \in Judged /\ Last(e) - 1 <= at
      BY <1>7, <3>3, <3>4 DEF Fires, FirePlace
    <3>6. e \in Nat \ {0} /\ e \in Flows /\ Last(e) \in Nat
      BY <1>3, <3>5
    <3>7. ~ (i < e)
      <4>1. i < e => Last(i) + 3 <= Last(e)
        BY <2>1, <3>4, <3>6, LastSpaced
      <4>2. QED
        BY <1>3, <3>2, <3>5, <3>6, <4>1
    <3>8. ~ (e < i)
      <4>1. SUFFICES ASSUME e < i PROVE FALSE
        OBVIOUS
      <4>2. verdict[e] = "PASS" /\ \A j \in 1 .. e - 1 : verdict[j] = "PASS"
        BY <2>1, <3>2, <3>6, <4>1
      <4>3. flows[e].status = "COMPLETED" /\ flows[e].by = e
        BY <3>5, <4>2 DEF IInv, CaseKnown
      <4>4. \A x \in queue : x.by # e
        BY <3>6, <4>3 DEF IInv, FlowKnown
      <4>5. QED
        BY <3>3, <4>4
    <3>9. e = i
      BY <2>1, <3>6, <3>7, <3>8
    <3>10. QED
      BY <3>9 DEF e
  <2>4. QED
    BY <2>1, <2>2, <2>3
<1>9. ReplayKnown'
  <2>1. SUFFICES ASSUME driver = "replay"
                 PROVE  /\ at <= 5 => seen[1] = None
                        /\ at <= 5 /\ flows'[1].status = "COMPLETED" => flows'[1].by = 1
                        /\ seen[1] = "COMPLETED" =>
                             flows'[1].status = "COMPLETED" /\ flows'[1].by = 1
    BY <1>1 DEF ReplayKnown
  <2>2. 1 \in Flows
    BY Numbered, EnoughCases
  <2>3. CASE flows'[1] = flows[1]
    BY <2>1, <2>3 DEF IInv, ReplayKnown
  <2>4. CASE flows[1].status = "RUNNING"
    <3>1. seen[1] # "COMPLETED" /\ (at <= 5 => seen[1] = None)
      BY <2>1, <2>4 DEF IInv, ReplayKnown
    <3>2. SUFFICES ASSUME at <= 5, flows'[1].status = "COMPLETED" PROVE flows'[1].by = 1
      BY <3>1
    <3> DEFINE e == flows'[1].by
    <3>3. e \in Sources /\ deliveries[e] = 1
      BY <2>2, <2>4, <3>2
    <3> HIDE DEF e
    <3>4. e \in 1 .. 4 /\ <<4, 6, 10, 13>>[e] <= at
      BY <1>7, <2>1, <3>3 DEF Fires, FirePlace
    <3>5. e = 1
      BY <1>3, <3>2, <3>4
    <3>6. QED
      BY <3>5 DEF e
  <2>5. QED
    BY <2>2, <2>3, <2>4
<1>10. QED
  BY <1>2, <1>4, <1>5, <1>6, <1>8, <1>9 DEF IInv

LEMMA ConductorKeeps ==
  ASSUME IInv, ConductorStep, UNCHANGED <<driverVars, judgeVars, code, serviceVars>>
  PROVE  IInv'
<1>1. flows \in [Flows -> Instances]
  BY DEF IInv, Servers
<1>2. ASSUME NEW w \in Flows, RegisterWait(w) PROVE IInv'
  <2>1. /\ flows[w].status = "RUNNING" /\ UNCHANGED <<defs, hooks, queue>>
        /\ flows' = [flows EXCEPT ![w].registered = TRUE]
    BY <1>2 DEF RegisterWait
  <2>2. flows' \in [Flows -> Instances]
    BY <1>1, <2>1 DEF Instances
  <2>3. \A j \in Flows : \/ flows'[j] = flows[j]
                         \/ /\ flows[j].status = "RUNNING" /\ flows'[j].name = flows[j].name
                            /\ flows'[j].status = "RUNNING"
    BY <1>1, <2>1 DEF Instances
  <2>4. QED
    BY <2>1, <2>2, <2>3, FlowsKeep
<1>3. ASSUME NEW w \in Flows, Abort(w), flows'[w].status = "TERMINATED" PROVE IInv'
  <2>1. PICK s \in Terminal \ {"COMPLETED"} : flows' = [flows EXCEPT ![w].status = s]
    BY <1>3 DEF Abort
  <2>2. /\ flows[w].status = "RUNNING" /\ UNCHANGED <<defs, hooks, queue>>
    BY <1>3 DEF Abort
  <2>3. flows' \in [Flows -> Instances]
    BY <1>1, <2>1 DEF Instances
  <2>4. \A j \in Flows : \/ flows'[j] = flows[j]
                         \/ /\ flows[j].status = "RUNNING" /\ flows'[j].name = flows[j].name
                            /\ flows'[j].status = "TERMINATED"
    <3>1. \A j \in Flows : j # w => flows'[j] = flows[j]
      BY <1>1, <2>1
    <3>2. flows'[w].name = flows[w].name
      BY <1>1, <2>1 DEF Instances
    <3>3. QED
      BY <1>3, <2>2, <3>1, <3>2
  <2>5. QED
    BY <2>2, <2>3, <2>4, FlowsKeep
<1>4. ASSUME NEW x \in queue, Dispatch(x) PROVE IInv'
  <2> DEFINE e == x.by
  <2>1. /\ queue' = queue \ {x} /\ UNCHANGED <<defs, hooks>>
        /\ flows' = [w \in Flows |->
                       IF w \in Matched(x)
                       THEN [flows[w] EXCEPT !.status = "COMPLETED", !.by = x.by]
                       ELSE flows[w]]
    BY <1>4 DEF Dispatch
  <2>2. e \in Sources /\ deliveries[e] = 1 /\ x = Event(e)
    BY DEF IInv, QueueKnown
  <2>3. flows' \in [Flows -> Instances]
    <3>1. ASSUME NEW w \in Flows PROVE flows'[w] \in Instances
      <4> DEFINE done == [flows[w] EXCEPT !.status = "COMPLETED", !.by = e]
      <4>1. flows'[w] = IF w \in Matched(x) THEN done ELSE flows[w]
        BY <2>1
      <4>2. flows[w] \in Instances
        BY <1>1
      <4>3. done \in Instances
        BY <2>2, <4>2 DEF Instances, Terminal
      <4> HIDE DEF done
      <4>4. QED
        BY <4>1, <4>2, <4>3
    <3>2. QED
      BY <2>1, <3>1
  <2>4. \A y \in queue' : y.by # e
    BY <2>1, <2>2 DEF IInv, QueueKnown
  <2>5. HookOf(e) \in Hooks /\ x.hook = HookOf(e)
    <3>1. e \in Fires
      BY <2>2 DEF IInv, EventKnown
    <3>2. CASE driver = "replay"
      BY <3>2, <2>2, Numbered, EnoughCases DEF HookOf, Event
    <3>3. CASE driver # "replay"
      BY <3>1, <3>3, <2>2, PlacesTyped, Numbered DEF IInv, HookOf, Event, Fires
    <3>4. QED
      BY <3>2, <3>3
  <2>6. ASSUME NEW j \in Flows, j \in Matched(x)
        PROVE  /\ flows[j].status = "RUNNING" /\ flows'[j].name = flows[j].name
               /\ flows'[j].by = e /\ NameOf(HookOf(e)) = NameOf(j)
    <3>1. /\ flows[j].status = "RUNNING" /\ hooks[x.hook] # None
          /\ flows[j].name = hooks[x.hook].receiver
      BY <2>6 DEF Matched
    <3>2. hooks[x.hook] = Config(HookOf(e))
      BY <2>5, <3>1 DEF IInv, Servers
    <3>3. Config(HookOf(e)).receiver = NameOf(HookOf(e))
      BY DEF Config
    <3>4. flows[j].name = NameOf(j)
      BY <3>1 DEF IInv, FlowKnown
    <3>5. flows'[j] = [flows[j] EXCEPT !.status = "COMPLETED", !.by = e]
      BY <2>1, <2>6
    <3>6. flows'[j].name = flows[j].name /\ flows'[j].by = e
      BY <1>1, <3>5 DEF Instances
    <3>7. QED
      BY <3>1, <3>2, <3>3, <3>4, <3>6
  <2>7. \A j \in Flows : j \notin Matched(x) => flows'[j] = flows[j]
    BY <2>1
  <2> HIDE DEF e
  <2>8. \E y \in queue : y.by = e
    BY DEF e
  <2>9. ASSUME NEW j \in Flows
        PROVE  \/ flows'[j] = flows[j]
               \/ /\ flows[j].status = "RUNNING" /\ flows'[j].name = flows[j].name
                  /\ flows'[j].by \in Sources
                  /\ deliveries[flows'[j].by] = 1
                  /\ NameOf(HookOf(flows'[j].by)) = NameOf(j)
                  /\ \E y \in queue : y.by = flows'[j].by
                  /\ \A y \in queue' : y.by # flows'[j].by
    BY <2>2, <2>4, <2>6, <2>7, <2>8
  <2>10. queue' \subseteq queue
    BY <2>1
  <2>11. QED
    BY <2>1, <2>3, <2>9, <2>10, FlowsKeep
<1>5. QED
  BY <1>2, <1>3, <1>4 DEF ConductorStep

LEMMA NextKeeps == IInv /\ [Next]_vars => IInv'
<1> SUFFICES ASSUME IInv, [Next]_vars PROVE IInv'
  OBVIOUS
<1>1. ASSUME NEW i \in Flows,
             \/ Define(i) \/ RegisterWebhook(i) \/ Start(i)
             \/ Poll(i) \/ PollTimesOut(i) \/ Status(i)
      PROVE  IInv'
  BY <1>1, DefineKeeps, RegisterWebhookKeeps, StartKeeps, PollKeeps, PollTimesOutKeeps, StatusKeeps
<1>2. ASSUME NEW e \in Sources, Fire(e) \/ FireAnswered(e) \/ Deliver(e)
      PROVE  IInv'
  BY <1>2, FireKeeps, FireAnsweredKeeps, DeliverKeeps
<1>3. QED
  BY <1>1, <1>2, BeginKeeps, FinishKeeps, ConductorKeeps, Stutter DEF Next

-----------------------------------------------------------------------------
(* What a case registers and what it fires are made for the same verifier. *)

\* A header set by the signer carries what was set.
LEMMA HeadersCarry ==
  ASSUME NEW name, NEW value
  PROVE  Carries(Headers({name}, value).headers, name, value)
  BY DEF Headers, Carries

LEMMA CaseVerifies ==
  ASSUME NEW h, Verifier(h) \in AllCases
  PROVE  Verified(Config(h), Signed(h), Body(h))
<1> DEFINE ctx == SigningContext(Secret(h), Body(h), HeaderKey(h), HeaderValue(h), "None")
           g   == Config(h)
           b   == Body(h)
           s   == Sign(Verifier(h), ctx)
           id  == <<"secret", h>>
<1>1. /\ ctx.secret.base64 /\ ctx.secret.id = id /\ ctx.body = b
      /\ ctx.header_name = HeaderKey(h) /\ ctx.header_value = HeaderValue(h) /\ Ts(ctx) = "now"
  BY DEF SigningContext, Secret, Ts
<1>2. /\ g.verifier = Verifier(h) /\ g.headerKey = HeaderKey(h)
      /\ g.secretValue.base64 /\ g.secretValue.id = id
      /\ g.urlVerified = (Verifier(h) = "SLACK_BASED")
      /\ g.headers = [x \in IF Verifier(h) = "HEADER_BASED" THEN {"X-Sig"} ELSE {} |->
                         HeaderValue(h)]
  BY DEF Config, Secret
<1>3. Signed(h) = s.headers
  BY DEF Signed
<1> HIDE DEF ctx, g, b, s, id
<1> SUFFICES Verified(g, s.headers, b)
  BY <1>3 DEF g, b
<1>4. CASE Verifier(h) = "HMAC_BASED"
  <2>1. s = HmacBased(ctx)
    BY <1>4, Zenon DEF s, Sign
  <2>2. s = Headers({HeaderKey(h)}, Mac("base64", id, b, "None"))
    BY <2>1, <1>1 DEF HmacBased
  <2>3. Carries(s.headers, g.headerKey, Mac("base64", g.secretValue.id, b, "None"))
    BY <2>2, <1>2, HeadersCarry
  <2>4. QED
    BY <1>2, <1>4, <2>3, Zenon DEF Verified
<1>5. CASE Verifier(h) = "SIGNATURE_BASED"
  <2>1. s = SignatureBased(ctx)
    BY <1>5, Zenon DEF s, Sign
  <2>2. s = Headers({HeaderKey(h)}, Mac("sha256=hex", id, b, "None"))
    BY <2>1, <1>1 DEF SignatureBased
  <2>3. Carries(s.headers, g.headerKey, Mac("sha256=hex", g.secretValue.id, b, "None"))
    BY <2>2, <1>2, HeadersCarry
  <2>4. QED
    BY <1>2, <1>5, <2>3, Zenon DEF Verified
<1>6. CASE Verifier(h) = "HEADER_BASED"
  <2>1. s = HeaderBased(ctx)
    BY <1>6, Zenon DEF s, Sign
  <2>2. HeaderKey(h) = "X-Sig"
    BY <1>6 DEF HeaderKey
  <2>3. s = Headers({"X-Sig"}, Literal(HeaderValue(h)))
    BY <2>1, <2>2, <1>1 DEF HeaderBased
  <2>4. Carries(s.headers, "X-Sig", Literal(HeaderValue(h)))
    BY <2>3, HeadersCarry
  <2>5. /\ DOMAIN g.headers # {}
        /\ \A x \in DOMAIN g.headers : Carries(s.headers, x, Literal(g.headers[x]))
    BY <1>2, <1>6, <2>4
  <2>6. QED
    BY <1>2, <1>6, <2>5, Zenon DEF Verified
<1>7. CASE Verifier(h) = "SLACK_BASED"
  BY <1>2, <1>7, Zenon DEF Verified
<1>8. CASE Verifier(h) = "STRIPE"
  <2>1. s = Stripe(ctx)
    BY <1>8, Zenon DEF s, Sign
  <2>2. PICK scheme : /\ s = Headers({"Stripe-Signature"}, Mac(scheme, id, b, "now"))
                      /\ scheme = "t,v1=hex"
    BY <1>1, <2>1, Zenon DEF Stripe
  <2>3. Carries(s.headers, "Stripe-Signature", Mac(scheme, g.secretValue.id, b, "now"))
    BY <1>2, <2>2, HeadersCarry, Zenon
  <2>4. "api_version" \in b
    BY <1>8 DEF b, Body
  <2>5. QED
    BY <1>2, <1>8, <2>2, <2>3, <2>4, Zenon DEF Verified
<1>9. CASE Verifier(h) = "TWITTER"
  <2>1. s = Twitter(ctx)
    BY <1>9, Zenon DEF s, Sign
  <2>2. HeaderKey(h) = "x-twitter-webhooks-signature"
    BY <1>9 DEF HeaderKey
  <2>3. s = Headers({HeaderKey(h)}, Mac("sha256=base64", id, b, "None"))
    BY <2>1, <2>2, <1>1 DEF Twitter
  <2>4. Carries(s.headers, g.headerKey, Mac("sha256=base64", g.secretValue.id, b, "None"))
    BY <2>3, <1>2, HeadersCarry
  <2>5. QED
    BY <1>2, <1>9, <2>4, Zenon DEF Verified
<1>10. QED
  BY <1>4, <1>5, <1>6, <1>7, <1>8, <1>9 DEF AllCases, Verifiers

\* A configuration is not the absence of one.
LEMMA ConfigExists ==
  ASSUME NEW h \in Flows, Verifier(h) \in Verifiers, NameOf(h) \in Names
  PROVE  Config(h) # None
<1>1. HeaderKey(h) \in {"X-Sig", "x-twitter-webhooks-signature"}
  BY DEF HeaderKey
<1>2. Secret(h) \in [id : {"secret"} \X Flows, base64 : {TRUE}, pem : {FALSE}]
  BY DEF Secret
<1> DEFINE H == IF Verifier(h) = "HEADER_BASED" THEN {"X-Sig"} ELSE {}
           has == [x \in H |-> HeaderValue(h)]
           All == UNION {[G -> {"value"} \X Flows] : G \in SUBSET {"X-Sig"}}
<1>3. has \in All
  <2>1. H \in SUBSET {"X-Sig"}
    OBVIOUS
  <2>2. has \in [H -> {"value"} \X Flows]
    BY DEF HeaderValue
  <2>3. QED
    BY <2>1, <2>2
<1>4. Config(h).headers = has
  BY DEF Config
<1> HIDE DEF H, has, All
<1>5. Config(h) \in [verifier : Verifiers, headerKey : {"X-Sig", "x-twitter-webhooks-signature"},
                    secretValue : [id : {"secret"} \X Flows, base64 : {TRUE}, pem : {FALSE}],
                    receiver : Names, urlVerified : BOOLEAN, headers : All]
  BY <1>1, <1>2, <1>3 DEF Config, has, H
<1>6. QED
  BY <1>5, NoneApart DEF All

-----------------------------------------------------------------------------
(* The theorems.                                                           *)

\* A summary is right about every case because an event, once it has completed a workflow,
\* is spent, and a case begins when all before it are over.
THEOREM Invariance == Spec => []IInv
  BY InitHolds, NextKeeps, PTL DEF Spec

\* Every variable keeps to its type: no driver leaves its plan, and only a step that
\* fires waits for an answer.
THEOREM Typed == Spec => []TypeOK
<1>1. IInv => TypeOK
  BY DEF IInv, Turn, Servers, TypeOK
<1>2. QED
  BY <1>1, Invariance, PTL

\* PASS is the truth: the case's own event was accepted and completed its workflow, if no
\* other case shares its definition or if all passed.
THEOREM PassesAreOwn == Spec => []PassIsOwn
<1>1. ASSUME IInv, NEW i \in Judged, verdict[i] = "PASS", Alone(i) \/ exit = 0
      PROVE  flows[i].status = "COMPLETED" /\ flows[i].by = i /\ code[i] = "2xx"
  <2>1. CaseKnown(i) /\ FlowKnown(i) /\ i \in Nat \ {0}
    BY <1>1, PlacesTyped DEF IInv
  <2>2. flows[i].status = "COMPLETED" /\ code[i] = "2xx"
    BY <1>1, <2>1 DEF CaseKnown
  <2>3. CASE exit = 0
    <3>1. \A j \in Judged : verdict[j] = "PASS"
      BY <1>1, <2>3 DEF IInv, Turn
    <3>2. \A j \in 1 .. i - 1 : j \in Judged
      <4>1. PICK m \in 0 .. Cases : Judged = 1 .. m
        BY <1>1, PlanFacts DEF IInv, Turn
      <4>2. QED
        BY <4>1, EnoughCases
    <3>3. QED
      BY <1>1, <2>1, <2>2, <3>1, <3>2 DEF CaseKnown
  <2>4. CASE Alone(i)
    <3> DEFINE e == flows[i].by
    <3>1. /\ e \in Sources /\ deliveries[e] = 1
          /\ NameOf(HookOf(e)) = NameOf(i)
      BY <2>1, <2>2 DEF FlowKnown
    <3> HIDE DEF e
    <3>2. driver = "smoke" /\ \A j \in DOMAIN selected \ {i} : selected[j] # selected[i]
      BY <2>4 DEF Alone
    <3>3. e \in DOMAIN selected
      BY <1>1, <3>1, <3>2 DEF IInv, EventKnown, Fires, Judged
    <3>4. selected[e] = selected[i]
      BY <3>1, <3>2 DEF NameOf, HookOf
    <3>5. e = i
      BY <3>2, <3>3, <3>4
    <3>6. QED
      BY <2>2, <3>5 DEF e
  <2>5. QED
    BY <1>1, <2>3, <2>4
<1>2. IInv => PassIsOwn
  BY <1>1 DEF PassIsOwn
<1>3. QED
  BY <1>2, Invariance, PTL

\* The configuration a case registers and the headers and body it fires satisfy the
\* conductor's verifier, for every verifier of every driver.
THEOREM CasesAreConsistent == Spec => []CasesAgree
<1>1. ASSUME IInv, NEW e \in Sources, calling, Plan[at] = <<"fire", e>>
      PROVE  LET h == HookOf(e) IN
             hooks[h] # None /\ Verified(hooks[h], Signed(h), Body(h))
  <2> DEFINE h == HookOf(e)
  <2> SUFFICES hooks[h] # None /\ Verified(hooks[h], Signed(h), Body(h))
    OBVIOUS
  <2>1. /\ driver \in {"smoke", "multi", "replay"} /\ selected \in Selections \cup {<<>>}
        /\ at \in DOMAIN Plan /\ at \in Nat
    BY <1>1, PlacesTyped DEF IInv, Turn
  <2>2. /\ driver # "replay" => e \in Judged /\ at = FirePlace(e)
        /\ driver = "replay" => e \in 1 .. 4 /\ at = FirePlace(e)
    BY <1>1, <2>1, StepPlace
  <2>3. /\ h \in Registered /\ HookPlace(h) < at /\ (driver = "smoke" => at <= Last(h))
        /\ Verifier(h) \in AllCases /\ h \in Flows
    <3>1. CASE driver = "smoke"
      <4>1. h = e /\ e \in Judged /\ e \in Flows /\ e \in Nat \ {0}
        BY <2>1, <2>2, <3>1, PlanFacts DEF HookOf
      <4>2. HookPlace(e) = 5 * e - 3 /\ Last(e) = 5 * e /\ at = 5 * e - 1
        BY <2>2, <3>1 DEF HookPlace, Last, FirePlace
      <4>3. selected[e] \in AllCases
        BY <1>1, <3>1, <4>1, <4>2 DEF IInv, Turn, Judged
      <4>4. QED
        BY <3>1, <4>1, <4>2, <4>3 DEF Registered, Verifier
    <3>2. CASE driver = "multi"
      <4>1. h = e /\ e \in 1 .. 3 /\ e \in Flows /\ e \in Judged
        BY <2>1, <2>2, <3>2, PlanFacts DEF HookOf, Judged
      <4>2. HookPlace(e) = e + 1 /\ at = (3 * e + 4) - 1
        BY <2>2, <3>2 DEF HookPlace, Last, FirePlace
      <4>3. Verifier(e) \in {"HMAC_BASED", "SIGNATURE_BASED", "HEADER_BASED"}
        BY <3>2, <4>1 DEF Verifier
      <4>4. QED
        BY <3>2, <4>1, <4>2, <4>3 DEF Registered, AllCases, Verifiers
    <3>3. CASE driver = "replay"
      <4>1. h = 1 /\ 1 \in Flows
        BY <3>3, Numbered, EnoughCases DEF HookOf
      <4>2. HookPlace(1) = 2 /\ at >= 4
        BY <2>2, <3>3 DEF HookPlace, FirePlace
      <4>3. Verifier(1) = "HMAC_BASED"
        BY <3>3 DEF Verifier
      <4>4. QED
        BY <2>1, <3>3, <4>1, <4>2, <4>3 DEF Registered, AllCases, Verifiers
    <3>4. QED
      BY <2>1, <3>1, <3>2, <3>3
  <2> HIDE DEF h
  <2>4. hooks[h] = Config(h)
    BY <1>1, <2>3 DEF IInv, HookKnown
  <2>5. Verifier(h) \in Verifiers /\ NameOf(h) \in Names
    <3>1. Verifier(h) \in Verifiers
      BY <2>3 DEF AllCases
    <3>2. QED
      BY <2>1, <3>1, Named DEF NameOf, Verifier
  <2>6. Config(h) # None
    BY <2>3, <2>5, ConfigExists
  <2>7. Verified(Config(h), Signed(h), Body(h))
    BY <2>3, CaseVerifies
  <2>8. QED
    BY <2>4, <2>6, <2>7 DEF h
<1>2. IInv => CasesAgree
  BY <1>1 DEF CasesAgree
<1>3. QED
  BY <1>2, Invariance, PTL

\* A verifier that fails costs no other its turn: when "smoke" ends with its summary, every
\* selected verifier has a verdict.
THEOREM AllGetTheirTurn == Spec => []EveryCaseJudged
<1>1. ASSUME IInv, driver = "smoke", exit \in {0, 1}, NEW i \in DOMAIN selected
      PROVE  verdict[i] # None
  <2>1. i \in Judged /\ at = Len(Plan) + 1
    BY <1>1 DEF IInv, Turn, Judged
  <2>2. Last(i) <= Len(Plan) /\ Len(Plan) \in Nat /\ Last(i) \in Nat
    BY <1>1, <2>1, PlanFacts, PlacesTyped DEF IInv, Turn
  <2>3. QED
    BY <1>1, <2>1, <2>2 DEF IInv, Turn
<1>2. IInv => EveryCaseJudged
  BY <1>1 DEF EveryCaseJudged
<1>3. QED
  BY <1>2, Invariance, PTL

\* A second event after the completion was seen changes nothing of it.
THEOREM SecondIsNoOp == Spec => []ReplayIsSkipped
<1>1. IInv => ReplayIsSkipped
  BY DEF IInv, ReplayKnown, ReplayIsSkipped
<1>2. QED
  BY <1>1, Invariance, PTL
=============================================================================
