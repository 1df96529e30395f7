----------------------- MODULE AssuranceEngine_proofs -----------------------
(***************************************************************************)
(* Proofs about AssuranceEngine, for every value of its constants: any     *)
(* trees and edits, any number of runs, kills, failing writes and reads.   *)
(* That the exit code is right follows from what the results of a run      *)
(* under way say of the trees it has met; that the reports are in order    *)
(* follows from the files before the one at work being of the present run. *)
(***************************************************************************)
EXTENDS AssuranceProperties, Selections_proofs, SequenceTheorems, TLAPS

Settled == {v \in Verifier : run.results[v] \in Statuses}
Performance == "performance-regression"

\* A run under way has met the present tree.
MeetsTree == Ongoing => Passing(tree) \subseteq run.ok /\ Verifier \ Passing(tree) \subseteq run.failing

\* How far a run is: the verifiers before the one at work have a result.
Progress == run.phase # "none" =>
  /\ Ongoing => run.target # "unknown"
  /\ run.phase = "verify" => run.write = 1
  /\ run.phase = "measured" => Current = Performance /\ run.write <= Len(PerformanceFiles)
  /\ run.phase \in {"verify", "measured"} /\ run.target = "all" =>
       \A j \in 1..10 : IF j < run.at THEN ALL_VERIFIERS[j] \in Settled
                        ELSE run.results[ALL_VERIFIERS[j]] = NoStatus
  /\ run.phase \in {"verify", "measured"} => run.results[Current] = NoStatus
  /\ run.phase = "report" => run.target = "all" /\ Settled = Verifier
  /\ \A v \in Verifier : run.results[v] # NoStatus => v \in Asked(run)

\* Every result has its reason.
Reasons == run.phase # "none" =>
  \A v \in Verifier :
    /\ run.results[v] \in {"PASS", "WARN"} => v \in run.ok
    /\ run.results[v] = "FAIL" => \/ v \in run.failing \/ run.refused
                                  \/ run.performance = "FAIL"

\* What was measured or refused is not forgotten.
Remembered == run.phase # "none" =>
  /\ run.phase = "measured" => Performance \in run.ok /\ run.performance \in Statuses /\ ~run.refused
  /\ run.performance = "FAIL" /\ run.phase \notin {"measured", "killed"} => run.results[Performance] = "FAIL"
  /\ run.refused /\ run.phase # "killed" =>
       \/ run.results[Performance] = "FAIL"
       \/ run.phase = "exited" /\ run.exit = 1

\* The exit code is that of the results.
ExitCode == run.phase = "exited" =>
  /\ run.exit = 0 => Asked(run) \subseteq Settled /\ "FAIL" \notin {run.results[v] : v \in Verifier}
  /\ run.exit = 1 => \/ run.target = "unknown" \/ run.refused
                     \/ \E v \in Asked(run) : run.results[v] = "FAIL"

GateInv == TypeOK /\ MeetsTree /\ Progress /\ Reasons /\ Remembered /\ ExitCode

----------------------------------------------------------------------------
(* The verifiers and their verdicts.                                       *)

RunRecord ==
  [phase : Phases, target : Targets, at : 1..Len(ALL_VERIFIERS),
   results : [Verifier -> Statuses \cup {NoStatus}], performance : Statuses \cup {NoStatus},
   write : 1..Len(ReportFiles), exit : {0, 1},
   ok : SUBSET Verifier, failing : SUBSET Verifier, refused : BOOLEAN]

LEMMA VerifierOrder ==
  /\ Len(ALL_VERIFIERS) = 10
  /\ \A i \in 1..10 : ALL_VERIFIERS[i] \in Verifier /\ (ALL_VERIFIERS[i] = Performance <=> i = 10)
  /\ \A v \in Verifier : \E i \in 1..10 : ALL_VERIFIERS[i] = v
  /\ \A i, j \in 1..10 : ALL_VERIFIERS[i] = ALL_VERIFIERS[j] => i = j
<1>1. Len(ALL_VERIFIERS) = 10
  BY DEF ALL_VERIFIERS
<1>2. \A i \in 1..10 : ALL_VERIFIERS[i] \in Verifier /\ (ALL_VERIFIERS[i] = Performance <=> i = 10)
  BY DEF ALL_VERIFIERS, Verifier, Performance
<1>3. \A v \in Verifier : \E i \in 1..10 : ALL_VERIFIERS[i] = v
  BY DEF ALL_VERIFIERS, Verifier
<1>4. \A i, j \in 1..10 : ALL_VERIFIERS[i] = ALL_VERIFIERS[j] => i = j
  BY DEF ALL_VERIFIERS
<1> QED
  BY <1>1, <1>2, <1>3, <1>4

LEMMA FileCounts == Len(ReportFiles) = 16 /\ Len(PerformanceFiles) = 4
BY DEF ReportFiles, PerformanceFiles, ALL_VERIFIERS

LEMMA JudgeType ==
  ASSUME NEW a, NEW b, NEW c
  PROVE  Judge(a, b, c) \in Verdicts /\ Judge(FALSE, b, c) \in Statuses
BY DEF Judge, Verdicts, Statuses

LEMMA VerifyType ==
  ASSUME NEW v \in Verifier \ {Performance}, NEW t
  PROVE  Verify(v, t) \in Verdicts
<1>1. Governance(t.governance) \in Verdicts
  BY JudgeType DEF Governance
<1>2. Adr(t.adr) \in Verdicts
  BY JudgeType DEF Adr
<1>3. Evidence(t.spike) \in Verdicts
  BY JudgeType DEF Evidence
<1>4. ArchitectureDrift(t.files) \in Verdicts
  BY JudgeType DEF ArchitectureDrift
<1>5. Serialization(t.canonical) \in Verdicts
  BY JudgeType DEF Serialization
<1>6. ForbiddenCode(t.files, t.git) \in Verdicts
  BY JudgeType DEF ForbiddenCode
<1>7. DependencyAudit(t.audit) \in Verdicts
  BY JudgeType DEF DependencyAudit
<1>8. Traceability(t.git) \in Verdicts
  BY JudgeType DEF Traceability
<1>9. PromptStructure(t.prompts) \in Verdicts
  BY JudgeType DEF PromptStructure
<1> QED
  BY <1>1, <1>2, <1>3, <1>4, <1>5, <1>6, <1>7, <1>8, <1>9 DEF Verify, Verifier, Performance

LEMMA PerformanceType ==
  ASSUME NEW baseline, NEW measured
  PROVE  PerformanceStatus(baseline, measured) \in Statuses
BY JudgeType DEF PerformanceStatus

----------------------------------------------------------------------------
(* A verdict becomes a result.                                             *)

Result(verdict) == IF verdict = "THROWS" THEN "FAIL" ELSE verdict

LEMMA SettleFields ==
  ASSUME NEW r \in RunRecord, NEW v \in Verifier, NEW verdict \in Verdicts
  PROVE  LET s == Settle(r, v, verdict) IN
         /\ s \in RunRecord
         /\ s.target = r.target /\ s.ok = r.ok /\ s.failing = r.failing
         /\ s.refused = r.refused /\ s.performance = r.performance
         /\ s.results = [r.results EXCEPT ![v] = Result(verdict)]
         /\ r.target # "all" => s.phase = "exited" /\ s.at = r.at /\
              (s.exit = IF Result(verdict) = "FAIL" THEN 1 ELSE 0)
         /\ r.target = "all" /\ r.at = 10 => s.phase = "report" /\ s.at = r.at
         /\ r.target = "all" /\ r.at # 10 => s.phase = "verify" /\ s.at = r.at + 1
         /\ s.write = 1
<1> DEFINE status  == Result(verdict)
           settled == [r EXCEPT !.phase = "verify", !.write = 1, !.results[v] = status]
<1>1. status \in Statuses
  BY DEF Result, Verdicts, Statuses
<1> HIDE DEF status
<1>2. settled \in RunRecord
  <2> DEFINE results == [r.results EXCEPT ![v] = status]
  <2>1. results \in [Verifier -> Statuses \cup {NoStatus}]
    BY <1>1 DEF RunRecord
  <2>2. settled = [r EXCEPT !.phase = "verify", !.write = 1, !.results = results]
    BY DEF RunRecord
  <2> HIDE DEF results, settled
  <2>3. 1 \in 1..Len(ReportFiles)
    BY FileCounts
  <2> QED
    BY <2>1, <2>2, <2>3 DEF RunRecord, Phases
<1>3. /\ settled.phase = "verify" /\ settled.write = 1 /\ settled.target = r.target
      /\ settled.at = r.at /\ settled.ok = r.ok /\ settled.failing = r.failing
      /\ settled.refused = r.refused /\ settled.performance = r.performance
      /\ settled.results = [r.results EXCEPT ![v] = status]
  BY DEF RunRecord
<1>4. Settle(r, v, verdict) =
        IF r.target # "all"
        THEN [settled EXCEPT !.phase = "exited", !.exit = IF status = "FAIL" THEN 1 ELSE 0]
        ELSE IF r.at = 10 THEN [settled EXCEPT !.phase = "report"]
        ELSE [settled EXCEPT !.at = @ + 1]
  BY VerifierOrder DEF Settle, status, Result
<1> HIDE DEF settled
<1>5. CASE r.target # "all"
  <2> DEFINE e == IF status = "FAIL" THEN 1 ELSE 0
  <2>1. e \in {0, 1}
    OBVIOUS
  <2>2. Settle(r, v, verdict) = [settled EXCEPT !.phase = "exited", !.exit = e]
    BY <1>4, <1>5
  <2>3. e = IF Result(verdict) = "FAIL" THEN 1 ELSE 0
    BY DEF status
  <2> HIDE DEF e
  <2> QED
    BY <1>2, <1>3, <1>5, <2>1, <2>2, <2>3 DEF RunRecord, Phases, status
<1>6. CASE r.target = "all" /\ r.at = 10
  BY <1>2, <1>3, <1>4, <1>6 DEF RunRecord, Phases, status
<1>7. CASE r.target = "all" /\ r.at # 10
  <2>1. r.at \in 1..10 /\ r.at + 1 \in 1..10
    BY <1>7, VerifierOrder DEF RunRecord
  <2> QED
    BY <1>2, <1>3, <1>4, <1>7, <2>1, VerifierOrder DEF RunRecord, Phases, status
<1> QED
  BY <1>5, <1>6, <1>7

----------------------------------------------------------------------------
(* The run's part of the invariant.                                        *)

\* The types of what lies outside the run.
OutsideType ==
  /\ tree \in Trees /\ runs \in 0..MaxRuns /\ edits \in 0..MaxEdits /\ faults \in 0..MaxFaults
  /\ DOMAIN files = Files
  /\ \A f \in Files : files[f] \in {NoFile, Torn} \cup Report(f)
  /\ history \in {NoFile, Torn} \/ history \in Seq(0..MaxRuns)

LEMMA TypeParts == TypeOK <=> OutsideType /\ (run = NoRun \/ run \in RunRecord)
BY DEF TypeOK, OutsideType, RunRecord

LEMMA TypePartsNext == TypeOK' <=> OutsideType' /\ (run' = NoRun \/ run' \in RunRecord)
BY DEF TypeOK, OutsideType, RunRecord

LEMMA RunType ==
  ASSUME TypeOK, run.phase # "none"
  PROVE  run \in RunRecord
BY TypeParts DEF NoRun

\* The verifier at work is one the run is to ask.
LEMMA CurrentType ==
  ASSUME TypeOK, Progress, run.phase \in {"verify", "measured"}
  PROVE  /\ run \in RunRecord /\ Current \in Verifier /\ run.target # "unknown"
         /\ run.target = "all" => Current = ALL_VERIFIERS[run.at] /\ Asked(run) = Verifier
         /\ run.target # "all" => Current = run.target /\ Asked(run) = {Current}
<1>1. run \in RunRecord /\ run.target # "unknown"
  BY RunType DEF Progress, Ongoing
<1>2. run.target \in Verifier \cup {"all"}
  BY <1>1, EngineAssumption DEF RunRecord
<1> QED
  BY <1>1, <1>2, VerifierOrder DEF Current, Asked, RunRecord

LEMMA SettleInv ==
  ASSUME GateInv, run.phase \in {"verify", "measured"}, OutsideType', UNCHANGED <<tree, runs>>,
         NEW r \in RunRecord, NEW verdict \in Verdicts, run' = Settle(r, Current, verdict),
         r.target = run.target, r.at = run.at, r.results = run.results,
         r.performance = run.performance, r.ok = run.ok, r.failing = run.failing,
         run.refused => r.refused, run.phase = "verify" => r.refused = run.refused,
         Result(verdict) \in {"PASS", "WARN"} => Current \in run.ok,
         Result(verdict) = "FAIL" =>
           Current \in run.failing \/ r.refused \/ run.performance = "FAIL",
         run.phase = "measured" /\ (r.refused \/ run.performance = "FAIL") =>
           Result(verdict) = "FAIL"
  PROVE  GateInv'
<1> DEFINE c == Current
           status == Result(verdict)
<1>1. /\ run \in RunRecord /\ c \in Verifier /\ run.target # "unknown"
      /\ run.target = "all" => c = ALL_VERIFIERS[run.at] /\ Asked(run) = Verifier
      /\ run.target # "all" => c = run.target /\ Asked(run) = {c}
  BY CurrentType DEF GateInv
<1>2. status \in Statuses
  BY DEF Result, Verdicts, Statuses
<1>3. /\ run' \in RunRecord
      /\ run'.target = run.target /\ run'.ok = run.ok /\ run'.failing = run.failing
      /\ run'.refused = r.refused /\ run'.performance = run.performance
      /\ run'.results = [run.results EXCEPT ![c] = status]
      /\ run.target # "all" => run'.phase = "exited" /\ run'.at = run.at /\
           (run'.exit = IF status = "FAIL" THEN 1 ELSE 0)
      /\ run.target = "all" /\ run.at = 10 => run'.phase = "report" /\ run'.at = run.at
      /\ run.target = "all" /\ run.at # 10 => run'.phase = "verify" /\ run'.at = run.at + 1
      /\ run'.write = 1
  BY <1>1, SettleFields
<1>4. run.results[c] = NoStatus /\ NoStatus \notin Statuses
  BY DEF GateInv, Progress, NoStatus, Statuses
<1>5. /\ run'.results[c] = status
      /\ \A v \in Verifier : v # c => run'.results[v] = run.results[v]
  BY <1>1, <1>3 DEF RunRecord
<1>6. Asked(run') = Asked(run)
  BY <1>3 DEF Asked
<1>7. run.at \in 1..10
  BY <1>1, VerifierOrder DEF RunRecord
<1> HIDE DEF c, status
<1>8. TypeOK'
  BY <1>3, TypePartsNext
<1>9. MeetsTree'
  <2>1. Ongoing
    BY DEF Ongoing
  <2> QED
    BY <1>3, <2>1 DEF GateInv, MeetsTree
<1>10. Progress'
  <2>1. run'.target # "unknown" /\ run'.phase # "measured"
    BY <1>1, <1>3
  <2>2. \A v \in Verifier : run'.results[v] # NoStatus => v \in Asked(run')
    BY <1>1, <1>5, <1>6 DEF GateInv, Progress
  <2>3. CASE run.target # "all"
    BY <1>3, <2>1, <2>2, <2>3 DEF Progress, Ongoing
  <2> DEFINE Done(j) == ALL_VERIFIERS[j] \in Settled
  <2>4. ASSUME run.target = "all"
        PROVE  /\ \A j \in 1..10 : j <= run.at => run'.results[ALL_VERIFIERS[j]] \in Statuses
               /\ \A j \in 1..10 : j > run.at => run'.results[ALL_VERIFIERS[j]] = NoStatus
    <3>1. c = ALL_VERIFIERS[run.at]
      BY <1>1, <2>4
    <3>2. \A j \in 1..10 : IF j < run.at THEN run.results[ALL_VERIFIERS[j]] \in Statuses
                           ELSE run.results[ALL_VERIFIERS[j]] = NoStatus
      BY <2>4 DEF GateInv, Progress, Settled
    <3>3. \A j \in 1..10 : j # run.at => run'.results[ALL_VERIFIERS[j]] = run.results[ALL_VERIFIERS[j]]
      BY <1>5, <1>7, <3>1, VerifierOrder
    <3>4. run'.results[ALL_VERIFIERS[run.at]] \in Statuses
      BY <1>2, <1>5, <3>1
    <3> QED
      BY <1>7, <3>2, <3>3, <3>4
  <2>5. CASE run.target = "all" /\ run.at = 10
    <3>1. \A v \in Verifier : run'.results[v] \in Statuses
      BY <2>4, <2>5, VerifierOrder
    <3>2. run'.phase = "report" /\ run'.target = "all"
      BY <1>3, <2>5
    <3> QED
      BY <2>1, <2>2, <3>1, <3>2 DEF Progress, Settled
  <2>6. CASE run.target = "all" /\ run.at # 10
    <3>1. run'.phase = "verify" /\ run'.target = "all" /\ run'.at = run.at + 1
      BY <1>3, <2>6
    <3>2. run.at + 1 \in 1..10 /\ run.at + 1 > run.at
      BY <1>7, <2>6
    <3>3. Current' = ALL_VERIFIERS[run.at + 1]
      BY <3>1 DEF Current
    <3>4. run'.results[Current'] = NoStatus
      BY <2>4, <2>6, <3>2, <3>3
    <3>5. \A j \in 1..10 : IF j < run'.at THEN run'.results[ALL_VERIFIERS[j]] \in Statuses
                           ELSE run'.results[ALL_VERIFIERS[j]] = NoStatus
      BY <1>7, <2>4, <2>6, <3>1
    <3>6. \A j \in 1..10 : IF j < run'.at THEN ALL_VERIFIERS[j] \in Settled'
                           ELSE run'.results[ALL_VERIFIERS[j]] = NoStatus
      BY <3>5, VerifierOrder DEF Settled
    <3> QED
      BY <1>3, <2>1, <2>2, <3>1, <3>4, <3>6 DEF Progress
  <2> QED
    BY <2>3, <2>5, <2>6
<1>11. Reasons'
  <2> SUFFICES ASSUME NEW v \in Verifier
               PROVE  /\ run'.results[v] \in {"PASS", "WARN"} => v \in run'.ok
                      /\ run'.results[v] = "FAIL" => \/ v \in run'.failing \/ run'.refused
                                                     \/ run'.performance = "FAIL"
    BY DEF Reasons
  <2>1. CASE v = c
    BY <1>3, <1>5, <2>1 DEF c, status
  <2>2. CASE v # c
    BY <1>3, <1>5, <2>2 DEF GateInv, Reasons
  <2> QED
    BY <2>1, <2>2
<1>12. Remembered'
  <2>1. run'.phase # "measured"
    BY <1>3
  <2>2. ASSUME run'.refused \/ run'.performance = "FAIL"
        PROVE  run'.results[Performance] = "FAIL"
    <3>1. CASE run.phase = "measured"
      BY <1>3, <1>5, <2>2, <3>1 DEF GateInv, Progress, c, status
    <3>2. CASE run.phase = "verify"
      <4>1. run.results[Performance] = "FAIL"
        BY <1>3, <2>2, <3>2 DEF GateInv, Remembered
      <4>2. Performance # c /\ Performance \in Verifier
        BY <1>4, <4>1 DEF Statuses, NoStatus, Performance, Verifier
      <4> QED
        BY <1>5, <4>1, <4>2
    <3> QED
      BY <3>1, <3>2
  <2> QED
    BY <2>1, <2>2 DEF Remembered
<1>13. ExitCode'
  <2> SUFFICES ASSUME run'.phase = "exited"
               PROVE  /\ run'.exit = 0 => /\ Asked(run') \subseteq Settled'
                                          /\ "FAIL" \notin {run'.results[v] : v \in Verifier}
                      /\ run'.exit = 1 => \E v \in Asked(run') : run'.results[v] = "FAIL"
    BY DEF ExitCode
  <2>1. run.target # "all" /\ Asked(run') = {c}
    BY <1>1, <1>3, <1>6
  <2>2. \A v \in Verifier : v # c => run.results[v] = NoStatus
    BY <1>1, <2>1 DEF GateInv, Progress
  <2>3. run'.exit = IF status = "FAIL" THEN 1 ELSE 0
    BY <1>3, <2>1
  <2>4. c \in Settled'
    BY <1>1, <1>2, <1>5 DEF Settled
  <2>5. status # "FAIL" => "FAIL" \notin {run'.results[v] : v \in Verifier}
    BY <1>5, <2>2 DEF NoStatus
  <2> QED
    BY <1>5, <2>1, <2>3, <2>4, <2>5
<1> QED
  BY <1>8, <1>9, <1>10, <1>11, <1>12, <1>13 DEF GateInv

LEMMA InitGateInv == Init => GateInv
<1> SUFFICES ASSUME Init PROVE GateInv
  OBVIOUS
<1>1. run.phase = "none" /\ run = NoRun
  BY DEF Init, NoRun
<1>2. history \in {NoFile, Torn} \/ history \in Seq(0..MaxRuns)
  BY EngineAssumption DEF Init
<1>3. OutsideType
  BY <1>2, EngineAssumption DEF Init, OutsideType
<1>4. TypeOK
  BY <1>1, <1>3, TypeParts
<1> QED
  BY <1>1, <1>4 DEF GateInv, MeetsTree, Ongoing, Progress, Reasons, Remembered, ExitCode

LEMMA StartInv ==
  ASSUME GateInv, NEW target \in Targets, Start(target)
  PROVE  GateInv'
<1> DEFINE p == IF target = "unknown" THEN "exited" ELSE "verify"
           e == IF target = "unknown" THEN 1 ELSE 0
           none == [v \in Verifier |-> NoStatus]
           r == [phase |-> p, target |-> target, at |-> 1, results |-> none,
                 performance |-> NoStatus, write |-> 1, exit |-> e,
                 ok |-> Passing(tree), failing |-> Verifier \ Passing(tree), refused |-> FALSE]
<1>1. run' = r /\ UNCHANGED <<tree, files, history, edits, faults>> /\ runs' = runs + 1
  BY DEF Start
<1>2. p \in {"exited", "verify"} /\ e \in {0, 1} /\ (p = "exited" <=> target = "unknown") /\ (e = 1 <=> target = "unknown")
  OBVIOUS
<1>3. OutsideType'
  BY <1>1, EngineAssumption DEF Start, GateInv, TypeOK, OutsideType
<1>4. Passing(tree) \subseteq Verifier /\ 1 \in 1..Len(ALL_VERIFIERS) /\ 1 \in 1..Len(ReportFiles)
  BY VerifierOrder, FileCounts DEF Passing
<1>5. none \in [Verifier -> Statuses \cup {NoStatus}] /\ \A v \in Verifier : none[v] = NoStatus
  OBVIOUS
<1> HIDE DEF p, e, none
<1>6. r \in RunRecord
  BY <1>2, <1>4, <1>5 DEF RunRecord, Phases
<1>7. /\ r.phase = p /\ r.target = target /\ r.at = 1 /\ r.results = none /\ r.refused = FALSE
      /\ r.performance = NoStatus /\ r.exit = e /\ r.write = 1
      /\ r.ok = Passing(tree) /\ r.failing = Verifier \ Passing(tree)
  OBVIOUS
<1> HIDE DEF r
<1>8. TypeOK'
  BY <1>1, <1>3, <1>6, TypePartsNext
<1>9. MeetsTree' /\ Passing(tree') = Passing(tree)
  BY <1>1, <1>7 DEF MeetsTree
<1>10. Current' \in Verifier \/ target = "unknown"
  <2>1. target \in Verifier \cup {"all", "unknown"}
    BY EngineAssumption
  <2> QED
    BY <1>1, <1>7, <2>1, VerifierOrder DEF Current
<1>11. Progress'
  BY <1>1, <1>2, <1>5, <1>7, <1>10, VerifierOrder DEF Progress, Ongoing
<1>12. Reasons' /\ Remembered' /\ ExitCode'
  BY <1>1, <1>2, <1>5, <1>7 DEF Reasons, Remembered, ExitCode, NoStatus, Performance, Verifier
<1> QED
  BY <1>8, <1>9, <1>11, <1>12 DEF GateInv

LEMMA RunVerifierInv == GateInv /\ RunVerifier => GateInv'
<1> SUFFICES ASSUME GateInv, RunVerifier PROVE GateInv'
  OBVIOUS
<1> DEFINE verdict == Verify(Current, tree)
<1>1. run \in RunRecord /\ Current \in Verifier \ {Performance}
  BY CurrentType DEF GateInv, RunVerifier, Performance
<1>2. verdict \in Verdicts
  BY <1>1, VerifyType
<1>3. Passing(tree) \subseteq run.ok /\ Verifier \ Passing(tree) \subseteq run.failing
  BY DEF GateInv, MeetsTree, Ongoing, RunVerifier
<1>4. Current \in Passing(tree) <=> verdict \in {"PASS", "WARN"}
  BY <1>1 DEF Passing, Passes, Performance
<1>5. OutsideType'
  BY DEF RunVerifier, GateInv, TypeOK, OutsideType
<1>6. run.phase = "verify" /\ run' = Settle(run, Current, verdict) /\ UNCHANGED <<tree, runs>>
  BY DEF RunVerifier
<1> HIDE DEF verdict
<1>7. Result(verdict) \in {"PASS", "WARN"} => Current \in run.ok
  BY <1>3, <1>4 DEF Result
<1>8. Result(verdict) = "FAIL" => Current \in run.failing
  BY <1>1, <1>3, <1>4 DEF Result
<1> QED
  BY <1>1, <1>2, <1>5, <1>6, <1>7, <1>8, SettleInv

LEMMA LoadBaselineInv == GateInv /\ LoadBaseline => GateInv'
<1> SUFFICES ASSUME GateInv, LoadBaseline PROVE GateInv'
  OBVIOUS
<1>1. run \in RunRecord /\ Current \in Verifier /\ Current = Performance
  BY CurrentType DEF GateInv, LoadBaseline, Performance
<1>2. Verifier \ Passing(tree) \subseteq run.failing
  BY DEF GateInv, MeetsTree, Ongoing, LoadBaseline
<1>3. Current \notin Passing(tree)
  BY <1>1 DEF Passing, Passes, Performance, LoadBaseline
<1>4. OutsideType'
  BY DEF LoadBaseline, GateInv, TypeOK, OutsideType
<1>5. run.phase = "verify" /\ run' = Settle(run, Current, "FAIL") /\ UNCHANGED <<tree, runs>>
  BY DEF LoadBaseline
<1>6. "FAIL" \in Verdicts /\ Result("FAIL") = "FAIL"
  BY DEF Verdicts, Statuses, Result
<1> QED
  BY <1>1, <1>2, <1>3, <1>4, <1>5, <1>6, SettleInv

LEMMA MeasureInv == GateInv /\ Measure => GateInv'
<1> SUFFICES ASSUME GateInv, Measure PROVE GateInv'
  OBVIOUS
<1>1. run \in RunRecord /\ Current \in Verifier /\ Current = Performance
  BY CurrentType DEF GateInv, Measure, Performance
<1>2. PICK measured \in Measurements :
        run' = [run EXCEPT !.phase = "measured",
                  !.performance = PerformanceStatus(tree.baseline, measured)]
  BY DEF Measure
<1> DEFINE s == PerformanceStatus(tree.baseline, measured)
<1>3. s \in Statuses
  BY PerformanceType
<1> HIDE DEF s
<1>4. /\ run' \in RunRecord /\ run'.phase = "measured" /\ run'.performance = s
      /\ run'.target = run.target /\ run'.at = run.at /\ run'.results = run.results
      /\ run'.write = run.write /\ run'.ok = run.ok /\ run'.failing = run.failing
      /\ run'.refused = run.refused
  BY <1>1, <1>2, <1>3 DEF RunRecord, Phases, s
<1>5. OutsideType' /\ UNCHANGED <<tree, runs>> /\ run.phase = "verify"
  BY DEF Measure, GateInv, TypeOK, OutsideType
<1>6. TypeOK'
  BY <1>4, <1>5, TypePartsNext
<1>7. MeetsTree'
  BY <1>4, <1>5 DEF GateInv, MeetsTree, Ongoing
<1>8. Current' = Performance
  BY <1>1, <1>4 DEF Current
<1>9. run.results[Performance] = NoStatus
  BY <1>1, <1>5 DEF GateInv, Progress
<1>10. Performance \in run.ok
  BY <1>1, <1>5 DEF GateInv, MeetsTree, Ongoing, Passing, Passes, Performance, Measure
<1>11. ~run.refused
  BY <1>5, <1>9 DEF GateInv, Remembered, NoStatus
<1>12. Remembered'
  BY <1>3, <1>4, <1>10, <1>11 DEF Remembered
<1>13. Progress'
  BY <1>4, <1>5, <1>8, <1>9, FileCounts DEF GateInv, Progress, Ongoing, Settled, Asked
<1>14. Reasons'
  <2>1. run.performance # "FAIL"
    BY <1>5, <1>9 DEF GateInv, Remembered, NoStatus
  <2> QED
    BY <1>4, <1>5, <2>1 DEF GateInv, Reasons
<1> QED
  BY <1>4, <1>6, <1>7, <1>12, <1>13, <1>14 DEF GateInv, ExitCode

----------------------------------------------------------------------------
(* Files.                                                                  *)

HistoryType == {NoFile, Torn} \cup Seq(0..MaxRuns)

LEMMA AppendedType ==
  ASSUME runs \in 0..MaxRuns, NEW h \in HistoryType
  PROVE  Appended(h) \in Seq(0..MaxRuns)
<1> DEFINE s == IF h \in {NoFile, Torn} THEN <<runs>> ELSE Append(h, runs)
<1>1. s \in Seq(0..MaxRuns)
  <2>1. CASE h \in {NoFile, Torn}
    <3>1. <<runs>> \in Seq(0..MaxRuns)
      OBVIOUS
    <3> QED
      BY <2>1, <3>1
  <2>2. CASE h \notin {NoFile, Torn}
    <3>1. h \in Seq(0..MaxRuns)
      BY <2>2 DEF HistoryType
    <3> QED
      BY <2>2, <3>1, AppendProperties
  <2> QED
    BY <2>1, <2>2
<1>2. Appended(h) = LastEntries(s, HistoryCap)
  BY DEF Appended
<1> HIDE DEF s
<1>3. HistoryCap \in Nat \ {0} /\ Len(s) \in Nat
  BY <1>1, EngineAssumption, LenProperties
<1> DEFINE from == IF Len(s) > HistoryCap THEN Len(s) - HistoryCap + 1 ELSE 1
<1>4. from \in Int /\ from >= 1
  BY <1>3
<1>5. SubSeq(s, from, Len(s)) \in Seq(0..MaxRuns)
  <2> HIDE DEF from
  <2>1. \A i \in from..Len(s) : s[i] \in 0..MaxRuns
    <3> SUFFICES ASSUME NEW i \in from..Len(s) PROVE s[i] \in 0..MaxRuns
      OBVIOUS
    <3>1. i \in 1..Len(s)
      BY <1>3, <1>4
    <3> QED
      BY <1>1, <3>1, ElementOfSeq
  <2> QED
    BY <1>1, <1>3, <1>4, <2>1, SubSeqProperties
<1> QED
  BY <1>2, <1>5 DEF LastEntries

\* The last entry is the new one, and no other goes that is not pushed out.
LEMMA AppendedLast ==
  ASSUME runs \in 0..MaxRuns, NEW h \in HistoryType
  PROVE  /\ Appended(h) # <<>> /\ Appended(h)[Len(Appended(h))] = runs
         /\ h \notin {NoFile, Torn} =>
              \A i \in DOMAIN h : Len(h) - i < HistoryCap - 1 => h[i] \in Contents(Appended(h))
<1> DEFINE s == IF h \in {NoFile, Torn} THEN <<runs>> ELSE Append(h, runs)
           from == IF Len(s) > HistoryCap THEN Len(s) - HistoryCap + 1 ELSE 1
           a == Appended(h)
<1>1. /\ s \in Seq(0..MaxRuns) /\ Len(s) \in Nat \ {0} /\ s[Len(s)] = runs
      /\ h \notin {NoFile, Torn} => /\ h \in Seq(0..MaxRuns) /\ Len(s) = Len(h) + 1
                                   /\ \A i \in 1..Len(h) : s[i] = h[i]
  <2>1. CASE h \in {NoFile, Torn}
    <3>1. /\ <<runs>> \in Seq(0..MaxRuns) /\ Len(<<runs>>) = 1 /\ <<runs>>[1] = runs
      OBVIOUS
    <3> QED
      BY <2>1, <3>1
  <2>2. CASE h \notin {NoFile, Torn}
    <3>1. h \in Seq(0..MaxRuns)
      BY <2>2 DEF HistoryType
    <3>2. Len(h) \in Nat
      BY <3>1, LenProperties
    <3> QED
      BY <2>2, <3>1, <3>2, AppendProperties
  <2> QED
    BY <2>1, <2>2
<1>2. a = SubSeq(s, from, Len(s))
  BY DEF Appended, LastEntries
<1> HIDE DEF s
<1>3. HistoryCap \in Nat \ {0} /\ Len(s) \in Nat \ {0}
  BY <1>1, EngineAssumption
<1>4. from \in 1..Len(s) /\ Len(s) - from <= HistoryCap - 1
      /\ \A i \in 1..Len(s) : Len(s) - i <= HistoryCap - 1 => i >= from
  BY <1>3
<1> HIDE DEF from
<1>5. \A i \in from..Len(s) : s[i] \in 0..MaxRuns
  <2> SUFFICES ASSUME NEW i \in from..Len(s) PROVE s[i] \in 0..MaxRuns
    OBVIOUS
  <2>1. i \in 1..Len(s)
    BY <1>3, <1>4
  <2> QED
    BY <1>1, <2>1, ElementOfSeq
<1>6. /\ a \in Seq(0..MaxRuns) /\ Len(a) = Len(s) - from + 1
      /\ \A i \in 1..(Len(s) - from + 1) : a[i] = s[from + i - 1]
  BY <1>2, <1>3, <1>4, <1>5, SubSeqProperties
<1> HIDE DEF a
<1>7. Len(a) \in 1..Len(s) /\ a[Len(a)] = s[Len(s)]
  BY <1>3, <1>4, <1>6
<1>8. a # <<>> /\ DOMAIN a = 1..Len(a)
  BY <1>6, <1>7, LenProperties, EmptySeq
<1>9. ASSUME h \notin {NoFile, Torn}, NEW i \in DOMAIN h, Len(h) - i < HistoryCap - 1
      PROVE  h[i] \in Contents(a)
  <2>1. i \in 1..Len(h) /\ Len(h) \in Nat /\ Len(s) = Len(h) + 1
    BY <1>1, <1>9, LenProperties
  <2>2. i \in from..Len(s)
    BY <1>3, <1>4, <1>9, <2>1
  <2>3. i - from + 1 \in 1..Len(a) /\ a[i - from + 1] = s[i]
    <3>1. i - from + 1 \in 1..(Len(s) - from + 1) /\ from + (i - from + 1) - 1 = i
      BY <1>3, <1>4, <2>2
    <3> QED
      BY <1>6, <3>1
  <2>4. s[i] = h[i]
    BY <1>1, <1>9, <2>1
  <2> QED
    BY <1>8, <2>3, <2>4 DEF Contents
<1> QED
  BY <1>1, <1>7, <1>8, <1>9 DEF a

LEMMA ContentType ==
  ASSUME runs \in 0..MaxRuns, NEW f, NEW results,
         \A v \in Covers(f) : results[v] \in Statuses \cup {NoStatus}
  PROVE  Content(f, results) \in Report(f) /\ Content(f, results).run = runs
BY DEF Content, Report

\* Which files are written when, and what they hold.
LEMMA ReportFileAt ==
  ASSUME NEW i \in 1..16
  PROVE  ReportFiles[i] \in Files /\ Covers(ReportFiles[i]) \subseteq Verifier
<1>1. ReportFiles[i] \in Contents(ReportFiles)
  BY FileCounts DEF Contents
<1>2. ReportFiles[i] # "performance-history"
  BY DEF ReportFiles, ALL_VERIFIERS
<1> QED
  BY <1>1, <1>2 DEF Files, Covers, Verifier

LEMMA PerformanceFileAt ==
  ASSUME NEW i \in 1..4
  PROVE  /\ PerformanceFiles[i] = "performance-history" <=> i = 3
         /\ i # 3 => PerformanceFiles[i] \in Files /\ Covers(PerformanceFiles[i]) \subseteq {Performance}
<1>1. PerformanceFiles[i] = "performance-history" <=> i = 3
  BY DEF PerformanceFiles
<1>2. PerformanceFiles[i] \in Contents(PerformanceFiles)
  BY FileCounts DEF Contents
<1>3. Covers(PerformanceFiles[i]) \subseteq {Performance}
  BY DEF PerformanceFiles, Covers, Performance, Verifier
<1> QED
  BY <1>1, <1>2, <1>3 DEF Files

\* A write that is not the last of its series changes nothing of the run but
\* its place.
LEMMA AdvanceInv ==
  ASSUME GateInv, run.phase \in {"measured", "report"}, OutsideType', UNCHANGED <<tree, runs>>,
         run' = [run EXCEPT !.write = @ + 1],
         run.write < IF run.phase = "measured" THEN 4 ELSE 16
  PROVE  GateInv'
<1>1. run \in RunRecord
  BY RunType DEF GateInv
<1>2. run.write + 1 \in 1..Len(ReportFiles)
  BY <1>1, FileCounts DEF RunRecord
<1>3. /\ run' \in RunRecord /\ run'.phase = run.phase /\ run'.performance = run.performance
      /\ run'.target = run.target /\ run'.at = run.at /\ run'.results = run.results
      /\ run'.ok = run.ok /\ run'.failing = run.failing
      /\ run'.refused = run.refused /\ run'.exit = run.exit
  BY <1>1, <1>2 DEF RunRecord
<1>4. run.phase = "measured" => run'.write <= Len(PerformanceFiles)
  BY <1>1, FileCounts DEF RunRecord
<1>5. TypeOK'
  BY <1>3, TypePartsNext
<1>6. Current' = Current /\ Settled' = Settled /\ Asked(run') = Asked(run)
  BY <1>3 DEF Current, Settled, Asked
<1>7. Progress'
  BY <1>3, <1>4, <1>6 DEF GateInv, Progress, Ongoing
<1> QED
  BY <1>3, <1>5, <1>6, <1>7
     DEF GateInv, MeetsTree, Reasons, Remembered, ExitCode, Ongoing

LEMMA WritePerformanceInv == GateInv /\ WritePerformance => GateInv'
<1> SUFFICES ASSUME GateInv, WritePerformance PROVE GateInv'
  OBVIOUS
<1>1. run.phase = "measured" /\ UNCHANGED <<tree, runs>>
  BY DEF WritePerformance
<1>2. run \in RunRecord /\ Current = Performance /\ run.write \in 1..4
  BY <1>1, RunType, FileCounts DEF GateInv, Progress, RunRecord
<1>3. run.performance \in Statuses /\ Performance \in run.ok /\ runs \in 0..MaxRuns
  BY <1>1 DEF GateInv, Remembered, TypeOK
<1>4. OutsideType'
  <2>1. CASE run.write = 3
    <3>1. history' = Appended(history) /\ UNCHANGED files
      BY <1>1, <2>1, PerformanceFileAt DEF WritePerformance, FileAtWork
    <3>2. history \in HistoryType /\ runs \in 0..MaxRuns
      BY DEF GateInv, TypeOK, HistoryType
    <3>3. history' \in Seq(0..MaxRuns)
      BY <3>1, <3>2, AppendedType
    <3> QED
      BY <3>1, <3>3 DEF WritePerformance, GateInv, TypeOK, OutsideType
  <2>2. CASE run.write # 3
    <3> DEFINE f == PerformanceFiles[run.write]
               content == Content(f, [v \in {"performance-regression"} |-> run.performance])
    <3>1. f # "performance-history" /\ Covers(f) \subseteq {Performance}
      BY <1>2, <2>2, PerformanceFileAt
    <3>2. files' = [files EXCEPT ![f] = content] /\ UNCHANGED history
      BY <1>1, <3>1 DEF WritePerformance, FileAtWork
    <3>3. content \in Report(f)
      BY <1>3, <3>1, ContentType DEF Performance
    <3> HIDE DEF f, content
    <3>4. \A g \in Files : files'[g] = files[g] \/ (g = f /\ files'[g] = content)
      BY <3>2 DEF GateInv, TypeOK
    <3>5. DOMAIN files' = Files
      BY <3>2 DEF GateInv, TypeOK
    <3> QED
      BY <3>2, <3>3, <3>4, <3>5 DEF WritePerformance, GateInv, TypeOK, OutsideType
  <2> QED
    BY <2>1, <2>2
<1>5. CASE run.write < 4
  BY <1>1, <1>4, <1>5, AdvanceInv, FileCounts DEF WritePerformance
<1>6. CASE run.write = 4
  <2>1. run' = Settle(run, Current, run.performance)
    BY <1>2, <1>6, FileCounts DEF WritePerformance, Performance
  <2>2. run.performance \in Verdicts /\ Result(run.performance) = run.performance
    BY <1>3 DEF Verdicts, Statuses, Result
  <2>3. ~run.refused
    BY <1>1 DEF GateInv, Remembered
  <2> QED
    BY <1>1, <1>2, <1>3, <1>4, <2>1, <2>2, <2>3, SettleInv
<1> QED
  BY <1>2, <1>5, <1>6

\* The end of a run of all verifiers that wrote its reports.
LEMMA WriteReportInv == GateInv /\ WriteReport => GateInv'
<1> SUFFICES ASSUME GateInv, WriteReport PROVE GateInv'
  OBVIOUS
<1>1. run.phase = "report" /\ UNCHANGED <<tree, runs, edits, faults, history>>
  BY DEF WriteReport
<1>2. run \in RunRecord /\ run.write \in 1..16 /\ run.target = "all" /\ Settled = Verifier
  BY <1>1, RunType, FileCounts DEF GateInv, Progress, RunRecord
<1>3. runs \in 0..MaxRuns
  BY DEF GateInv, TypeOK
<1>4. OutsideType'
  <2> DEFINE f == ReportFiles[run.write]
             content == Content(f, run.results)
  <2>1. Covers(f) \subseteq Verifier
    BY <1>2, ReportFileAt
  <2>2. files' = [files EXCEPT ![f] = content]
    BY <1>1 DEF WriteReport, FileAtWork
  <2>3. content \in Report(f)
    BY <1>2, <1>3, <2>1, ContentType DEF RunRecord
  <2> HIDE DEF f, content
  <2>4. \A g \in Files : files'[g] = files[g] \/ (g = f /\ files'[g] = content)
    BY <2>2 DEF GateInv, TypeOK
  <2>5. DOMAIN files' = Files
    BY <2>2 DEF GateInv, TypeOK
  <2> QED
    BY <1>1, <2>3, <2>4, <2>5 DEF GateInv, TypeOK, OutsideType
<1>5. CASE run.write < 16
  BY <1>1, <1>4, <1>5, AdvanceInv, FileCounts DEF WriteReport
<1>6. CASE run.write = 16
  <2> DEFINE e == IF \E v \in Verifier : run.results[v] = "FAIL" THEN 1 ELSE 0
  <2>1. run' = [run EXCEPT !.phase = "exited", !.exit = e]
    BY <1>6, FileCounts DEF WriteReport
  <2>2. e \in {0, 1} /\ (e = 1 <=> \E v \in Verifier : run.results[v] = "FAIL")
    OBVIOUS
  <2> HIDE DEF e
  <2>3. /\ run' \in RunRecord /\ run'.phase = "exited" /\ run'.performance = run.performance
        /\ run'.target = run.target /\ run'.at = run.at /\ run'.results = run.results
        /\ run'.ok = run.ok /\ run'.failing = run.failing
        /\ run'.refused = run.refused /\ run'.exit = e
    BY <1>2, <2>1, <2>2 DEF RunRecord, Phases
  <2>4. TypeOK'
    BY <1>4, <2>3, TypePartsNext
  <2>5. Settled' = Settled /\ Asked(run') = Verifier
    BY <1>2, <2>3 DEF Settled, Asked
  <2>6. Progress'
    BY <1>1, <2>3, <2>5 DEF GateInv, Progress, Ongoing
  <2>7. ExitCode'
    BY <1>2, <2>2, <2>3, <2>5 DEF ExitCode
  <2> QED
    BY <1>1, <2>3, <2>4, <2>6, <2>7 DEF GateInv, MeetsTree, Reasons, Remembered, Ongoing
<1> QED
  BY <1>2, <1>5, <1>6

\* A file that is cut off is torn, and no other changes.
LEMMA TruncatedType ==
  ASSUME TypeOK, NEW f, Truncated(f)
  PROVE  /\ DOMAIN files' = Files
         /\ \A g \in Files : files'[g] = files[g] \/ files'[g] = Torn
         /\ history' = history \/ history' = Torn
BY DEF Truncated, TypeOK

LEMMA WriteFailsInv == GateInv /\ WriteFails => GateInv'
<1> SUFFICES ASSUME GateInv, WriteFails PROVE GateInv'
  OBVIOUS
<1> DEFINE r == [run EXCEPT !.refused = TRUE]
<1>1. run.phase \in {"measured", "report"} /\ UNCHANGED <<tree, runs>>
  BY DEF WriteFails
<1>2. run \in RunRecord
  BY <1>1, RunType DEF GateInv
<1>3. OutsideType'
  <2>1. UNCHANGED <<files, history>> \/ Truncated(FileAtWork)
    BY DEF WriteFails
  <2>2. UNCHANGED <<tree, runs, edits>> /\ faults' \in 0..MaxFaults
    BY EngineAssumption DEF WriteFails, GateInv, TypeOK
  <2> QED
    BY <2>1, <2>2, TruncatedType DEF GateInv, TypeOK, OutsideType
<1>4. /\ r \in RunRecord /\ r.phase = run.phase /\ r.performance = run.performance
      /\ r.target = run.target /\ r.at = run.at /\ r.results = run.results
      /\ r.ok = run.ok /\ r.failing = run.failing /\ r.refused = TRUE
  BY <1>2 DEF RunRecord
<1>5. CASE run.phase = "measured"
  <2>1. run' = Settle(r, Current, "THROWS")
    BY <1>5 DEF WriteFails, GateInv, Progress, Performance
  <2>2. "THROWS" \in Verdicts /\ Result("THROWS") = "FAIL"
    BY DEF Verdicts, Result
  <2> HIDE DEF r
  <2> QED
    BY <1>1, <1>3, <1>4, <1>5, <2>1, <2>2, SettleInv
<1>6. CASE run.phase = "report"
  <2>1. run' = [r EXCEPT !.phase = "exited", !.exit = 1]
    BY <1>6 DEF WriteFails
  <2> HIDE DEF r
  <2>2. /\ run' \in RunRecord /\ run'.phase = "exited" /\ run'.performance = run.performance
        /\ run'.target = run.target /\ run'.at = run.at /\ run'.results = run.results
        /\ run'.ok = run.ok /\ run'.failing = run.failing
        /\ run'.refused = TRUE /\ run'.exit = 1
    BY <1>4, <2>1 DEF RunRecord, Phases
  <2>3. TypeOK'
    BY <1>3, <2>2, TypePartsNext
  <2>4. Asked(run') = Asked(run)
    BY <2>2 DEF Asked
  <2>5. Progress'
    BY <1>1, <2>2, <2>4 DEF GateInv, Progress, Ongoing
  <2> QED
    BY <1>6, <2>2, <2>3, <2>5 DEF GateInv, MeetsTree, Reasons, Remembered, ExitCode, Ongoing
<1> QED
  BY <1>1, <1>5, <1>6

\* What is written in place of an unreadable history.
LEMMA ReadFailsWrites ==
  ASSUME ReadFails
  PROVE  run.phase = "measured" /\ PerformanceFiles[run.write] = "performance-history"
BY DEF ReadFails, AtHistory, FileAtWork

LEMMA ReadFailsInv == GateInv /\ ReadFails => GateInv'
<1> SUFFICES ASSUME GateInv, ReadFails PROVE GateInv'
  OBVIOUS
<1>1. run.phase = "measured" /\ UNCHANGED <<tree, runs, files, edits>>
  BY ReadFailsWrites DEF ReadFails
<1>2. run \in RunRecord /\ run.write \in 1..4
  BY <1>1, RunType, FileCounts DEF GateInv, Progress, RunRecord
<1>3. run.write = 3
  BY <1>2, ReadFailsWrites, PerformanceFileAt
<1>4. faults' \in 0..MaxFaults
  BY EngineAssumption DEF ReadFails, GateInv, TypeOK
<1>5. history' \in Seq(0..MaxRuns)
  <2>1. runs \in 0..MaxRuns /\ Torn \in HistoryType
    BY DEF GateInv, TypeOK, HistoryType
  <2> QED
    BY <2>1, AppendedType DEF ReadFails
<1>6. OutsideType'
  BY <1>1, <1>4, <1>5 DEF GateInv, TypeOK, OutsideType
<1>7. run' = [run EXCEPT !.write = @ + 1]
  BY DEF ReadFails
<1> QED
  BY <1>1, <1>3, <1>6, <1>7, AdvanceInv

LEMMA KillInv == GateInv /\ Kill => GateInv'
<1> SUFFICES ASSUME GateInv, Kill PROVE GateInv'
  OBVIOUS
<1>1. run \in RunRecord /\ run' = [run EXCEPT !.phase = "killed"] /\ UNCHANGED <<tree, runs, edits>>
  BY RunType DEF GateInv, Kill, Ongoing
<1>2. /\ run' \in RunRecord /\ run'.phase = "killed" /\ run'.performance = run.performance
      /\ run'.target = run.target /\ run'.results = run.results
      /\ run'.ok = run.ok /\ run'.failing = run.failing /\ run'.refused = run.refused
  BY <1>1 DEF RunRecord, Phases
<1>3. OutsideType'
  <2>1. faults' \in 0..MaxFaults
    BY EngineAssumption DEF Kill, GateInv, TypeOK
  <2>2. UNCHANGED <<files, history>> \/ Truncated(FileAtWork)
    BY DEF Kill
  <2> QED
    BY <1>1, <2>1, <2>2, TruncatedType DEF GateInv, TypeOK, OutsideType
<1>4. TypeOK'
  BY <1>2, <1>3, TypePartsNext
<1>5. Asked(run') = Asked(run) /\ run.phase # "none"
  BY <1>1, <1>2 DEF Asked, Kill, Ongoing
<1>6. Progress'
  BY <1>1, <1>2, <1>5 DEF GateInv, Progress, Ongoing
<1> QED
  BY <1>2, <1>4, <1>5, <1>6 DEF GateInv, MeetsTree, Reasons, Remembered, ExitCode, Ongoing

LEMMA EditInv == GateInv /\ Edit => GateInv'
<1> SUFFICES ASSUME GateInv, Edit PROVE GateInv'
  OBVIOUS
<1>1. OutsideType' /\ runs' = runs
  BY EngineAssumption DEF Edit, GateInv, TypeOK, OutsideType
<1>2. CASE ~Ongoing
  <2>1. run' = run
    BY <1>2 DEF Edit
  <2>2. TypeOK'
    BY <1>1, <2>1, TypePartsNext, TypeParts DEF GateInv
  <2>3. Current' = Current /\ Settled' = Settled
    BY <2>1 DEF Current, Settled
  <2> QED
    BY <1>1, <1>2, <2>1, <2>2, <2>3
       DEF GateInv, MeetsTree, Progress, Reasons, Remembered, ExitCode, Ongoing
<1>3. CASE Ongoing
  <2>1. run \in RunRecord
    BY <1>3, RunType DEF GateInv, Ongoing
  <2>2. run' = [run EXCEPT !.ok = @ \cup Passing(tree'),
                  !.failing = @ \cup (Verifier \ Passing(tree'))]
    BY <1>3 DEF Edit
  <2>3. Passing(tree') \subseteq Verifier
    BY DEF Passing
  <2>4. /\ run' \in RunRecord /\ run'.phase = run.phase /\ run'.performance = run.performance
        /\ run'.target = run.target /\ run'.at = run.at /\ run'.results = run.results
        /\ run'.write = run.write /\ run'.refused = run.refused /\ run'.exit = run.exit
        /\ run'.ok = run.ok \cup Passing(tree')
        /\ run'.failing = run.failing \cup (Verifier \ Passing(tree'))
    BY <2>1, <2>2, <2>3 DEF RunRecord
  <2>5. TypeOK'
    BY <1>1, <2>4, TypePartsNext
  <2>6. Current' = Current /\ Settled' = Settled /\ Asked(run') = Asked(run)
    BY <2>4 DEF Current, Settled, Asked
  <2>7. MeetsTree'
    BY <2>4 DEF MeetsTree
  <2>8. Progress'
    BY <1>1, <2>4, <2>6 DEF GateInv, Progress, Ongoing
  <2>9. Reasons'
    BY <2>4 DEF GateInv, Reasons
  <2>10. Remembered'
    BY <2>4 DEF GateInv, Remembered
  <2> QED
    BY <1>3, <2>4, <2>5, <2>7, <2>8, <2>9, <2>10 DEF GateInv, ExitCode, Ongoing
<1> QED
  BY <1>2, <1>3

LEMMA NextGateInv == GateInv /\ [Next]_vars => GateInv'
<1> SUFFICES ASSUME GateInv, [Next]_vars PROVE GateInv'
  OBVIOUS
<1>1. CASE UNCHANGED vars
  <2>1. run' = run /\ tree' = tree /\ runs' = runs
    BY <1>1 DEF vars
  <2>2. TypeOK'
    BY <1>1 DEF vars, GateInv, TypeOK
  <2>3. Current' = Current /\ Settled' = Settled
    BY <2>1 DEF Current, Settled
  <2> QED
    BY <2>1, <2>2, <2>3
       DEF GateInv, MeetsTree, Progress, Reasons, Remembered, ExitCode, Ongoing
<1>2. CASE \E target \in Targets : Start(target)
  BY <1>2, StartInv
<1> QED
  BY <1>1, <1>2, RunVerifierInv, LoadBaselineInv, MeasureInv, WritePerformanceInv,
     WriteReportInv, WriteFailsInv, ReadFailsInv, KillInv, EditInv DEF Next, Step

\* The inductive invariant behind the type and the exit code.
THEOREM GateInvCorrect == Spec => []GateInv
BY InitGateInv, NextGateInv, PTL DEF Spec

\* The state of the engine always has its type.
THEOREM TypeCorrect == Spec => []TypeOK
<1>1. GateInv => TypeOK
  BY DEF GateInv
<1> QED
  BY <1>1, GateInvCorrect, PTL

\* The exit code is 0 only for what every verifier let pass during the run,
\* and 1 only for a reason.
THEOREM GateCorrect == Spec => []GateDecides
<1>1. GateInv => GateDecides
  <2> SUFFICES ASSUME GateInv, run.phase = "exited"
               PROVE  /\ run.exit = 0 => /\ Asked(run) \subseteq run.ok /\ ~run.refused
                                         /\ run.performance # "FAIL"
                      /\ run.exit = 1 => \/ run.target = "unknown" \/ run.refused
                                         \/ run.performance = "FAIL"
                                         \/ Asked(run) \cap run.failing # {}
    BY DEF GateDecides
  <2>1. Performance \in Verifier
    BY DEF Performance, Verifier
  <2>2. ASSUME run.exit = 0
        PROVE  /\ Asked(run) \subseteq run.ok /\ ~run.refused
               /\ run.performance # "FAIL"
    <3>1. Asked(run) \subseteq Settled /\ \A v \in Verifier : run.results[v] # "FAIL"
      BY <2>2 DEF GateInv, ExitCode
    <3>2. ~run.refused /\ run.performance # "FAIL"
      BY <2>1, <2>2, <3>1 DEF GateInv, Remembered
    <3>3. \A v \in Settled : v \in run.ok
      BY <3>1 DEF Settled, Statuses, GateInv, Reasons
    <3> QED
      BY <3>1, <3>2, <3>3
  <2>3. ASSUME run.exit = 1, run.target # "unknown", ~run.refused, run.performance # "FAIL"
        PROVE  Asked(run) \cap run.failing # {}
    <3>1. PICK v \in Asked(run) : run.results[v] = "FAIL"
      BY <2>3 DEF GateInv, ExitCode
    <3>2. v \in Verifier
      BY <2>3, <3>1, RunType, EngineAssumption DEF GateInv, Asked, RunRecord
    <3> QED
      BY <2>3, <3>1, <3>2 DEF GateInv, Reasons
  <2> QED
    BY <2>2, <2>3
<1> QED
  BY <1>1, GateInvCorrect, PTL

----------------------------------------------------------------------------
(* The reports.                                                            *)

Ordered(s) == \A j \in 1..Len(s) : \A i \in 1..j :
  Written(s[i]) /\ Written(s[j]) => RunOf(s[i]) >= RunOf(s[j])
\* No report is of a run to come.
Past(s) == \A i \in 1..Len(s) : Written(s[i]) => RunOf(s[i]) \in 0..runs
\* The first n files are of the present run.
Present(s, n) == \A i \in 1..n : Written(s[i]) /\ RunOf(s[i]) = runs
Summary == files["verification-summary"] = Content("verification-summary", run.results)

SeriesInv == Ordered(ReportFiles) /\ Ordered(PerformanceFiles)
             /\ Past(ReportFiles) /\ Past(PerformanceFiles)

UnderWrite ==
  /\ run.phase = "report" => /\ Present(ReportFiles, run.write - 1)
                             /\ run.write > 1 => Summary
  /\ run.phase = "measured" => Present(PerformanceFiles, run.write - 1)
  /\ run.phase \in {"verify", "report", "exited"} /\ ~run.refused /\ run.performance # NoStatus =>
       Present(PerformanceFiles, 4)
  /\ run.phase = "exited" /\ run.target = "all" /\ ~run.refused =>
       /\ Present(ReportFiles, 16) /\ Summary
       /\ run.exit = 1 <=> \E v \in Verifier : run.results[v] = "FAIL"

ReportInv == GateInv /\ SeriesInv /\ UnderWrite

LEMMA SeriesFiles ==
  /\ \A i, j \in 1..16 : ReportFiles[i] = ReportFiles[j] => i = j
  /\ \A i, j \in 1..4 : PerformanceFiles[i] = PerformanceFiles[j] => i = j
  /\ \A i \in 1..16, j \in 1..4 : ReportFiles[i] # PerformanceFiles[j]
  /\ ReportFiles[1] = "verification-summary"
<1>1. \A i, j \in 1..16 : ReportFiles[i] = ReportFiles[j] => i = j
  BY DEF ReportFiles, ALL_VERIFIERS
<1>2. \A i, j \in 1..4 : PerformanceFiles[i] = PerformanceFiles[j] => i = j
  BY DEF PerformanceFiles
<1>3. \A i \in 1..16, j \in 1..4 : ReportFiles[i] # PerformanceFiles[j]
  BY DEF ReportFiles, PerformanceFiles, ALL_VERIFIERS
<1>4. ReportFiles[1] = "verification-summary"
  BY DEF ReportFiles, ALL_VERIFIERS
<1> QED
  BY <1>1, <1>2, <1>3, <1>4

\* A step that writes nothing.
LEMMA NothingWritten ==
  ASSUME SeriesInv, UNCHANGED <<files, history, runs>>
  PROVE  /\ SeriesInv'
         /\ \A s, n : Present(s, n)' <=> Present(s, n)
<1>1. \A f : (Written(f)' <=> Written(f)) /\ RunOf(f)' = RunOf(f)
  BY DEF Written, Whole, RunOf
<1> QED
  BY <1>1 DEF SeriesInv, Ordered, Past, Present

\* A file of the present run, written in its place, keeps a series in order.
LEMMA SeriesWritten ==
  ASSUME NEW s, Len(s) \in Nat, NEW w \in 1..Len(s), runs \in Nat, runs' = runs,
         Ordered(s), Past(s), Present(s, w - 1),
         Written(s[w])', RunOf(s[w])' = runs,
         \A i \in 1..Len(s) : i # w => (Written(s[i])' <=> Written(s[i])) /\ RunOf(s[i])' = RunOf(s[i])
  PROVE  Ordered(s)' /\ Past(s)' /\ Present(s, w)'
<1>1. Past(s)'
  BY DEF Past
<1>2. Present(s, w)'
  BY DEF Present
<1>3. Ordered(s)'
  <2> SUFFICES ASSUME NEW j \in 1..Len(s), NEW i \in 1..j, Written(s[i])', Written(s[j])'
               PROVE  RunOf(s[i])' >= RunOf(s[j])'
    BY DEF Ordered
  <2>1. CASE i <= w
    <3>1. RunOf(s[i])' = runs /\ RunOf(s[j])' \in 0..runs
      BY <1>1, <1>2, <2>1 DEF Past, Present
    <3> QED
      BY <3>1
  <2>2. CASE i > w
    BY <2>2 DEF Ordered
  <2> QED
    BY <2>1, <2>2
<1> QED
  BY <1>1, <1>2, <1>3

LEMMA InitReportInv == Init => ReportInv
<1> SUFFICES ASSUME Init PROVE ReportInv
  OBVIOUS
<1>1. \A f \in Files : ~Whole(f)
  BY DEF Init, Whole
<1>2. \A i \in 1..16 : ~Written(ReportFiles[i])
  <2> SUFFICES ASSUME NEW i \in 1..16 PROVE ~Written(ReportFiles[i])
    OBVIOUS
  <2>1. ReportFiles[i] \in Files /\ ReportFiles[i] # "performance-history"
    BY ReportFileAt, SeriesFiles, PerformanceFileAt
  <2> QED
    BY <1>1, <2>1 DEF Written
<1>3. \A i \in 1..4 : i # 3 => ~Written(PerformanceFiles[i])
  BY <1>1, PerformanceFileAt DEF Written
<1>4. Written(PerformanceFiles[3]) => RunOf(PerformanceFiles[3]) = 0
  <2>1. PerformanceFiles[3] = "performance-history"
    BY DEF PerformanceFiles
  <2>2. ASSUME history \notin {NoFile, Torn, <<>>}
        PROVE  history[Len(history)] = 0
    <3>1. history \in Seq({0}) /\ history # <<>>
      BY <2>2, EngineAssumption DEF Init
    <3>2. Len(history) \in 1..Len(history)
      BY <3>1, EmptySeq, LenProperties
    <3> QED
      BY <3>1, <3>2, ElementOfSeq
  <2> QED
    BY <2>1, <2>2 DEF Written, RunOf
<1>5. runs = 0
  BY DEF Init
<1>6. SeriesInv
  BY <1>2, <1>3, <1>4, <1>5, FileCounts DEF SeriesInv, Ordered, Past
<1>7. UnderWrite
  BY DEF Init, NoRun, UnderWrite
<1> QED
  BY <1>6, <1>7, InitGateInv DEF ReportInv

\* A verdict: the benchmarks' reports are there by now, if there are any.
LEMMA SettleUnderWrite ==
  ASSUME TypeOK, Progress, run.phase \in {"verify", "measured"},
         NEW r \in RunRecord, NEW verdict \in Verdicts, run' = Settle(r, Current, verdict),
         r.target = run.target,
         ~r.refused /\ r.performance # NoStatus => Present(PerformanceFiles, 4)'
  PROVE  UnderWrite'
<1>1. Current \in Verifier
  BY CurrentType
<1>2. /\ run'.target = run.target /\ run'.refused = r.refused
      /\ run'.performance = r.performance /\ run'.write = 1
      /\ run'.phase \in {"verify", "report", "exited"}
      /\ run.target = "all" => run'.phase # "exited"
  <2> DEFINE s == Settle(r, Current, verdict)
  <2>1. /\ s.target = r.target /\ s.refused = r.refused
        /\ s.performance = r.performance /\ s.write = 1
    BY <1>1, SettleFields
  <2>2. /\ r.target # "all" => s.phase = "exited"
        /\ r.target = "all" /\ r.at = 10 => s.phase = "report"
        /\ r.target = "all" /\ r.at # 10 => s.phase = "verify"
    BY <1>1, SettleFields
  <2> HIDE DEF s
  <2>3. run' = s
    BY DEF s
  <2> QED
    BY <2>1, <2>2, <2>3
<1>3. Present(ReportFiles, 0)'
  BY DEF Present
<1> QED
  BY <1>2, <1>3 DEF UnderWrite

LEMMA VerdictReports == ReportInv /\ (RunVerifier \/ LoadBaseline) => SeriesInv' /\ UnderWrite'
<1> SUFFICES ASSUME ReportInv, RunVerifier \/ LoadBaseline PROVE SeriesInv' /\ UnderWrite'
  OBVIOUS
<1>1. run.phase = "verify" /\ UNCHANGED <<files, history, runs>>
  BY DEF RunVerifier, LoadBaseline
<1>2. SeriesInv' /\ (Present(PerformanceFiles, 4)' <=> Present(PerformanceFiles, 4))
  BY <1>1, NothingWritten DEF ReportInv
<1>3. TypeOK /\ Progress /\ run \in RunRecord
  BY <1>1, RunType DEF ReportInv, GateInv
<1>4. PICK verdict \in Verdicts : run' = Settle(run, Current, verdict)
  <2>1. CASE RunVerifier
    <3>1. Current \in Verifier \ {Performance}
      BY <1>1, <1>3, <2>1, CurrentType DEF RunVerifier, Performance
    <3> QED
      BY <2>1, <3>1, VerifyType DEF RunVerifier
  <2>2. CASE LoadBaseline
    BY <2>2 DEF LoadBaseline, Verdicts, Statuses
  <2> QED
    BY <2>1, <2>2
<1>5. ~run.refused /\ run.performance # NoStatus => Present(PerformanceFiles, 4)'
  BY <1>1, <1>2 DEF ReportInv, UnderWrite
<1> QED
  BY <1>1, <1>2, <1>3, <1>4, <1>5, SettleUnderWrite

LEMMA MeasureReports == ReportInv /\ Measure => SeriesInv' /\ UnderWrite'
<1> SUFFICES ASSUME ReportInv, Measure PROVE SeriesInv' /\ UnderWrite'
  OBVIOUS
<1>1. run.phase = "verify" /\ UNCHANGED <<files, history, runs>>
  BY DEF Measure
<1>2. run \in RunRecord /\ run.write = 1
  BY <1>1, RunType DEF ReportInv, GateInv, Progress
<1>3. run'.phase = "measured" /\ run'.write = 1
  BY <1>2 DEF Measure, RunRecord
<1>4. Present(PerformanceFiles, 0)'
  BY DEF Present
<1> QED
  BY <1>1, <1>3, <1>4, NothingWritten DEF ReportInv, UnderWrite

\* A whole report is written to f.
LEMMA ReportWritten ==
  ASSUME TypeOK, NEW f \in Files, f # "performance-history", NEW content \in Report(f),
         content.run = runs, files' = [files EXCEPT ![f] = content], UNCHANGED <<history, runs>>
  PROVE  /\ Written(f)' /\ RunOf(f)' = runs /\ files'[f] = content
         /\ \A g \in Files \cup {"performance-history"} : g # f =>
              (Written(g)' <=> Written(g)) /\ RunOf(g)' = RunOf(g)
<1>1. content \notin {NoFile, Torn}
  BY FileAssumption
<1>2. files'[f] = content /\ \A g \in Files : g # f => files'[g] = files[g]
  BY DEF TypeOK
<1> QED
  BY <1>1, <1>2 DEF Written, Whole, RunOf

\* An entry is written to the history.
LEMMA EntryWritten ==
  ASSUME TypeOK, NEW h \in {history, Torn}, history' = Appended(h), UNCHANGED <<files, runs>>
  PROVE  /\ Written("performance-history")' /\ RunOf("performance-history")' = runs
         /\ \A g : g # "performance-history" =>
              (Written(g)' <=> Written(g)) /\ RunOf(g)' = RunOf(g)
<1>1. h \in HistoryType /\ runs \in 0..MaxRuns
  BY DEF TypeOK, HistoryType
<1>2. history' \in Seq(0..MaxRuns)
  BY <1>1, AppendedType
<1>3. history' # <<>> /\ history'[Len(history')] = runs
  BY <1>1, AppendedLast
<1>4. history' \notin {NoFile, Torn}
  BY <1>2, FileAssumption
<1> QED
  BY <1>3, <1>4 DEF Written, Whole, RunOf

LEMMA WritePerformanceReports == ReportInv /\ WritePerformance => SeriesInv' /\ UnderWrite'
<1> SUFFICES ASSUME ReportInv, WritePerformance PROVE SeriesInv' /\ UnderWrite'
  OBVIOUS
<1>1. run.phase = "measured" /\ UNCHANGED <<tree, runs>>
  BY DEF WritePerformance
<1>2. /\ TypeOK /\ Progress /\ run \in RunRecord /\ run.write \in 1..4 /\ runs \in 0..MaxRuns
      /\ runs \in Nat /\ Current = Performance
  <2>1. TypeOK /\ Progress /\ run \in RunRecord
    BY <1>1, RunType DEF ReportInv, GateInv
  <2>2. runs \in 0..MaxRuns /\ runs \in Nat
    BY <2>1, EngineAssumption DEF TypeOK
  <2>3. Current = Performance /\ run.write <= 4
    BY <1>1, <2>1, FileCounts DEF Progress
  <2> QED
    BY <2>1, <2>2, <2>3, FileCounts DEF RunRecord
<1> PICK w \in 1..4 : w = run.write
  BY <1>2
<1> DEFINE f == PerformanceFiles[w]
<1>3. Present(PerformanceFiles, w - 1)
  BY <1>1 DEF ReportInv, UnderWrite
<1>4. run.performance \in Statuses
  BY <1>1 DEF ReportInv, GateInv, Remembered
<1>5. /\ Written(f)' /\ RunOf(f)' = runs
      /\ \A g \in Files \cup {"performance-history"} : g # f =>
           (Written(g)' <=> Written(g)) /\ RunOf(g)' = RunOf(g)
  <2>1. CASE w = 3
    <3>1. f = "performance-history" /\ history' = Appended(history) /\ UNCHANGED files
      BY <1>1, <2>1, PerformanceFileAt DEF WritePerformance, FileAtWork
    <3> QED
      BY <1>1, <1>2, <3>1, EntryWritten
  <2>2. CASE w # 3
    <3> DEFINE content == Content(f, [v \in {"performance-regression"} |-> run.performance])
    <3>1. f # "performance-history" /\ f \in Files /\ Covers(f) \subseteq {Performance}
      BY <2>2, PerformanceFileAt
    <3>2. files' = [files EXCEPT ![f] = content] /\ UNCHANGED history
      BY <1>1, <3>1 DEF WritePerformance, FileAtWork
    <3>3. content \in Report(f) /\ content.run = runs
      BY <1>2, <1>4, <3>1, ContentType DEF Performance
    <3> HIDE DEF f, content
    <3> QED
      BY <1>1, <1>2, <3>1, <3>2, <3>3, ReportWritten
  <2> QED
    BY <2>1, <2>2
<1>6. \A i \in 1..4 : PerformanceFiles[i] \in Files \cup {"performance-history"}
  BY PerformanceFileAt
<1>7. Ordered(PerformanceFiles)' /\ Past(PerformanceFiles)' /\ Present(PerformanceFiles, w)'
  <2>1. \A i \in 1..4 : i # w => (Written(PerformanceFiles[i])' <=> Written(PerformanceFiles[i]))
                                  /\ RunOf(PerformanceFiles[i])' = RunOf(PerformanceFiles[i])
    BY <1>5, <1>6, SeriesFiles
  <2>2. /\ Len(PerformanceFiles) = 4 /\ Len(PerformanceFiles) \in Nat /\ w \in 1..Len(PerformanceFiles)
        /\ runs \in Nat /\ runs' = runs
        /\ Ordered(PerformanceFiles) /\ Past(PerformanceFiles) /\ Present(PerformanceFiles, w - 1)
        /\ Written(PerformanceFiles[w])' /\ RunOf(PerformanceFiles[w])' = runs
    BY <1>1, <1>2, <1>3, <1>5, FileCounts DEF ReportInv, SeriesInv
  <2> HIDE DEF f
  <2> QED
    BY <2>1, <2>2, SeriesWritten
<1>8. Ordered(ReportFiles)' /\ Past(ReportFiles)'
  <2>1. \A i \in 1..16 : ReportFiles[i] # f /\ ReportFiles[i] \in Files
    BY SeriesFiles, ReportFileAt
  <2>2. \A i \in 1..16 : (Written(ReportFiles[i])' <=> Written(ReportFiles[i]))
                         /\ RunOf(ReportFiles[i])' = RunOf(ReportFiles[i])
    BY <1>5, <2>1
  <2> QED
    BY <1>1, <2>2, FileCounts DEF ReportInv, SeriesInv, Ordered, Past
<1>9. UnderWrite'
  <2>1. CASE w < 4
    <3>1. run' = [run EXCEPT !.write = @ + 1]
      BY <2>1, FileCounts DEF WritePerformance
    <3>2. run'.phase = "measured" /\ run'.write - 1 = w
      BY <1>1, <1>2, <3>1 DEF RunRecord
    <3> QED
      BY <1>7, <3>2 DEF UnderWrite
  <2>2. CASE w = 4
    <3>1. run' = Settle(run, Current, run.performance)
      BY <1>2, <2>2, FileCounts DEF WritePerformance, Performance
    <3>2. run.performance \in Verdicts
      BY <1>4 DEF Verdicts
    <3> QED
      BY <1>1, <1>2, <1>7, <2>2, <3>1, <3>2, SettleUnderWrite
  <2> QED
    BY <2>1, <2>2
<1> QED
  BY <1>7, <1>8, <1>9 DEF SeriesInv

LEMMA WriteReportReports == ReportInv /\ WriteReport => SeriesInv' /\ UnderWrite'
<1> SUFFICES ASSUME ReportInv, WriteReport PROVE SeriesInv' /\ UnderWrite'
  OBVIOUS
<1>1. run.phase = "report" /\ UNCHANGED <<tree, runs, history>>
  BY DEF WriteReport
<1>2. TypeOK /\ run \in RunRecord /\ run.write \in 1..16 /\ Settled = Verifier
  BY <1>1, RunType, FileCounts DEF ReportInv, GateInv, Progress, RunRecord
<1>3. runs \in 0..MaxRuns /\ runs \in Nat
  BY <1>2, EngineAssumption DEF TypeOK
<1> PICK w \in 1..16 : w = run.write
  BY <1>2
<1> DEFINE f == ReportFiles[w]
           content == Content(f, run.results)
<1>4. Present(ReportFiles, w - 1) /\ (w > 1 => Summary)
  BY <1>1 DEF ReportInv, UnderWrite
<1>5. f \in Files /\ f # "performance-history" /\ Covers(f) \subseteq Verifier
  BY ReportFileAt, SeriesFiles, PerformanceFileAt
<1>6. files' = [files EXCEPT ![f] = content]
  BY <1>1 DEF WriteReport, FileAtWork
<1>7. content \in Report(f) /\ content.run = runs
  BY <1>2, <1>3, <1>5, ContentType DEF RunRecord
<1>8. /\ Written(f)' /\ RunOf(f)' = runs /\ files'[f] = content
      /\ \A g \in Files \cup {"performance-history"} : g # f =>
           (Written(g)' <=> Written(g)) /\ RunOf(g)' = RunOf(g)
  <2> HIDE DEF f, content
  <2> QED
    BY <1>1, <1>2, <1>5, <1>6, <1>7, ReportWritten
<1>9. Ordered(ReportFiles)' /\ Past(ReportFiles)' /\ Present(ReportFiles, w)'
  <2>1. \A i \in 1..Len(ReportFiles) : i # w => (Written(ReportFiles[i])' <=> Written(ReportFiles[i]))
                                        /\ RunOf(ReportFiles[i])' = RunOf(ReportFiles[i])
    BY <1>8, SeriesFiles, ReportFileAt, FileCounts
  <2>2. /\ Len(ReportFiles) \in Nat /\ w \in 1..Len(ReportFiles)
        /\ runs \in Nat /\ runs' = runs
        /\ Ordered(ReportFiles) /\ Past(ReportFiles) /\ Present(ReportFiles, w - 1)
        /\ Written(ReportFiles[w])' /\ RunOf(ReportFiles[w])' = runs
    BY <1>1, <1>3, <1>4, <1>8, FileCounts DEF ReportInv, SeriesInv
  <2> HIDE DEF f
  <2> QED
    BY <2>1, <2>2, SeriesWritten
<1>10. \A i \in 1..4 : (Written(PerformanceFiles[i])' <=> Written(PerformanceFiles[i]))
                       /\ RunOf(PerformanceFiles[i])' = RunOf(PerformanceFiles[i])
  BY <1>8, SeriesFiles, PerformanceFileAt
<1>11. Ordered(PerformanceFiles)' /\ Past(PerformanceFiles)'
       /\ (Present(PerformanceFiles, 4) => Present(PerformanceFiles, 4)')
  BY <1>1, <1>10, FileCounts DEF ReportInv, SeriesInv, Ordered, Past, Present
<1>12. /\ run'.results = run.results /\ run'.performance = run.performance
       /\ run'.refused = run.refused /\ run'.target = run.target
       /\ w < 16 => run'.phase = "report" /\ run'.write - 1 = w
       /\ w = 16 => run'.phase = "exited" /\
            run'.exit = IF \E v \in Verifier : run.results[v] = "FAIL" THEN 1 ELSE 0
  <2>1. CASE w < 16
    <3>1. run' = [run EXCEPT !.write = @ + 1]
      BY <2>1, FileCounts DEF WriteReport
    <3>2. /\ run'.results = run.results /\ run'.performance = run.performance
          /\ run'.refused = run.refused /\ run'.target = run.target
          /\ run'.phase = run.phase /\ run'.write = run.write + 1
      BY <1>2, <3>1 DEF RunRecord
    <3> HIDE DEF f, content
    <3> QED
      BY <1>1, <2>1, <3>2
  <2>2. CASE w = 16
    <3> DEFINE e == IF \E v \in Verifier : run.results[v] = "FAIL" THEN 1 ELSE 0
    <3>1. run' = [run EXCEPT !.phase = "exited", !.exit = e]
      BY <2>2, FileCounts DEF WriteReport
    <3> HIDE DEF e
    <3>2. run'.phase = "exited" /\ run'.exit = e
          /\ run'.results = run.results /\ run'.performance = run.performance
          /\ run'.refused = run.refused /\ run'.target = run.target
      BY <1>2, <3>1 DEF RunRecord
    <3> QED
      BY <2>2, <3>2 DEF e
  <2> QED
    BY <2>1, <2>2
<1>13. Summary'
  <2>1. CASE w = 1
    <3>1. f = "verification-summary"
      BY <2>1, SeriesFiles
    <3> QED
      BY <1>1, <1>8, <1>12, <3>1 DEF Summary, Content
  <2>2. CASE w > 1
    <3>1. f # "verification-summary" /\ "verification-summary" \in Files
      BY <2>2, SeriesFiles, ReportFileAt
    <3>2. files'["verification-summary"] = files["verification-summary"]
      BY <1>2, <1>6, <3>1 DEF TypeOK
    <3> QED
      BY <1>1, <1>4, <1>12, <2>2, <3>2 DEF Summary, Content
  <2> QED
    BY <2>1, <2>2
<1>14. ~run.refused /\ run.performance # NoStatus => Present(PerformanceFiles, 4)'
  BY <1>1, <1>11 DEF ReportInv, UnderWrite
<1>15. UnderWrite'
  <2>1. CASE w < 16
    BY <1>9, <1>12, <1>13, <1>14, <2>1 DEF UnderWrite
  <2>2. CASE w = 16
    <3>1. run'.exit = 1 <=> \E v \in Verifier : run'.results[v] = "FAIL"
      BY <1>12, <2>2
    <3> QED
      BY <1>9, <1>12, <1>13, <1>14, <2>2, <3>1 DEF UnderWrite
  <2> QED
    BY <2>1, <2>2
<1> QED
  BY <1>9, <1>11, <1>15 DEF SeriesInv

\* A file that is cut off breaks no order.
LEMMA SeriesTruncated ==
  ASSUME TypeOK, SeriesInv, UNCHANGED <<files, history>> \/ Truncated(FileAtWork), runs' = runs
  PROVE  SeriesInv'
<1>1. \A f \in Files \cup {"performance-history"} : Written(f)' => Written(f) /\ RunOf(f)' = RunOf(f)
  <2>1. \A f \in Files : files'[f] = files[f] \/ files'[f] = Torn
    BY TruncatedType
  <2>2. history' = history \/ history' = Torn
    BY TruncatedType
  <2> QED
    BY <2>1, <2>2 DEF Written, Whole, RunOf
<1>2. /\ \A i \in 1..16 : ReportFiles[i] \in Files
      /\ \A i \in 1..4 : PerformanceFiles[i] \in Files \cup {"performance-history"}
  BY ReportFileAt, PerformanceFileAt
<1>3. Ordered(ReportFiles)' /\ Past(ReportFiles)'
  BY <1>1, <1>2, FileCounts DEF SeriesInv, Ordered, Past
<1>4. Ordered(PerformanceFiles)' /\ Past(PerformanceFiles)'
  BY <1>1, <1>2, FileCounts DEF SeriesInv, Ordered, Past
<1> QED
  BY <1>3, <1>4 DEF SeriesInv

LEMMA WriteFailsReports == ReportInv /\ WriteFails => SeriesInv' /\ UnderWrite'
<1> SUFFICES ASSUME ReportInv, WriteFails PROVE SeriesInv' /\ UnderWrite'
  OBVIOUS
<1> DEFINE r == [run EXCEPT !.refused = TRUE]
<1>1. run.phase \in {"measured", "report"} /\ UNCHANGED <<tree, runs>>
  BY DEF WriteFails
<1>2. SeriesInv'
  BY <1>1, SeriesTruncated DEF WriteFails, ReportInv, GateInv
<1>3. TypeOK /\ Progress /\ run \in RunRecord
  BY <1>1, RunType DEF ReportInv, GateInv
<1>4. r \in RunRecord /\ r.target = run.target /\ r.refused = TRUE
  BY <1>3 DEF RunRecord
<1>5. CASE run.phase = "measured"
  <2>1. run' = Settle(r, Current, "THROWS")
    BY <1>3, <1>5 DEF WriteFails, Progress, Performance
  <2>2. "THROWS" \in Verdicts
    BY DEF Verdicts
  <2> HIDE DEF r
  <2> QED
    BY <1>2, <1>3, <1>4, <1>5, <2>1, <2>2, SettleUnderWrite
<1>6. CASE run.phase = "report"
  <2>1. run' = [r EXCEPT !.phase = "exited", !.exit = 1]
    BY <1>6 DEF WriteFails
  <2> HIDE DEF r
  <2>2. run'.phase = "exited" /\ run'.refused = TRUE
    BY <1>4, <2>1 DEF RunRecord
  <2> QED
    BY <1>2, <2>2 DEF UnderWrite
<1> QED
  BY <1>1, <1>5, <1>6

LEMMA ReadFailsReports == ReportInv /\ ReadFails => SeriesInv' /\ UnderWrite'
<1> SUFFICES ASSUME ReportInv, ReadFails PROVE SeriesInv' /\ UnderWrite'
  OBVIOUS
<1>1. run.phase = "measured" /\ UNCHANGED <<files, runs>> /\ history' = Appended(Torn)
  BY ReadFailsWrites DEF ReadFails
<1>2. TypeOK /\ run \in RunRecord /\ run.write \in 1..4 /\ runs \in Nat
  <2>1. TypeOK /\ run \in RunRecord
    BY <1>1, RunType DEF ReportInv, GateInv
  <2>2. run.write \in 1..4
    BY <1>1, <2>1, FileCounts DEF ReportInv, GateInv, Progress, RunRecord
  <2>3. runs \in Nat
    BY <2>1, EngineAssumption DEF TypeOK
  <2> QED
    BY <2>1, <2>2, <2>3
<1>3. run.write = 3 /\ PerformanceFiles[3] = "performance-history"
  BY <1>2, ReadFailsWrites, PerformanceFileAt
<1>4. /\ Written("performance-history")' /\ RunOf("performance-history")' = runs
      /\ \A g : g # "performance-history" =>
           (Written(g)' <=> Written(g)) /\ RunOf(g)' = RunOf(g)
  BY <1>1, <1>2, EntryWritten
<1>5. /\ \A i \in 1..16 : ReportFiles[i] # "performance-history"
      /\ \A i \in 1..4 : i # 3 => PerformanceFiles[i] # "performance-history"
  BY <1>3, SeriesFiles, PerformanceFileAt
<1>6. Ordered(PerformanceFiles)' /\ Past(PerformanceFiles)' /\ Present(PerformanceFiles, 3)'
  <2>1. \A i \in 1..4 : i # 3 => (Written(PerformanceFiles[i])' <=> Written(PerformanceFiles[i]))
                                  /\ RunOf(PerformanceFiles[i])' = RunOf(PerformanceFiles[i])
    BY <1>4, <1>5
  <2>2. Present(PerformanceFiles, 3 - 1)
    BY <1>1, <1>3 DEF ReportInv, UnderWrite
  <2>3. /\ Len(PerformanceFiles) = 4 /\ Len(PerformanceFiles) \in Nat /\ 3 \in 1..Len(PerformanceFiles)
        /\ runs \in Nat /\ runs' = runs
        /\ Ordered(PerformanceFiles) /\ Past(PerformanceFiles)
        /\ Written(PerformanceFiles[3])' /\ RunOf(PerformanceFiles[3])' = runs
    BY <1>1, <1>2, <1>3, <1>4, FileCounts DEF ReportInv, SeriesInv
  <2> QED
    BY <2>1, <2>2, <2>3, SeriesWritten
<1>7. Ordered(ReportFiles)' /\ Past(ReportFiles)'
  <2>1. \A i \in 1..16 : (Written(ReportFiles[i])' <=> Written(ReportFiles[i]))
                         /\ RunOf(ReportFiles[i])' = RunOf(ReportFiles[i])
    BY <1>4, <1>5
  <2> QED
    BY <1>1, <2>1, FileCounts DEF ReportInv, SeriesInv, Ordered, Past
<1>8. run'.phase = "measured" /\ run'.write - 1 = 3
  <2>1. run' = [run EXCEPT !.write = @ + 1]
    BY DEF ReadFails
  <2> QED
    BY <1>1, <1>2, <1>3, <2>1 DEF RunRecord
<1>9. UnderWrite'
  BY <1>6, <1>8 DEF UnderWrite
<1> QED
  BY <1>6, <1>7, <1>9 DEF SeriesInv

LEMMA KillReports == ReportInv /\ Kill => SeriesInv' /\ UnderWrite'
<1> SUFFICES ASSUME ReportInv, Kill PROVE SeriesInv' /\ UnderWrite'
  OBVIOUS
<1>1. run \in RunRecord /\ run' = [run EXCEPT !.phase = "killed"] /\ runs' = runs
  BY RunType DEF ReportInv, GateInv, Kill, Ongoing
<1>2. run'.phase = "killed"
  BY <1>1 DEF RunRecord
<1>3. SeriesInv'
  BY <1>1, SeriesTruncated DEF Kill, ReportInv, GateInv
<1> QED
  BY <1>2, <1>3 DEF UnderWrite

LEMMA EditReports == ReportInv /\ Edit => SeriesInv' /\ UnderWrite'
<1> SUFFICES ASSUME ReportInv, Edit PROVE SeriesInv' /\ UnderWrite'
  OBVIOUS
<1>1. UNCHANGED <<files, history, runs>>
  BY DEF Edit
<1>2. SeriesInv' /\ \A s, n : Present(s, n)' <=> Present(s, n)
  BY <1>1, NothingWritten DEF ReportInv
<1>3. /\ run'.phase = run.phase
      /\ run.phase # "none" => /\ run'.write = run.write /\ run'.results = run.results
                               /\ run'.performance = run.performance /\ run'.refused = run.refused
                               /\ run'.target = run.target /\ run'.exit = run.exit
  <2>1. CASE ~Ongoing
    BY <2>1 DEF Edit
  <2>2. CASE Ongoing
    <3>1. run \in RunRecord
      BY <2>2, RunType DEF ReportInv, GateInv, Ongoing
    <3>2. run' = [run EXCEPT !.ok = @ \cup Passing(tree'),
                    !.failing = @ \cup (Verifier \ Passing(tree'))]
      BY <2>2 DEF Edit
    <3> QED
      BY <3>1, <3>2 DEF RunRecord
  <2> QED
    BY <2>1, <2>2
<1>4. run.phase # "none" => (Summary' <=> Summary)
  BY <1>1, <1>3 DEF Summary, Content
<1>5. UnderWrite'
  BY <1>2, <1>3, <1>4 DEF ReportInv, UnderWrite
<1> QED
  BY <1>2, <1>5

LEMMA StartReports ==
  ASSUME ReportInv, NEW target \in Targets, Start(target)
  PROVE  SeriesInv' /\ UnderWrite'
<1>1. UNCHANGED <<files, history>> /\ runs' = runs + 1 /\ runs \in Nat
  BY EngineAssumption DEF Start, ReportInv, GateInv, TypeOK
<1>2. \A f : (Written(f)' <=> Written(f)) /\ RunOf(f)' = RunOf(f)
  BY <1>1 DEF Written, Whole, RunOf
<1>3. SeriesInv'
  <2>1. Ordered(ReportFiles)' /\ Ordered(PerformanceFiles)'
    BY <1>2 DEF ReportInv, SeriesInv, Ordered
  <2>2. Past(ReportFiles)' /\ Past(PerformanceFiles)'
    <3>1. \A n \in 0..runs : n \in 0..runs'
      BY <1>1
    <3> QED
      BY <1>2, <3>1 DEF ReportInv, SeriesInv, Past
  <2> QED
    BY <2>1, <2>2 DEF SeriesInv
<1>4. /\ run'.phase \in {"exited", "verify"} /\ run'.performance = NoStatus
      /\ run'.phase = "exited" => run'.target # "all"
  BY DEF Start
<1>5. UnderWrite'
  BY <1>4 DEF UnderWrite
<1> QED
  BY <1>3, <1>5

LEMMA NextReportInv == ReportInv /\ [Next]_vars => ReportInv'
<1> SUFFICES ASSUME ReportInv, [Next]_vars PROVE SeriesInv' /\ UnderWrite'
  BY NextGateInv DEF ReportInv
<1>1. CASE UNCHANGED vars
  <2>1. run' = run /\ UNCHANGED <<files, history, runs>>
    BY <1>1 DEF vars
  <2>2. SeriesInv' /\ \A s, n : Present(s, n)' <=> Present(s, n)
    BY <2>1, NothingWritten DEF ReportInv
  <2>3. Summary' <=> Summary
    BY <2>1 DEF Summary, Content
  <2> QED
    BY <2>1, <2>2, <2>3 DEF ReportInv, UnderWrite
<1>2. CASE \E target \in Targets : Start(target)
  BY <1>2, StartReports
<1> QED
  BY <1>1, <1>2, VerdictReports, MeasureReports, WritePerformanceReports,
     WriteReportReports, WriteFailsReports, ReadFailsReports, KillReports, EditReports DEF Next, Step

\* The inductive invariant behind the order of the reports.
THEOREM ReportInvCorrect == Spec => []ReportInv
BY InitReportInv, NextReportInv, PTL DEF Spec

LEMMA SummaryTells ==
  ASSUME Summary
  PROVE  OverallStatus(files["verification-summary"].says) = "FAIL"
           <=> \E v \in Verifier : run.results[v] = "FAIL"
<1> DEFINE says == files["verification-summary"].says
           all == {says[v] : v \in DOMAIN says}
<1>1. says = [v \in Verifier |-> run.results[v]]
  <2>1. Covers("verification-summary") = Verifier
    BY DEF Covers, Verifier
  <2>2. says = [v \in Covers("verification-summary") |-> run.results[v]]
    BY DEF Summary, Content
  <2> QED
    BY <2>1, <2>2
<1>2. "FAIL" \in all <=> \E v \in Verifier : run.results[v] = "FAIL"
  BY <1>1
<1>3. OverallStatus(says) = CASE "FAIL" \in all -> "FAIL"
        [] "FAIL" \notin all /\ "WARN" \in all -> "WARN"
        [] "FAIL" \notin all /\ "WARN" \notin all -> IF all \subseteq {"SKIP"} THEN "SKIP" ELSE "PASS"
  BY DEF OverallStatus
<1> HIDE DEF all
<1>4. OverallStatus(says) = "FAIL" <=> "FAIL" \in all
  <2>1. CASE "FAIL" \in all
    BY <1>3, <2>1
  <2>2. CASE "FAIL" \notin all /\ "WARN" \in all
    BY <1>3, <2>2
  <2>3. CASE "FAIL" \notin all /\ "WARN" \notin all
    <3>1. OverallStatus(says) = IF all \subseteq {"SKIP"} THEN "SKIP" ELSE "PASS"
      BY <1>3, <2>3
    <3> QED
      BY <2>3, <3>1
  <2> QED
    BY <2>1, <2>2, <2>3
<1> QED
  BY <1>2, <1>4

\* Reports never go back to an earlier run within a series, and those of a
\* whole run are all its own and say what its exit code says.
THEOREM EvidenceCorrect == Spec => []EvidenceInOrder
<1>1. ReportInv => EvidenceInOrder
  <2> SUFFICES ASSUME ReportInv PROVE EvidenceInOrder
    OBVIOUS
  <2>1. DOMAIN ReportFiles = 1..16 /\ DOMAIN PerformanceFiles = 1..4
    BY DEF ReportFiles, PerformanceFiles, ALL_VERIFIERS
  <2>2. \A s \in {ReportFiles, PerformanceFiles} : \A j \in DOMAIN s : \A i \in 1..j :
          Written(s[i]) /\ Written(s[j]) => RunOf(s[i]) >= RunOf(s[j])
    BY <2>1, FileCounts DEF ReportInv, SeriesInv, Ordered
  <2>3. ASSUME run.phase = "exited", run.target = "all", ~run.refused
        PROVE  /\ \A f \in Contents(ReportFiles) : Written(f) /\ RunOf(f) = runs
               /\ OverallStatus(files["verification-summary"].says) = "FAIL" <=> run.exit = 1
               /\ run.performance # NoStatus =>
                    \A f \in Contents(PerformanceFiles) : Written(f) /\ RunOf(f) = runs
    <3>1. /\ Present(ReportFiles, 16) /\ Summary
          /\ run.exit = 1 <=> \E v \in Verifier : run.results[v] = "FAIL"
      BY <2>3 DEF ReportInv, UnderWrite
    <3>2. run.performance # NoStatus => Present(PerformanceFiles, 4)
      BY <2>3 DEF ReportInv, UnderWrite
    <3>3. /\ \A f \in Contents(ReportFiles) : \E i \in 1..16 : f = ReportFiles[i]
          /\ \A f \in Contents(PerformanceFiles) : \E i \in 1..4 : f = PerformanceFiles[i]
      BY <2>1 DEF Contents
    <3>4. \A f \in Contents(ReportFiles) : Written(f) /\ RunOf(f) = runs
      BY <3>1, <3>3 DEF Present
    <3>5. run.performance # NoStatus =>
            \A f \in Contents(PerformanceFiles) : Written(f) /\ RunOf(f) = runs
      BY <3>2, <3>3 DEF Present
    <3>6. OverallStatus(files["verification-summary"].says) = "FAIL" <=> run.exit = 1
      BY <3>1, SummaryTells
    <3> QED
      BY <3>4, <3>5, <3>6
  <2> QED
    BY <2>2, <2>3 DEF EvidenceInOrder
<1> QED
  BY <1>1, ReportInvCorrect, PTL

LEMMA StepKeepsHistory ==
  ASSUME TypeOK, [Next]_vars, history \notin {NoFile, Torn}, faults' = faults \/ ~AtHistory
  PROVE  /\ history' \notin {NoFile, Torn}
         /\ \A i \in DOMAIN history :
              Len(history) - i < HistoryCap - 1 => history[i] \in Contents(history')
<1>1. CASE UNCHANGED history
  BY <1>1 DEF Contents
<1>2. CASE history' = Appended(history)
  <2>1. runs \in 0..MaxRuns /\ history \in HistoryType
    BY DEF TypeOK, HistoryType
  <2>2. Appended(history) \in Seq(0..MaxRuns)
    BY <2>1, AppendedType
  <2>3. \A i \in DOMAIN history :
          Len(history) - i < HistoryCap - 1 => history[i] \in Contents(Appended(history))
    BY <2>1, AppendedLast
  <2> QED
    BY <1>2, <2>2, <2>3, FileAssumption
<1>3. WritePerformance => UNCHANGED history \/ history' = Appended(history)
  BY DEF WritePerformance
<1>4. RunVerifier \/ LoadBaseline \/ Measure \/ WriteReport => UNCHANGED history
  BY DEF RunVerifier, LoadBaseline, Measure, WriteReport
<1>5. Edit \/ (\E target \in Targets : Start(target)) \/ UNCHANGED vars => UNCHANGED history
  BY DEF Edit, Start, vars
<1>6. WriteFails \/ Kill => UNCHANGED history
  <2> SUFFICES ASSUME WriteFails \/ Kill, ~UNCHANGED history PROVE FALSE
    OBVIOUS
  <2>1. run.phase \in {"measured", "report"} /\ Truncated(FileAtWork)
    BY DEF WriteFails, Kill
  <2>2. FileAtWork = "performance-history"
    BY <2>1 DEF Truncated
  <2>3. run.phase # "report"
    <3> SUFFICES ASSUME run.phase = "report" PROVE FALSE
      OBVIOUS
    <3>1. run.write \in 1..16
      BY RunType, FileCounts DEF RunRecord
    <3> QED
      BY <2>2, <3>1, ReportFileAt, SeriesFiles, PerformanceFileAt DEF FileAtWork
  <2>4. AtHistory
    BY <2>1, <2>2, <2>3 DEF AtHistory
  <2>5. faults' # faults
    <3>1. faults' = faults + 1 /\ faults \in Int
      BY EngineAssumption DEF WriteFails, Kill, TypeOK
    <3> QED
      BY <3>1
  <2> QED
    BY <2>4, <2>5
<1>7. ~ReadFails
  <2> SUFFICES ASSUME ReadFails PROVE FALSE
    OBVIOUS
  <2>1. faults' = faults + 1 /\ faults \in Int /\ AtHistory
    BY EngineAssumption DEF ReadFails, TypeOK
  <2> QED
    BY <2>1
<1> QED
  BY <1>1, <1>2, <1>3, <1>4, <1>5, <1>6, <1>7 DEF Next, Step

\* No entry of the history is lost before its time, but by a fault of the step
\* that reads and writes the history.
THEOREM HistoryCorrect == Spec => HistoryKept
<1>1. TypeOK /\ [Next]_vars =>
        [history \notin {NoFile, Torn} /\ (faults' = faults \/ ~AtHistory) =>
           /\ history' \notin {NoFile, Torn}
           /\ \A i \in DOMAIN history :
                Len(history) - i < HistoryCap - 1 => history[i] \in Contents(history')]_vars
  BY StepKeepsHistory
<1> QED
  BY <1>1, TypeCorrect, PTL DEF Spec, HistoryKept

----------------------------------------------------------------------------
(* The verdicts are those of the rules.                                    *)

LEMMA AdrRight ==
  ASSUME NEW t \in WorkingTree
  PROVE  SoundAdrs(t.adr) => (Adr(t.adr) \in {"PASS", "WARN"} <=> NumbersInOrder(t.adr))
<1> DEFINE all     == t.adr.files
           named   == Only(all, {f \in Contents(all) : f.named})
           numbers == [i \in DOMAIN named |-> named[i].number]
           sorted  == Ascending(numbers)
<1>1. all \in Seq(AdrFile) /\ t.adr.dir \in BOOLEAN
  BY DEF WorkingTree
<1>2. Len(all) \in Nat /\ DOMAIN all = 1..Len(all) /\ all \in [1..Len(all) -> AdrFile]
  BY <1>1
<1>3. named = all <=> \A i \in 1..Len(all) : all[i].named
  <2>1. named = all <=> \A i \in 1..Len(all) : all[i] \in {f \in Contents(all) : f.named}
    BY <1>1, OnlyKeeps
  <2> QED
    BY <1>2, <2>1 DEF Contents
<1>4. Adr(t.adr) \in {"PASS", "WARN"} <=>
        /\ ~Unreadable(Contents(named))
        /\ t.adr.dir /\ all # <<>> /\ named = all
        /\ \A f \in Contents(named) : f.status /\ f.decision
        /\ \A i \in 2..Len(sorted) : sorted[i] = sorted[i - 1] + 1
  BY DEF Adr, Judge
<1>5. SoundAdrs(t.adr) <=>
        /\ t.adr.dir /\ all # <<>>
        /\ \A i \in 1..Len(all) :
             all[i].named /\ all[i].readable /\ all[i].status /\ all[i].decision
  BY <1>2 DEF SoundAdrs
<1>6. NumbersInOrder(t.adr) <=>
        \E first \in {all[i].number : i \in 1..Len(all)} :
          {all[i].number : i \in 1..Len(all)} = first..(first + Len(all) - 1)
  BY <1>2 DEF NumbersInOrder
<1>7. ASSUME named = all, all # <<>>
      PROVE  (\A i \in 2..Len(sorted) : sorted[i] = sorted[i - 1] + 1)
               <=> \E first \in {all[i].number : i \in 1..Len(all)} :
                     {all[i].number : i \in 1..Len(all)} = first..(first + Len(all) - 1)
  <2> DEFINE n == Len(all)
             s == [i \in 1..n |-> all[i].number]
  <2>1. n \in Nat /\ n > 0
    BY <1>1, <1>2, <1>7
  <2>2. numbers = s
    BY <1>2, <1>7
  <2>3. s \in Seq(Int) /\ Len(s) = n
    <3>1. \A i \in 1..n : all[i].number \in Int
      BY <1>2 DEF AdrFile
    <3> QED
      BY <2>1, <3>1
  <2>4. Sorts(s, Ascending(s), n) /\ Len(Ascending(s)) = n
    BY <2>3, AscendingIsSorted, AscendingSorts
  <2>5. (\A i \in 2..n : Ascending(s)[i] = Ascending(s)[i - 1] + 1)
          <=> \E first \in {s[i] : i \in 1..n} : {s[i] : i \in 1..n} = first..(first + n - 1)
    <3> DEFINE u == Ascending(s)
    <3>1. Sorts(s, u, n)
      BY <2>4
    <3> HIDE DEF n, s, u
    <3>2. Grow(u, n) <=> Interval(s, n)
      BY <2>1, <3>1, GrowByOne
    <3> QED
      BY <3>2 DEF Grow, Interval, u
  <2>6. {s[i] : i \in 1..n} = {all[i].number : i \in 1..n}
    OBVIOUS
  <2> HIDE DEF s
  <2> QED
    BY <2>2, <2>4, <2>5, <2>6
<1>8. \A f \in Contents(all) : \E i \in 1..Len(all) : f = all[i]
  BY <1>2 DEF Contents
<1> SUFFICES ASSUME SoundAdrs(t.adr)
             PROVE  Adr(t.adr) \in {"PASS", "WARN"} <=> NumbersInOrder(t.adr)
  OBVIOUS
<1>9. named = all /\ all # <<>> /\ t.adr.dir
  BY <1>3, <1>5
<1>10. ~Unreadable(Contents(named)) /\ \A f \in Contents(named) : f.status /\ f.decision
  <2> HIDE DEF all, named
  <2> QED
    BY <1>5, <1>8, <1>9 DEF Unreadable
<1>11. Adr(t.adr) \in {"PASS", "WARN"} <=>
         \A i \in 2..Len(sorted) : sorted[i] = sorted[i - 1] + 1
  BY <1>4, <1>9, <1>10
<1> HIDE DEF all, named, sorted
<1> QED
  BY <1>6, <1>7, <1>9, <1>11

\* The newest k commits of a kind, by git log and by the rule.
LEMMA NewestOnly ==
  ASSUME NEW X, NEW log \in Seq(X), NEW S, NEW k \in Nat
  PROVE  \A c : c \in Contents(Newest(Only(log, S), k)) <=>
           \E i \in 1..Len(log) : c = log[i] /\ IsRecent(log, i, k, S)
<1> DEFINE only == Only(log, S)
           first == Newest(only, k)
           c(i) == Cardinality(Kept(log, S, i))
<1>1. /\ \A j \in 1..Len(only) : j <= k =>
           \E i \in 1..Len(log) : log[i] \in S /\ c(i - 1) < k /\ only[j] = log[i]
      /\ \A i \in 1..Len(log) : log[i] \in S /\ c(i - 1) < k =>
           c(i) \in 1..Len(only) /\ c(i) <= k /\ only[c(i)] = log[i]
  <2>1. \A j \in 1..Len(only) : j <= k =>
           \E i \in 1..Len(log) : log[i] \in S /\ c(i - 1) < k /\ only[j] = log[i]
    BY FirstOfOnly
  <2>2. \A i \in 1..Len(log) : log[i] \in S /\ c(i - 1) < k =>
           c(i) \in 1..Len(only) /\ c(i) <= k /\ only[c(i)] = log[i]
    BY FirstOfOnly
  <2> QED
    BY <2>1, <2>2
<1>2. \A i \in 1..Len(log) : IsRecent(log, i, k, S) <=> log[i] \in S /\ c(i - 1) < k
  BY DEF IsRecent, Kept
<1>3. only \in Seq(X) /\ Len(only) \in Nat
  BY OnlyFilters, LenProperties
<1> HIDE DEF only
<1>4. /\ DOMAIN first = 1..(IF Len(only) < k THEN Len(only) ELSE k)
      /\ \A j \in DOMAIN first : first[j] = only[j]
  BY <1>3 DEF Newest
<1>5. \A j : j \in DOMAIN first <=> j \in 1..Len(only) /\ j <= k
  BY <1>3, <1>4
<1> HIDE DEF first, c
<1>6. ASSUME NEW j \in DOMAIN first
      PROVE  \E i \in 1..Len(log) : first[j] = log[i] /\ IsRecent(log, i, k, S)
  BY <1>1, <1>2, <1>4, <1>5
<1>7. ASSUME NEW i \in 1..Len(log), IsRecent(log, i, k, S)
      PROVE  log[i] \in Contents(first)
  <2>1. c(i) \in DOMAIN first /\ first[c(i)] = log[i]
    BY <1>1, <1>2, <1>4, <1>5, <1>7
  <2> QED
    BY <2>1 DEF Contents
<1> QED
  BY <1>6, <1>7 DEF first, only, Contents

\* A verifier that passes has seen every source-modifying commit among the
\* last ones, and these are among the last source-modifying ones.
LEMMA TraceabilityRight ==
  ASSUME NEW t \in WorkingTree, t.git.works
  PROVE  /\ Traceability(t.git) \in {"PASS", "WARN"} <=> ~Untraced(t.git.log, Adopted)
         /\ Untraced(t.git.log, Adopted) => Untraced(t.git.log, AdoptedSource)
<1> DEFINE log     == t.git.log
           recent(i) == IsRecent(log, i, TraceCommits, Adopted)
<1>1. log \in Seq(LoggedCommit) /\ Len(log) \in Nat /\ DOMAIN log = 1..Len(log)
  BY DEF WorkingTree
<1>2. \A i \in 1..Len(log) : log[i].sections \subseteq TraceSections
  <2>1. \A c \in LoggedCommit : c.sections \subseteq TraceSections
    BY DEF LoggedCommit
  <2>2. \A i \in 1..Len(log) : log[i] \in LoggedCommit
    BY <1>1
  <2> QED
    BY <2>1, <2>2
<1>3. Traceability(t.git) \in {"PASS", "WARN"} <=>
        \A c \in Contents(RecentCommits(t.git)) : c.source => TraceSections \subseteq c.sections
  BY DEF Traceability, Judge
<1>4. \A c : c \in Contents(RecentCommits(t.git)) <=> \E i \in 1..Len(log) : c = log[i] /\ recent(i)
  BY <1>1, NewestOnly, WindowAssumption DEF RecentCommits
<1>5. Untraced(log, Adopted) <=>
        \E i \in 1..Len(log) : recent(i) /\ log[i].source /\ log[i].sections # TraceSections
  BY <1>1 DEF Untraced
<1>6. ASSUME Untraced(log, Adopted)
      PROVE  Untraced(log, AdoptedSource)
  <2>1. PICK i \in 1..Len(log) : recent(i) /\ log[i].source /\ log[i].sections # TraceSections
    BY <1>5, <1>6
  <2>2. log[i] \in AdoptedSource
    BY <2>1 DEF IsRecent, AdoptedSource
  <2> DEFINE all  == {j \in 1..(i - 1) : log[j] \in Adopted}
             part == {j \in 1..(i - 1) : log[j] \in AdoptedSource}
  <2>3. part \subseteq all
    BY DEF AdoptedSource
  <2>4. IsFiniteSet(all)
    <3>1. IsFiniteSet(1..(i - 1))
      BY FS_Interval
    <3>2. all \subseteq 1..(i - 1)
      OBVIOUS
    <3> HIDE DEF all
    <3> QED
      BY <3>1, <3>2, FS_Subset
  <2>5. Cardinality(all) < TraceCommits
    BY <2>1 DEF IsRecent
  <2>6. Cardinality(part) < TraceCommits
    <3> HIDE DEF part, all
    <3>1. Cardinality(part) <= Cardinality(all) /\ Cardinality(part) \in Nat /\ Cardinality(all) \in Nat
      BY <2>3, <2>4, FS_Subset, FS_CardinalityType
    <3> QED
      BY <2>5, <3>1, WindowAssumption
  <2>7. IsRecent(log, i, TraceCommits, AdoptedSource)
    BY <2>2, <2>6 DEF IsRecent
  <2> QED
    BY <1>1, <2>1, <2>7 DEF Untraced
<1> HIDE DEF recent, log
<1>7. (\A c \in Contents(RecentCommits(t.git)) : c.source => TraceSections \subseteq c.sections)
        <=> \A i \in 1..Len(log) : recent(i) => (log[i].source => TraceSections \subseteq log[i].sections)
  BY <1>4
<1>8. Traceability(t.git) \in {"PASS", "WARN"} <=> ~Untraced(log, Adopted)
  BY <1>2, <1>3, <1>5, <1>7
<1> QED
  BY <1>6, <1>8 DEF log

\* The lines of a context are those from two before to seven after.
LEMMA ContextLines ==
  ASSUME NEW lines \in Seq(SUBSET Patterns), NEW i \in 1..Len(lines)
  PROVE  \A p : p \in UNION Contents(Context(lines, i)) <=>
           \E j \in 1..Len(lines) : j - i \in -2..7 /\ p \in lines[j]
<1> DEFINE first == IF i > 2 THEN i - 2 ELSE 1
           last  == IF i + 7 < Len(lines) THEN i + 7 ELSE Len(lines)
           around == Context(lines, i)
<1>1. Len(lines) \in Nat /\ first \in 1..i /\ last \in i..Len(lines)
  OBVIOUS
<1>2. \A j \in 1..Len(lines) : j - i \in -2..7 <=> j \in first..last
  BY <1>1
<1>3. around = SubSeq(lines, first, last)
  BY DEF Context
<1> HIDE DEF first, last, around
<1>4. /\ DOMAIN around = 1..(last - first + 1)
      /\ \A m \in 1..(last - first + 1) : around[m] = lines[first + m - 1]
  BY <1>1, <1>3
<1>5. ASSUME NEW p, NEW m \in DOMAIN around, p \in around[m]
      PROVE  \E j \in 1..Len(lines) : j - i \in -2..7 /\ p \in lines[j]
  <2>1. first + m - 1 \in 1..Len(lines) /\ first + m - 1 \in first..last
    BY <1>1, <1>4
  <2>2. p \in lines[first + m - 1]
    BY <1>4, <1>5
  <2> QED
    BY <1>2, <2>1, <2>2
<1>6. ASSUME NEW p, NEW j \in 1..Len(lines), j - i \in -2..7, p \in lines[j]
      PROVE  \E m \in DOMAIN around : p \in around[m]
  <2>1. j \in first..last
    BY <1>2, <1>6
  <2>2. j - first + 1 \in DOMAIN around /\ first + (j - first + 1) - 1 = j
    BY <1>1, <1>4, <2>1
  <2>3. around[j - first + 1] = lines[j]
    BY <1>4, <2>2
  <2> QED
    BY <1>6, <2>2, <2>3
<1>7. \A p : p \in UNION Contents(around) <=> \E m \in DOMAIN around : p \in around[m]
  BY DEF Contents
<1> QED
  BY <1>5, <1>6, <1>7 DEF around

\* A claim is bare when it is not backed from two lines before to seven after.
LEMMA ClaimsRight ==
  ASSUME NEW f \in SourceFile, NEW i \in DOMAIN f.lines
  PROVE  BareClaim(f.lines, i) <=> i \in Claims(f) /\ ~Backed(f, i, -2..7)
<1>1. f.lines \in Seq(SUBSET Patterns) /\ DOMAIN f.lines = 1..Len(f.lines)
  BY DEF SourceFile
<1>2. BareClaim(f.lines, i) <=>
        /\ "claim" \in f.lines[i]
        /\ ~ \E j \in 1..Len(f.lines) : j - i \in -2..7 /\ "evidence" \in f.lines[j]
  BY <1>1, ContextLines DEF BareClaim
<1> QED
  BY <1>1, <1>2 DEF Claims, Backed

\* What is backed within a few lines is backed within more.
LEMMA BackedMore ==
  ASSUME NEW f, NEW i, NEW d, NEW e, d \subseteq e, Backed(f, i, d)
  PROVE  Backed(f, i, e)
BY DEF Backed

LEMMA ForbiddenRight ==
  ASSUME NEW t \in WorkingTree
  PROVE  LET verdict == ForbiddenCode(t.files, t.git) IN
         /\ t.git.works /\ BareMessage(t.git.log) => verdict # "PASS"
         /\ UnbackedClaim(t.files, -7..7) => verdict \notin {"PASS", "WARN"}
         /\ verdict = "FAIL" => \/ ForbiddenLine(t.files) \/ UnbackedClaim(t.files, -2..2)
                               \/ BareMessage(t.git.log)
<1> DEFINE log       == t.git.log
           commits   == Newest(Only(log, Unmerged), ClaimCommits)
           recent(i) == IsRecent(log, i, ClaimCommits, Unmerged)
           scanned   == {f \in t.files : f.dir # "spike" /\ ~f.excluded}
           source    == {f \in scanned : f.ext \in {"ts", "js"}}
           hit(f)    == (UNION Contents(f.lines)) \cap (FailRules \ f.exempt) # {}
           bare(f)   == \E i \in DOMAIN f.lines : BareClaim(f.lines, i)
           message   == t.git.works /\ \E c \in Contents(commits) : c.claim /\ ~c.evidence
           line      == \E f \in source : hit(f)
           claim     == \E f \in source : "claim" \notin f.exempt /\ bare(f)
           verdict   == ForbiddenCode(t.files, t.git)
<1>1. log \in Seq(LoggedCommit) /\ Len(log) \in Nat /\ DOMAIN log = 1..Len(log)
      /\ t.files \subseteq SourceFile
  BY DEF WorkingTree
<1>2. /\ verdict = "PASS" => ~message
      /\ verdict \in {"PASS", "WARN"} => ~claim
      /\ verdict = "FAIL" => line \/ claim \/ message
  BY DEF ForbiddenCode, Judge
<1>3. \A c : c \in Contents(commits) <=> \E i \in 1..Len(log) : c = log[i] /\ recent(i)
  BY <1>1, NewestOnly, WindowAssumption
<1>4. message <=> t.git.works /\ BareMessage(log)
  <2>1. BareMessage(log) <=> \E i \in 1..Len(log) : recent(i) /\ log[i].claim /\ ~log[i].evidence
    BY <1>1 DEF BareMessage
  <2> HIDE DEF commits, recent, log
  <2> QED
    BY <1>3, <2>1
<1>5. line => ForbiddenLine(t.files)
  BY DEF ForbiddenLine, Contents
<1>6. claim <=> \E f \in Claiming(t.files) : bare(f)
  BY DEF Claiming
<1>7. \A f \in Claiming(t.files) : f \in SourceFile
  BY <1>1 DEF Claiming
<1>8. claim => UnbackedClaim(t.files, -2..2)
  <2> SUFFICES ASSUME NEW f \in Claiming(t.files), NEW i \in DOMAIN f.lines, BareClaim(f.lines, i)
               PROVE  i \in Claims(f) /\ ~Backed(f, i, -2..2)
    BY <1>6 DEF UnbackedClaim
  <2>1. i \in Claims(f) /\ ~Backed(f, i, -2..7)
    BY <1>7, ClaimsRight
  <2>2. -2..2 \subseteq -2..7
    OBVIOUS
  <2> QED
    BY <2>1, <2>2, BackedMore
<1>9. UnbackedClaim(t.files, -7..7) => claim
  <2> SUFFICES ASSUME NEW f \in Claiming(t.files), NEW i \in Claims(f), ~Backed(f, i, -7..7)
               PROVE  i \in DOMAIN f.lines /\ BareClaim(f.lines, i)
    BY <1>6 DEF UnbackedClaim
  <2>1. i \in DOMAIN f.lines
    BY DEF Claims
  <2>2. -2..7 \subseteq -7..7
    OBVIOUS
  <2>3. ~Backed(f, i, -2..7)
    BY <2>2, BackedMore
  <2> QED
    BY <1>7, <2>1, <2>3, ClaimsRight
<1> HIDE DEF message, line, claim, verdict
<1> QED
  BY <1>2, <1>4, <1>5, <1>8, <1>9 DEF verdict, log

LEMMA ThreeLong ==
  ASSUME NEW s \in [1..3 -> Int]
  PROVE  s \in Seq(Int) /\ Len(s) = 3 /\ DOMAIN s = 1..3 /\ s # <<>>
<1>1. s \in Seq(Int) /\ DOMAIN s = 1..3
  BY SeqDef
<1>2. Len(s) = 3
  BY <1>1
<1>3. s # <<>>
  <2> SUFFICES ASSUME s = <<>> PROVE FALSE
    OBVIOUS
  <2>1. Len(s) = 0
    OBVIOUS
  <2> QED
    BY <1>2, <2>1
<1> QED
  BY <1>1, <1>2, <1>3, Zenon

LEMMA BenchmarkRight ==
  ASSUME NEW baseline, baseline.maxMs \in [Benchmarks -> Nat], NEW measured \in Measured,
         NEW b \in Benchmarks
  PROVE  EvaluateBenchmark(baseline, measured, b) = "FAIL" <=>
           /\ baseline.maxMs[b] > 0
           /\ 2 * Cardinality({i \in DOMAIN measured[b] :
                10 * measured[b][i] > 13 * baseline.maxMs[b]}) > Len(measured[b])
<1> DEFINE s   == measured[b]
           u   == Ascending(s)
           max == baseline.maxMs[b]
           slow == {i \in 1..3 : 10 * s[i] > 13 * max}
<1>1. s \in [1..3 -> Int] /\ max \in Nat
  BY DEF Measured
<1> HIDE DEF s, max
<1>2. s \in Seq(Int) /\ Len(s) = 3 /\ DOMAIN s = 1..3 /\ s # <<>>
  BY <1>1, ThreeLong
<1>3. Sorts(s, u, 3) /\ Len(u) = 3
  BY <1>2, AscendingIsSorted, AscendingSorts
<1>4. Median(s) = u[2]
  <2> HIDE DEF u
  <2>1. Median(s) = CASE s = <<>>        -> 0
                      [] Len(s) % 2 = 1  -> u[Len(u) \div 2 + 1]
                      [] OTHER           -> (u[Len(u) \div 2] + u[Len(u) \div 2 + 1] + 1) \div 2
    BY DEF Median, u
  <2>2. Len(s) % 2 = 1 /\ Len(u) \div 2 + 1 = 2
    BY <1>2, <1>3
  <2> QED
    BY <1>2, <2>1, <2>2
<1> DEFINE x == (13 * max) \div 10
<1>5. x \in Int /\ \A a \in Int : /\ 10 * a > 13 * max <=> a > x
                                  /\ 100 * a > 130 * max <=> a > x
  BY <1>1
<1> HIDE DEF x, u
<1>6. /\ u[2] \in Int
      /\ Cardinality({i \in 1..3 : s[i] > x}) \in Nat
      /\ u[2] > x <=> Cardinality({i \in 1..3 : s[i] > x}) >= 2
  <2>1. 3 \in Nat /\ 2 \in 1..3 /\ 3 - 2 + 1 = 2
    OBVIOUS
  <2>2. u[2] \in Int /\ Above(s, 3, x) \in Nat /\ (u[2] > x <=> Above(s, 3, x) >= 3 - 2 + 1)
    BY <1>3, <1>5, <2>1, MoreThanPlace
  <2> QED
    BY <2>1, <2>2 DEF Above
<1>7. slow = {i \in 1..3 : s[i] > x}
  BY <1>1, <1>5
<1>8. EvaluateBenchmark(baseline, measured, b) = "FAIL" <=> max > 0 /\ u[2] > x
  <2>1. max = 0 => EvaluateBenchmark(baseline, measured, b) # "FAIL"
    BY DEF EvaluateBenchmark, max
  <2>2. max # 0 => EvaluateBenchmark(baseline, measured, b) = DetermineStatus(u[2], max)
    BY <1>4 DEF EvaluateBenchmark, max, s
  <2>3. DetermineStatus(u[2], max) = "FAIL" <=> max <= 0 \/ 100 * u[2] > 130 * max
    BY DEF DetermineStatus, Judge
  <2> QED
    BY <1>1, <1>5, <1>6, <2>1, <2>2, <2>3
<1>9. EvaluateBenchmark(baseline, measured, b) = "FAIL" <=> max > 0 /\ 2 * Cardinality(slow) > Len(s)
  <2> HIDE DEF slow
  <2> DEFINE c == Cardinality(slow)
  <2>1. c \in Nat
    BY <1>6, <1>7
  <2>2. u[2] > x <=> c >= 2
    BY <1>6, <1>7
  <2> HIDE DEF c
  <2>3. c >= 2 <=> 2 * c > Len(s)
    BY <1>2, <2>1
  <2> QED
    BY <1>8, <2>2, <2>3 DEF c
<1> QED
  BY <1>2, <1>9 DEF slow, s, max

LEMMA PerformanceRight ==
  ASSUME NEW t \in WorkingTree, NEW measured \in Measured
  PROVE  PerformanceStatus(t.baseline, measured) = "FAIL" <=> Regressed(t.baseline, measured)
<1>1. t.baseline.maxMs \in [Benchmarks -> Nat]
  BY DEF WorkingTree
<1>2. PerformanceStatus(t.baseline, measured) = "FAIL" <=>
        \E b \in Benchmarks : EvaluateBenchmark(t.baseline, measured, b) = "FAIL"
  BY DEF PerformanceStatus, Judge
<1> DEFINE slow(b) == /\ t.baseline.maxMs[b] > 0
                      /\ 2 * Cardinality({i \in DOMAIN measured[b] :
                           10 * measured[b][i] > 13 * t.baseline.maxMs[b]}) > Len(measured[b])
<1>3. \A b \in Benchmarks : EvaluateBenchmark(t.baseline, measured, b) = "FAIL" <=> slow(b)
  BY <1>1, BenchmarkRight
<1>4. Regressed(t.baseline, measured) <=> \E b \in Benchmarks : slow(b)
  BY DEF Regressed
<1> HIDE DEF slow
<1> QED
  BY <1>2, <1>3, <1>4

\* Where the verifiers have algorithms of their own, their verdicts are those of
\* the rules as far as these are undisputed, whatever the trees and the
\* measurements: numbers sorted, commits picked from the log, lines around a
\* claim, the median of three.
THEOREM VerdictsCorrect == Spec => []VerdictsRight
<1>1. TypeOK => VerdictsRight
  <2> SUFFICES ASSUME TypeOK PROVE VerdictsRight
    OBVIOUS
  <2>1. tree \in WorkingTree /\ Measurements \subseteq Measured
    BY EngineAssumption DEF TypeOK
  <2>2. /\ Passes("adr-compliance", tree) <=> Adr(tree.adr) \in {"PASS", "WARN"}
        /\ Passes("traceability-compliance", tree) <=> Traceability(tree.git) \in {"PASS", "WARN"}
        /\ Passes("forbidden-code", tree) <=> ForbiddenCode(tree.files, tree.git) \in {"PASS", "WARN"}
        /\ Verify("forbidden-code", tree) = ForbiddenCode(tree.files, tree.git)
    BY DEF Passes, Verify
  <2>3. SoundAdrs(tree.adr) =>
          (Passes("adr-compliance", tree) <=> NumbersInOrder(tree.adr))
    BY <2>1, <2>2, AdrRight
  <2>4. tree.git.works =>
          /\ ~Passes("traceability-compliance", tree) => Untraced(tree.git.log, AdoptedSource)
          /\ Untraced(tree.git.log, Adopted) => ~Passes("traceability-compliance", tree)
    BY <2>1, <2>2, TraceabilityRight
  <2>5. /\ tree.git.works /\ BareMessage(tree.git.log) => Verify("forbidden-code", tree) # "PASS"
        /\ UnbackedClaim(tree.files, -7..7) => ~Passes("forbidden-code", tree)
        /\ Verify("forbidden-code", tree) = "FAIL" =>
             \/ ForbiddenLine(tree.files) \/ UnbackedClaim(tree.files, -2..2)
             \/ BareMessage(tree.git.log)
    BY <2>1, <2>2, ForbiddenRight
  <2>6. \A measured \in Measurements :
          PerformanceStatus(tree.baseline, measured) = "FAIL" <=> Regressed(tree.baseline, measured)
    BY <2>1, PerformanceRight
  <2> QED
    BY <2>3, <2>4, <2>5, <2>6 DEF VerdictsRight
<1> QED
  BY <1>1, TypeCorrect, PTL
=============================================================================
