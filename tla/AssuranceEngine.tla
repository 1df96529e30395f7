--------------------------- MODULE AssuranceEngine ---------------------------
(* The engineering assurance engine, packages/engineering-assurance/src:     *)
(* runs of its command line over one working tree and one evidence/.         *)
(*                                                                           *)
(* One step of a run is one verifier, one measurement or one file written.   *)
(* Between the steps of a run the tree may be edited and the run be killed;  *)
(* runs do not overlap.  Each write may fail, the history may turn out to be *)
(* unreadable, and a write that fails or is killed may leave half a file.    *)
EXTENDS Verifiers

CONSTANTS
  Trees,           \* the states of the working tree: what each verifier reads
  Edits,           \* the edits: from one tree to another
  FirstTrees,      \* the trees before the first run
  FirstHistory,    \* and the history, of runs numbered 0 or missing
  Targets,         \* the arguments of the command
  NoFile, Torn,    \* a file that is missing, and one half written
  Measurements,    \* what a run of the benchmarks may measure
  HistoryCap,      \* entries kept in performance-history.json: 50
  MaxRuns,         \* bound: runs
  MaxEdits,        \* bound: edits
  MaxFaults        \* bound: kills, failing writes and reads

Verifier == {"governance-compliance", "adr-compliance", "evidence-completeness",
  "architecture-drift", "serialization-consistency", "forbidden-code",
  "dependency-audit", "traceability-compliance", "prompt-structure",
  "performance-regression"}

ASSUME EngineAssumption ==
  /\ NoFile # Torn
  /\ FirstHistory \in Seq({0}) \cup {NoFile}
  /\ Trees \subseteq WorkingTree /\ Measurements \subseteq Measured
  /\ FirstTrees \subseteq Trees /\ Edits \subseteq Trees \X Trees
  /\ Targets \subseteq Verifier \cup {"all", "unknown"}
  /\ HistoryCap \in Nat \ {0} /\ MaxRuns \in Nat /\ MaxEdits \in Nat
  /\ MaxFaults \in Nat

VARIABLES
  tree,      \* the working tree
  run,       \* the last run
  files,     \* the reports in evidence/
  history,   \* performance-history.json: the runs with an entry in it
  runs,      \* the number of the last run
  edits,     \* edits so far
  faults     \* kills, failing writes and reads so far

vars == <<tree, run, files, history, runs, edits, faults>>

ALL_VERIFIERS == <<"governance-compliance", "adr-compliance", "evidence-completeness",
  "architecture-drift", "serialization-consistency", "forbidden-code",
  "dependency-audit", "traceability-compliance", "prompt-structure",
  "performance-regression">>

\* The files of generateReports, in the order they are written.
ReportFiles == <<"verification-summary">> \o ALL_VERIFIERS \o
  <<"ear-report", "governance-report", "adr-report", "architecture-report",
    "security-report">>
\* The files of writeReports, but for the history after the second.
PerformanceFiles == <<"performance-report", "performance-summary", "performance-history",
  "benchmark-results">>

\* The verifiers whose results a file holds.
Covers(file) ==
  CASE file \in {"verification-summary", "ear-report"} -> Verifier
    [] file \in Verifier             -> {file}
    [] file = "governance-report"    -> {"governance-compliance"}
    [] file = "adr-report"           -> {"adr-compliance"}
    [] file = "architecture-report"  -> {"architecture-drift", "serialization-consistency"}
    [] file = "security-report"      -> {"dependency-audit", "forbidden-code"}
    [] file \in {"performance-report", "performance-summary"} -> {"performance-regression"}
    [] OTHER                         -> {}

Files  == (Contents(ReportFiles) \cup Contents(PerformanceFiles)) \ {"performance-history"}
NoStatus == "none"
Report(f) == [run : 0..MaxRuns, says : [Covers(f) -> Statuses \cup {NoStatus}]]

\* A file that is missing or torn is told from a whole one.
ASSUME FileAssumption ==
  \A x \in {NoFile, Torn} : x \notin Seq(0..MaxRuns) /\ \A f \in Files : x \notin Report(f)

\* getOverallStatus; the empty list of results is all SKIP.
OverallStatus(results) ==
  LET all == {results[v] : v \in DOMAIN results} IN
  CASE "FAIL" \in all -> "FAIL"
    [] "FAIL" \notin all /\ "WARN" \in all -> "WARN"
    [] "FAIL" \notin all /\ "WARN" \notin all -> IF all \subseteq {"SKIP"} THEN "SKIP" ELSE "PASS"

Verify(v, t) ==
  CASE v = "governance-compliance"     -> Governance(t.governance)
    [] v = "adr-compliance"            -> Adr(t.adr)
    [] v = "evidence-completeness"     -> Evidence(t.spike)
    [] v = "architecture-drift"        -> ArchitectureDrift(t.files)
    [] v = "serialization-consistency" -> Serialization(t.canonical)
    [] v = "forbidden-code"            -> ForbiddenCode(t.files, t.git)
    [] v = "dependency-audit"          -> DependencyAudit(t.audit)
    [] v = "traceability-compliance"   -> Traceability(t.git)
    [] v = "prompt-structure"          -> PromptStructure(t.prompts)

\* Whether a verifier lets the tree pass; the benchmarks are not in the tree,
\* their baseline is.
Passes(v, t) ==
  IF v = "performance-regression" THEN BaselineLoads(t.baseline)
  ELSE Verify(v, t) \in {"PASS", "WARN"}
Passing(t) == {v \in Verifier : Passes(v, t)}

NoRun == [phase |-> "none"]
Phases == {"verify", "measured", "report", "exited", "killed"}
Ongoing == run.phase \in {"verify", "measured", "report"}
\* The verifier at work, and those the run is to ask.
Current == IF run.target = "all" THEN ALL_VERIFIERS[run.at] ELSE run.target
Asked(r) == IF r.target = "all" THEN Verifier ELSE {r.target}

----------------------------------------------------------------------------
(* The command.                                                              *)

\* ok, failing: the verifiers that at some moment of the run so far would
\* have let the tree pass, or not; refused: a write failed.
Start(target) ==
  /\ ~Ongoing /\ runs < MaxRuns
  /\ runs' = runs + 1
  /\ run' = [phase |-> IF target = "unknown" THEN "exited" ELSE "verify",
             target |-> target, at |-> 1,
             results |-> [v \in Verifier |-> NoStatus], performance |-> NoStatus,
             write |-> 1, exit |-> IF target = "unknown" THEN 1 ELSE 0,
             ok |-> Passing(tree), failing |-> Verifier \ Passing(tree), refused |-> FALSE]
  /\ UNCHANGED <<tree, files, history, edits, faults>>

\* Mutant: an exception of a verifier leaves no result.
SettleUncaught(r, v, verdict) ==
  LET status  == verdict
      settled == [r EXCEPT !.phase = "verify", !.write = 1,
                    !.results[v] = IF verdict = "THROWS" THEN @ ELSE status] IN
  IF r.target # "all"
  THEN [settled EXCEPT !.phase = "exited", !.exit = IF status = "FAIL" THEN 1 ELSE 0]
  ELSE IF r.at = Len(ALL_VERIFIERS) THEN [settled EXCEPT !.phase = "report"]
  ELSE [settled EXCEPT !.at = @ + 1]

\* Mutant: a verifier that threw is run again.
SettleRetry(r, v, verdict) ==
  LET settled == [r EXCEPT !.phase = "verify", !.write = 1, !.results[v] = verdict] IN
  IF verdict = "THROWS" THEN r
  ELSE IF r.target # "all"
  THEN [settled EXCEPT !.phase = "exited", !.exit = IF verdict = "FAIL" THEN 1 ELSE 0]
  ELSE IF r.at = Len(ALL_VERIFIERS) THEN [settled EXCEPT !.phase = "report"]
  ELSE [settled EXCEPT !.at = @ + 1]

\* What becomes of a verdict: an exception is a FAIL of its verifier in
\* runAllVerifiers, and ends a run of one verifier by main's catch.
Settle(r, v, verdict) ==
  LET status  == IF verdict = "THROWS" THEN "FAIL" ELSE verdict
      settled == [r EXCEPT !.phase = "verify", !.write = 1, !.results[v] = status] IN
  IF r.target # "all"
  THEN [settled EXCEPT !.phase = "exited", !.exit = IF status = "FAIL" THEN 1 ELSE 0]
  ELSE IF r.at = Len(ALL_VERIFIERS) THEN [settled EXCEPT !.phase = "report"]
  ELSE [settled EXCEPT !.at = @ + 1]

RunVerifier ==
  /\ run.phase = "verify" /\ Current # "performance-regression"
  /\ run' = Settle(run, Current, Verify(Current, tree))
  /\ UNCHANGED <<tree, files, history, runs, edits, faults>>

\* Without a baseline nothing is measured, and no report written.
LoadBaseline ==
  /\ run.phase = "verify" /\ Current = "performance-regression"
  /\ ~BaselineLoads(tree.baseline)
  /\ run' = Settle(run, Current, "FAIL")
  /\ UNCHANGED <<tree, files, history, runs, edits, faults>>

\* Three runs of three benchmarks; what the commands answer is ignored, and
\* each is stopped after 10 seconds.
Measure ==
  /\ run.phase = "verify" /\ Current = "performance-regression"
  /\ BaselineLoads(tree.baseline)
  /\ \E measured \in Measurements :
       run' = [run EXCEPT !.phase = "measured",
                 !.performance = PerformanceStatus(tree.baseline, measured)]
  /\ UNCHANGED <<tree, files, history, runs, edits, faults>>

----------------------------------------------------------------------------
(* The reports.                                                              *)

LastEntries(h, n) == SubSeq(h, IF Len(h) > n THEN Len(h) - n + 1 ELSE 1, Len(h))

\* Mutant: the first entries are kept.
AppendedFirst(h) ==
  IF h \in {NoFile, Torn} THEN <<runs>>
  ELSE SubSeq(Append(h, runs), 1, IF Len(h) < HistoryCap THEN Len(h) + 1 ELSE HistoryCap)

\* Mutant: the file is not read.
AppendedAfresh(h) == <<runs>>

\* The history with an entry of this run; what cannot be parsed is given up.
Appended(h) ==
  LastEntries(IF h \in {NoFile, Torn} THEN <<runs>> ELSE Append(h, runs), HistoryCap)

Content(file, results) ==
  [run |-> runs, says |-> [v \in Covers(file) |-> results[v]]]

FileAtWork == IF run.phase = "measured" THEN PerformanceFiles[run.write] ELSE ReportFiles[run.write]

\* One writeFileSync of writeReports; after the last verify returns.
WritePerformance ==
  /\ run.phase = "measured"
  /\ IF FileAtWork = "performance-history"
     THEN history' = Appended(history) /\ UNCHANGED files
     ELSE /\ files' = [files EXCEPT ![FileAtWork] = Content(FileAtWork,
                         [v \in {"performance-regression"} |-> run.performance])]
          /\ UNCHANGED history
  /\ run' = IF run.write < Len(PerformanceFiles) THEN [run EXCEPT !.write = @ + 1]
            ELSE Settle(run, "performance-regression", run.performance)
  /\ UNCHANGED <<tree, runs, edits, faults>>

\* Mutant: one write too many.
WriteReportPast ==
  /\ run.phase = "report"
  /\ files' = [files EXCEPT ![FileAtWork] = Content(FileAtWork, run.results)]
  /\ run' = IF run.write <= Len(ReportFiles) THEN [run EXCEPT !.write = @ + 1]
            ELSE [run EXCEPT !.phase = "exited"]
  /\ UNCHANGED <<tree, history, runs, edits, faults>>

\* One writeFileSync of generateReports; after the last the run exits.
WriteReport ==
  /\ run.phase = "report"
  /\ files' = [files EXCEPT ![FileAtWork] = Content(FileAtWork, run.results)]
  /\ run' = IF run.write < Len(ReportFiles) THEN [run EXCEPT !.write = @ + 1]
            ELSE [run EXCEPT !.phase = "exited",
                    !.exit = IF \E v \in Verifier : run.results[v] = "FAIL" THEN 1 ELSE 0]
  /\ UNCHANGED <<tree, history, runs, edits, faults>>

\* A file opened for writing is empty until it is written.
Truncated(file) ==
  IF file = "performance-history" THEN history' = Torn /\ UNCHANGED files
  ELSE files' = [files EXCEPT ![file] = Torn] /\ UNCHANGED history

\* An exception of writeFileSync (or mkdirSync), before the file is opened or
\* after: verify throws, or generateReports does and main's catch ends the run.
WriteFails ==
  /\ run.phase \in {"measured", "report"}
  /\ faults < MaxFaults /\ faults' = faults + 1
  /\ LET r == [run EXCEPT !.refused = TRUE] IN
     run' = IF run.phase = "measured" THEN Settle(r, "performance-regression", "THROWS")
            ELSE [r EXCEPT !.phase = "exited", !.exit = 1]
  /\ UNCHANGED <<files, history>> \/ Truncated(FileAtWork)
  /\ UNCHANGED <<tree, runs, edits>>

AtHistory == run.phase = "measured" /\ FileAtWork = "performance-history"

\* The history is there but readFileSync throws: the catch gives it up like
\* one that does not parse.
ReadFails ==
  /\ AtHistory /\ history # NoFile
  /\ faults < MaxFaults /\ faults' = faults + 1
  /\ history' = Appended(Torn)
  /\ run' = [run EXCEPT !.write = @ + 1]
  /\ UNCHANGED <<tree, files, runs, edits>>

----------------------------------------------------------------------------
(* What happens to a run.                                                    *)

\* Killed, in a write perhaps.
Kill ==
  /\ Ongoing /\ faults < MaxFaults /\ faults' = faults + 1
  /\ run' = [run EXCEPT !.phase = "killed"]
  /\ \/ UNCHANGED <<files, history>>
     \/ run.phase \in {"measured", "report"} /\ Truncated(FileAtWork)
  /\ UNCHANGED <<tree, runs, edits>>

Edit ==
  /\ edits < MaxEdits /\ edits' = edits + 1
  /\ \E t \in {t \in Trees : <<tree, t>> \in Edits} :
       /\ tree' = t
       /\ run' = IF Ongoing
                 THEN [run EXCEPT !.ok = @ \cup Passing(t),
                         !.failing = @ \cup (Verifier \ Passing(t))]
                 ELSE run
  /\ UNCHANGED <<files, history, runs, faults>>

----------------------------------------------------------------------------
Init ==
  /\ tree \in FirstTrees /\ run = NoRun /\ runs = 0 /\ edits = 0 /\ faults = 0
  /\ files = [f \in Files |-> NoFile]
  /\ history = FirstHistory

Step == RunVerifier \/ LoadBaseline \/ Measure \/ WritePerformance \/ WriteReport
        \/ WriteFails \/ ReadFails

Next == Step \/ Kill \/ Edit \/ \E target \in Targets : Start(target)

Spec == Init /\ [][Next]_vars
\* A run goes on until it ends: its commands are stopped after 10 or 30 s.
FairSpec == Spec /\ WF_vars(Step)
=============================================================================
