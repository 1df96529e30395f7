------------------------- MODULE AssuranceProperties -------------------------
(* What a team relies on when it lets the assurance engine decide: its       *)
(* verdicts, its exit code and the reports it leaves behind.                 *)
EXTENDS AssuranceEngine

\* The engine's state: results are statuses, reports are whole, torn or absent.
TypeOK ==
  /\ tree \in Trees /\ runs \in 0..MaxRuns /\ edits \in 0..MaxEdits /\ faults \in 0..MaxFaults
  /\ run = NoRun \/ run \in
       [phase : Phases, target : Targets, at : 1..Len(ALL_VERIFIERS),
        results : [Verifier -> Statuses \cup {NoStatus}],
        performance : Statuses \cup {NoStatus},
        write : 1..Len(ReportFiles), exit : {0, 1},
        ok : SUBSET Verifier, failing : SUBSET Verifier, refused : BOOLEAN]
  /\ DOMAIN files = Files
  /\ \A f \in Files : files[f] \in {NoFile, Torn} \cup Report(f)
  /\ history \in {NoFile, Torn} \/ history \in Seq(0..MaxRuns)

----------------------------------------------------------------------------
(* The verifiers and the rules they stand for.                               *)

\* The k newest commits of a kind: fewer than k of the kind are newer.
IsRecent(log, i, k, kind) ==
  log[i] \in kind /\ Cardinality({j \in 1..(i - 1) : log[j] \in kind}) < k
AdoptedSource == {c \in Adopted : c.source}

\* No number is missing and none is there twice.
NumbersInOrder(adr) ==
  LET numbers == {adr.files[i].number : i \in DOMAIN adr.files} IN
  \E first \in numbers : numbers = first..(first + Len(adr.files) - 1)
SoundAdrs(adr) ==
  /\ adr.dir /\ adr.files # <<>>
  /\ \A i \in DOMAIN adr.files :
       LET f == adr.files[i] IN f.named /\ f.readable /\ f.status /\ f.decision

\* A claim in line i has evidence at a distance of lines in d.
Backed(f, i, d) ==
  \E j \in DOMAIN f.lines : j - i \in d /\ "evidence" \in f.lines[j]
Claims(f) == {i \in DOMAIN f.lines : "claim" \in f.lines[i]}
\* The files searched for claims.
Claiming(source) ==
  {f \in source : f.dir # "spike" /\ ~f.excluded /\ f.ext \in {"ts", "js"} /\ "claim" \notin f.exempt}

UnbackedClaim(source, d) ==
  \E f \in Claiming(source) : \E i \in Claims(f) : ~Backed(f, i, d)
ForbiddenLine(source) ==
  \E f \in source : \E i \in DOMAIN f.lines : f.lines[i] \cap FailRules # {}

Untraced(log, kind) ==
  \E i \in DOMAIN log :
    IsRecent(log, i, TraceCommits, kind) /\ log[i].source /\ log[i].sections # TraceSections
BareMessage(log) ==
  \E i \in DOMAIN log :
    IsRecent(log, i, ClaimCommits, Unmerged) /\ log[i].claim /\ ~log[i].evidence

\* Too slow, most of the time.
Regressed(baseline, measured) ==
  \E b \in Benchmarks : baseline.maxMs[b] > 0 /\
    2 * Cardinality({i \in DOMAIN measured[b] :
          10 * measured[b][i] > 13 * baseline.maxMs[b]}) > Len(measured[b])

\* Where a verifier's way to its verdict is not the rule's, the two agree as
\* far as the rule is undisputed.  ADRs in any order of the directory pass
\* exactly when their numbers have no gap and no double.  A traceability
\* failure names one of the last source-modifying commits, and no incomplete
\* one among the last commits is missed.  A claim without evidence in sight
\* (seven lines) is never missed, and claims with evidence beside them (two
\* lines) are no reason to fail; a bare claim in the last commit messages
\* leaves no PASS.  The benchmarks fail exactly when most runs of one were more
\* than 30 % slower than its baseline.
VerdictsRight ==
  /\ SoundAdrs(tree.adr) =>
       (Passes("adr-compliance", tree) <=> NumbersInOrder(tree.adr))
  /\ tree.git.works =>
       /\ ~Passes("traceability-compliance", tree) => Untraced(tree.git.log, AdoptedSource)
       /\ Untraced(tree.git.log, Adopted) => ~Passes("traceability-compliance", tree)
       /\ BareMessage(tree.git.log) => Verify("forbidden-code", tree) # "PASS"
  /\ UnbackedClaim(tree.files, -7..7) => ~Passes("forbidden-code", tree)
  /\ Verify("forbidden-code", tree) = "FAIL" =>
       \/ ForbiddenLine(tree.files)
       \/ UnbackedClaim(tree.files, -2..2)
       \/ BareMessage(tree.git.log)
  /\ BaselineLoads(tree.baseline) =>
       \A measured \in Measurements :
         PerformanceStatus(tree.baseline, measured) = "FAIL"
           <=> Regressed(tree.baseline, measured)

\* A run of all verifiers that ended by itself over one tree.
Ended(exit) ==
  run.phase = "exited" /\ run.target = "all" /\ ~run.refused /\ run.exit = exit /\ edits = 0

\* Rule 39 as its verifier's header has it: a run that exits 0 has seen the
\* whole block in each of the last 10 source-modifying commits.
LastSourceCommitsTraced ==
  Ended(0) => ~Untraced(tree.git.log, AdoptedSource)

\* Rule 40 as its verifier's comment has it: after a run that exits 0 every
\* claim in the source has evidence within 5 lines.
EvidenceWithinFive ==
  Ended(0) => ~UnbackedClaim(tree.files, -5..5)

\* Rule 40 as its verifier's header has it: a bare claim in a commit message
\* makes a WARN, so that it is never the messages that make the verdict a FAIL.
BareMessagesWarn ==
  Ended(1) /\ run.results["forbidden-code"] = "FAIL" =>
    ForbiddenCode(tree.files, [tree.git EXCEPT !.log = <<>>]) = "FAIL"

\* Rule 42 as its verifier's comment has it: after a run that exits 0 the
\* sections of every prompt come in the order of the list.
SectionsInOrder ==
  Ended(0) =>
    \A d \in tree.prompts : d.dir # "elsewhere" /\ ~d.excluded /\ IsPromptFile(d) =>
      Only(d.sections, Contents(PromptSections)) = PromptSections

----------------------------------------------------------------------------
(* The exit code.                                                            *)

\* A run that exits 0 was let pass by every verifier it was to ask: at some
\* moment of the run the tree was acceptable to it, it did not throw, the
\* benchmarks were fast enough and all reports were written.  A run that exits
\* 1 has a cause in the tree, in the benchmarks or in its writes.
GateDecides ==
  run.phase = "exited" =>
    /\ run.exit = 0 => /\ Asked(run) \subseteq run.ok /\ ~run.refused
                       /\ run.performance # "FAIL"
    /\ run.exit = 1 => \/ run.target = "unknown" \/ run.refused
                       \/ run.performance = "FAIL"
                       \/ Asked(run) \cap run.failing # {}

----------------------------------------------------------------------------
(* The reports.                                                              *)

Whole(f) == files[f] \notin {NoFile, Torn}
\* The run a file is of.
RunOf(f) ==
  IF f = "performance-history" THEN history[Len(history)] ELSE files[f].run
Written(f) ==
  IF f = "performance-history" THEN history \notin {NoFile, Torn, <<>>} ELSE Whole(f)

\* Whatever was killed or refused, of two files of a series the one written
\* earlier is of the same run or of a later one; and a whole run's reports are
\* all of that run, the summary as good or bad as the exit code, the benchmarks'
\* reports too unless no baseline could be loaded.
EvidenceInOrder ==
  /\ \A s \in {ReportFiles, PerformanceFiles} : \A j \in DOMAIN s : \A i \in 1..j :
       Written(s[i]) /\ Written(s[j]) => RunOf(s[i]) >= RunOf(s[j])
  /\ run.phase = "exited" /\ run.target = "all" /\ ~run.refused =>
       /\ \A f \in Contents(ReportFiles) : Written(f) /\ RunOf(f) = runs
       /\ OverallStatus(files["verification-summary"].says) = "FAIL" <=> run.exit = 1
       /\ run.performance # NoStatus =>
            \A f \in Contents(PerformanceFiles) : Written(f) /\ RunOf(f) = runs

\* An entry but the oldest of a full history is lost only by a fault of the
\* very step that reads and writes the history, and only when that step is hit:
\* no other write, verdict, kill or run costs an entry.
HistoryKept ==
  [][history \notin {NoFile, Torn} /\ (faults' = faults \/ ~AtHistory) =>
       /\ history' \notin {NoFile, Torn}
       /\ \A i \in DOMAIN history :
            Len(history) - i < HistoryCap - 1 => history[i] \in Contents(history')]_vars

----------------------------------------------------------------------------
\* Every run comes to an end by itself, under FairSpec.
EveryRunEnds ==
  \A n \in 1..MaxRuns : (runs = n /\ Ongoing) ~> (runs = n /\ ~Ongoing)
=============================================================================
