------------------------------ MODULE Verifiers ------------------------------
(* The ten verifiers of packages/engineering-assurance/src/verifiers, as     *)
(* functions from what they read of the repository to their verdict.         *)
(*                                                                           *)
(* A document, a source file or a commit is a record of what the verifiers'  *)
(* patterns find in it; the text itself is left out.  A verifier that lets   *)
(* an exception of the file system out THROWS.                               *)
EXTENDS Selections

CONSTANTS
  ClaimCommits,   \* commits searched for bare claims: count = 20
  TraceCommits    \* commits searched for traceability blocks: -10

ASSUME WindowAssumption == ClaimCommits \in Nat \ {0} /\ TraceCommits \in Nat \ {0}

Statuses == {"PASS", "WARN", "FAIL"}
Verdicts == Statuses \cup {"THROWS"}

\* The end of every verify: issues, then warnings, decide.
Judge(throws, fails, warns) ==
  IF throws THEN "THROWS" ELSE IF fails THEN "FAIL" ELSE IF warns THEN "WARN" ELSE "PASS"

Contents(s) == {s[i] : i \in DOMAIN s}
TraceSections == {"Task", "Files Modified", "Functions Modified", "Commit", "Git Diff",
  "Verification Command", "Expected", "Raw Output", "Failure Output", "Reproduction",
  "Tests", "Diff Block"}

LoggedCommit ==
  [merge : BOOLEAN, adopted : BOOLEAN, source : BOOLEAN, claim : BOOLEAN,
   evidence : BOOLEAN, sections : SUBSET TraceSections]
\* git log --no-merges, and --since the adoption of the traceability block.
Unmerged == {c \in LoggedCommit : ~c.merge}
Adopted  == {c \in Unmerged : c.adopted}
\* -n of git log.
Newest(s, n) == SubSeq(s, 1, IF Len(s) < n THEN Len(s) ELSE n)
Unreadable(fs) == \E f \in fs : ~f.readable

----------------------------------------------------------------------------
(* Documents.                                                                *)

\* The 13 required documents and the files RULE_DOC_PATTERN matches, by their
\* three kinds: required only, both, rule only.
RequiredDocs == {"RULES", "27-Rules"}
RuleDocs     == {"27-Rules", "23-Engineering"}

\* gov: the documents there, those declaring an Enforcement Type, those that
\* cannot be read.
Governance(gov) ==
  LET rules == RuleDocs \cap gov.docs IN
  Judge(rules \cap gov.unreadable # {},
        ~(RequiredDocs \subseteq gov.docs /\ rules \subseteq gov.declared), FALSE)

\* Mutant: the numbers are compared in directory order.
AdrUnsorted(adr) ==
  LET named   == Only(adr.files, {f \in Contents(adr.files) : f.named})
      numbers == [i \in DOMAIN named |-> named[i].number] IN
  Judge(Unreadable(Contents(named)),
        \/ ~adr.dir \/ adr.files = <<>> \/ named # adr.files
        \/ \E f \in Contents(named) : ~(f.status /\ f.decision)
        \/ \E i \in 2..Len(numbers) : numbers[i] # numbers[i - 1] + 1,
        \E f \in Contents(named) : ~f.context)

\* A file with a name of another form is an issue and is not read.
Adr(adr) ==
  LET named   == Only(adr.files, {f \in Contents(adr.files) : f.named})
      numbers == Ascending([i \in DOMAIN named |-> named[i].number]) IN
  Judge(Unreadable(Contents(named)),
        \/ ~adr.dir \/ adr.files = <<>> \/ named # adr.files
        \/ \E f \in Contents(named) : ~(f.status /\ f.decision)
        \/ \E i \in 2..Len(numbers) : numbers[i] # numbers[i - 1] + 1,
        \E f \in Contents(named) : ~f.context)

SpikeEvidence == {"evidence-phase1.json", "trace-report.json", "results-run8-1h.json",
                  "results-run7.json", "EAR-FINAL-REPORT.md"}

\* evidence/ is only listed; it need not exist.
Evidence(spike) ==
  Judge(~spike.listable, ~(SpikeEvidence \subseteq spike.present), FALSE)

\* REQUIRED_SECTIONS; a prompt is the sections it has, in its order.
PromptSections ==
  <<"Problem Definition", "Root Cause Analysis", "Constraints", "Architecture Impact",
    "Files to Modify", "Functions to Modify", "Production Code", "Unit Tests",
    "Integration Tests", "Verification Commands", "Expected Output", "Failure Output",
    "Rollback Procedure", "Engineering Traceability Block",
    "Evidence Required Before Completion">>

\* Governance documents and ADRs are no prompts whatever they are called; the
\* names "prompts" and "docs/prompts" of directories say prompt too.
IsPromptFile(doc) ==
  /\ doc.dir \notin {"docs/governance", "docs/adr"}
  /\ doc.dir \in {"prompts", "docs/prompts"} \/ doc.named \/ doc.directive

\* Markdown below prompts, docs and spikes; docs/prompts is below docs.
PromptStructure(docs) ==
  LET scanned == {d \in docs : d.dir # "elsewhere" /\ ~d.excluded}
      prompts == {d \in scanned : IsPromptFile(d)} IN
  Judge(Unreadable(scanned),
        \E p \in prompts : ~(Contents(PromptSections) \subseteq Contents(p.sections)), FALSE)

----------------------------------------------------------------------------
(* Source files.  A line is the set of patterns it matches.                  *)

DriftRules == {"ADR-009-no-nextjs-in-sdk", "ADR-012-no-flat-sqlite-columns",
               "ADR-006-no-postgres-in-spike"}
\* The base directory of a rule's glob.
BaseDir(rule) == IF rule = "ADR-009-no-nextjs-in-sdk" THEN "sdk" ELSE "spike"

\* Every file found by a rule's glob (base directory, extension .ts) is tested.
ArchitectureDrift(files) ==
  LET scanned == {f \in files : f.dir \in {"sdk", "spike"} /\ ~f.excluded} IN
  Judge(Unreadable(scanned),
        \E f \in scanned, r \in DriftRules :
          f.ext = "ts" /\ f.dir = BaseDir(r) /\ r \in UNION Contents(f.lines),
        FALSE)

WarnRules == {"todo", "console-log", "placeholder"}
FailRules == {"eval", "child-process", "pseudocode"}

\* The lines looked at around line i: two before it, seven after it.
Context(lines, i) ==
  SubSeq(lines, IF i > 2 THEN i - 2 ELSE 1, IF i + 7 < Len(lines) THEN i + 7 ELSE Len(lines))

BareClaim(lines, i) ==
  "claim" \in lines[i] /\ "evidence" \notin UNION Contents(Context(lines, i))

\* Mutant: the context starts at the claim.
ForbiddenCodeForward(files, git) ==
  LET scanned == {f \in files : f.dir # "spike" /\ ~f.excluded}
      source  == {f \in scanned : f.ext \in {"ts", "js"}}
      Hit(f, rules) == (UNION Contents(f.lines)) \cap (rules \ f.exempt) # {}
      Ahead(lines, i) == SubSeq(lines, i, IF i + 7 < Len(lines) THEN i + 7 ELSE Len(lines))
      commits == Newest(Only(git.log, Unmerged), ClaimCommits) IN
  Judge(Unreadable(scanned),
        \/ \E f \in source : Hit(f, FailRules)
        \/ \E f \in source : "claim" \notin f.exempt /\ \E i \in DOMAIN f.lines :
             "claim" \in f.lines[i] /\ "evidence" \notin UNION Contents(Ahead(f.lines, i))
        \/ git.works /\ \E c \in Contents(commits) : c.claim /\ ~c.evidence,
        \E f \in source : Hit(f, WarnRules))

\* Rules by severity, except in the files exempt from them; bare claims, in
\* files and in messages, fail.  Without git there are no messages.
ForbiddenCode(files, git) ==
  LET scanned == {f \in files : f.dir # "spike" /\ ~f.excluded}
      source  == {f \in scanned : f.ext \in {"ts", "js"}}
      Hit(f, rules) == (UNION Contents(f.lines)) \cap (rules \ f.exempt) # {}
      commits == Newest(Only(git.log, Unmerged), ClaimCommits) IN
  Judge(Unreadable(scanned),
        \/ \E f \in source : Hit(f, FailRules)
        \/ \E f \in source : "claim" \notin f.exempt /\ \E i \in DOMAIN f.lines : BareClaim(f.lines, i)
        \/ git.works /\ \E c \in Contents(commits) : c.claim /\ ~c.evidence,
        \E f \in source : Hit(f, WarnRules))

----------------------------------------------------------------------------
(* Commits, audit, round trip.                                               *)

\* git log --no-merges --since -10, the newest first; only then are the
\* commits dropped that touch no source file.
RecentCommits(git) ==
  IF git.works
  THEN Newest(Only(git.log, Adopted), TraceCommits)
  ELSE <<>>

Traceability(git) ==
  Judge(FALSE,
        \E c \in Contents(RecentCommits(git)) : c.source /\ ~(TraceSections \subseteq c.sections),
        FALSE)

\* The two counts of an answer in JSON; a field that is missing counts 0.
CountHighCritical(audit) ==
  IF audit.metadata > audit.advisories THEN audit.metadata ELSE audit.advisories

\* Exit code and output decide how the answer is read, not how it is judged.
\* No output, or no JSON, is a warning.
DependencyAudit(audit) ==
  Judge(FALSE, audit.stdout = "json" /\ CountHighCritical(audit) > 0, audit.stdout # "json")

\* canonical: the stages that succeed of loading canonical-record.ts and of the
\* round trip of a record through SQLite.
Stages == {"exists", "imports", "exports", "runs", "equal", "rejects"}
Serialization(canonical) == Judge(FALSE, canonical # Stages, FALSE)

----------------------------------------------------------------------------
(* Benchmarks.                                                               *)

Benchmarks == {"verify", "architecture", "serialization"}

\* loadBaseline throws on a file that is missing, no JSON, or holds a metric
\* that is no positive number.
BaselineLoads(baseline) == baseline.file = "ok"

\* Mutant: the slowest of the runs.
MedianSlowest(values) ==
  LET sorted == Ascending(values) IN
  IF values = <<>> THEN 0 ELSE sorted[Len(sorted)]

Median(values) ==
  LET sorted == Ascending(values)
      mid    == Len(sorted) \div 2 IN
  CASE values = <<>>        -> 0
    [] Len(values) % 2 = 1  -> sorted[mid + 1]
    [] OTHER                -> (sorted[mid] + sorted[mid + 1] + 1) \div 2

\* ratio > 1.3, ratio > 1.15.
DetermineStatus(actualMs, baselineMs) ==
  Judge(FALSE, baselineMs <= 0 \/ 100 * actualMs > 130 * baselineMs,
        100 * actualMs > 115 * baselineMs)

\* A benchmark without a metric (0) passes.
EvaluateBenchmark(baseline, measured, b) ==
  IF baseline.maxMs[b] = 0 THEN "PASS"
  ELSE DetermineStatus(Median(measured[b]), baseline.maxMs[b])

PerformanceStatus(baseline, measured) ==
  LET results == {EvaluateBenchmark(baseline, measured, b) : b \in Benchmarks} IN
  Judge(FALSE, "FAIL" \in results, "WARN" \in results)

----------------------------------------------------------------------------
(* What the verifiers read.                                                  *)

Patterns == DriftRules \cup WarnRules \cup FailRules \cup {"claim", "evidence"}
SourceFile ==
  [dir : {"sdk", "spike", "package", "app"}, ext : {"ts", "js", "other"},
   excluded : BOOLEAN, readable : BOOLEAN,
   exempt : SUBSET Patterns, lines : Seq(SUBSET Patterns)]
AdrFile ==
  [named : BOOLEAN, number : Nat, readable : BOOLEAN, status : BOOLEAN,
   decision : BOOLEAN, context : BOOLEAN]
Document ==
  [dir : {"prompts", "docs/prompts", "docs", "docs/governance", "docs/adr", "spikes",
          "elsewhere"},
   named : BOOLEAN, directive : BOOLEAN, excluded : BOOLEAN, readable : BOOLEAN,
   sections : Seq(Contents(PromptSections))]

\* A working tree, its git log and the answer of the audit.
WorkingTree ==
  [governance : [docs : SUBSET (RequiredDocs \cup RuleDocs), declared : SUBSET RuleDocs,
                 unreadable : SUBSET RuleDocs],
   adr        : [dir : BOOLEAN, files : Seq(AdrFile)],
   spike      : [listable : BOOLEAN, present : SUBSET SpikeEvidence],
   files      : SUBSET SourceFile,
   canonical  : SUBSET Stages,
   git        : [works : BOOLEAN, log : Seq(LoggedCommit)],
   audit      : [stdout : {"json", "unparsable", "none"}, metadata : Nat, advisories : Nat],
   prompts    : SUBSET Document,
   baseline   : [file : {"ok", "missing", "poisoned"}, maxMs : [Benchmarks -> Nat]]]

\* Each benchmark is run three times; the clock is no monotone one.
Measured == [Benchmarks -> [1..3 -> Int]]
=============================================================================
