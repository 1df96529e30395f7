----------------------------- MODULE MCAssurance -----------------------------
(* Instances of the assurance engine for TLC: a clean tree and its edits,    *)
(* each of them changing what one or two verifiers read.                     *)
EXTENDS AssuranceProperties, SequencesExt

Name(n) == [named |-> TRUE, number |-> n, readable |-> TRUE, status |-> TRUE,
            decision |-> TRUE, context |-> TRUE]
Source(dir, lines) == [dir |-> dir, ext |-> "ts", excluded |-> FALSE, readable |-> TRUE,
                       exempt |-> {}, lines |-> lines]
Lines(n) == [i \in 1..n |-> IF i = 1 THEN {"claim"} ELSE IF i = n THEN {"evidence"} ELSE {}]
LinesBack(n) == [i \in 1..n |-> IF i = n THEN {"claim"} ELSE IF i = 1 THEN {"evidence"} ELSE {}]
Claim == Lines(3)
Commit == [merge |-> FALSE, adopted |-> TRUE, source |-> TRUE, claim |-> TRUE,
           evidence |-> TRUE, sections |-> TraceSections]
Bare  == [Commit EXCEPT !.evidence = FALSE, !.sections = {"Task"}]
Docs  == [Bare EXCEPT !.source = FALSE, !.claim = FALSE]
Merge == [Bare EXCEPT !.merge = TRUE]
Prompt == [dir |-> "prompts", named |-> FALSE, directive |-> FALSE, excluded |-> FALSE,
           readable |-> TRUE, sections |-> PromptSections]

Clean ==
  [governance |-> [docs |-> RequiredDocs, declared |-> RuleDocs, unreadable |-> {}],
   adr        |-> [dir |-> TRUE, files |-> <<Name(9), Name(10), Name(8)>>],
   spike      |-> [listable |-> TRUE, present |-> SpikeEvidence],
   files      |-> {Source("package", Claim), Source("app", LinesBack(3)),
                   Source("spike", <<{}>>)},
   canonical  |-> Stages,
   git        |-> [works |-> TRUE, log |-> <<Commit, Merge, Commit>>],
   audit      |-> [stdout |-> "json", metadata |-> 0, advisories |-> 0],
   prompts    |-> {Prompt},
   baseline   |-> [file |-> "ok",
                   maxMs |-> [b \in Benchmarks |-> IF b = "verify" THEN 20 ELSE 0]]]

\* Faults that come and go: a failure, an exception, a baseline that is gone.
Faults ==
  {[Clean EXCEPT !.audit.metadata = 2],
   [Clean EXCEPT !.files = @ \cup {[Source("sdk", <<>>) EXCEPT !.readable = FALSE]}],
   [Clean EXCEPT !.baseline.file = "missing"]}

\* Trees in which each verifier finds something of its own.
ManyFaults ==
  {[governance |-> [docs |-> {"27-Rules", "23-Engineering"}, declared |-> RuleDocs, unreadable |-> {}],
    adr        |-> [dir |-> FALSE, files |-> <<>>],
    spike      |-> [listable |-> TRUE, present |-> SpikeEvidence \ {"trace-report.json"}],
    files      |-> {Source("package", Lines(8)), Source("app", LinesBack(3)),
                    Source("sdk", <<{"ADR-006-no-postgres-in-spike"}, {"todo"}>>)},
    canonical  |-> Stages \ {"equal"},
    git        |-> [works |-> FALSE, log |-> <<Bare>>],
    audit      |-> [stdout |-> "json", metadata |-> 1, advisories |-> 0],
    prompts    |-> {[Prompt EXCEPT !.sections = <<"Constraints">>]},
    baseline   |-> [file |-> "poisoned", maxMs |-> Clean.baseline.maxMs]],
   [governance |-> [docs |-> RequiredDocs \cup RuleDocs, declared |-> {"27-Rules"}, unreadable |-> {}],
    adr        |-> [dir |-> TRUE, files |-> <<Name(1), Name(3), Name(4)>>],
    spike      |-> [listable |-> FALSE, present |-> SpikeEvidence],
    files      |-> {Source("package", Lines(9)), Source("spike", <<{}, {"eval", "claim"}>>)},
    canonical  |-> Stages \ {"rejects"},
    git        |-> [works |-> TRUE, log |-> <<Docs, Commit, Merge, Bare>>],
    audit      |-> [stdout |-> "none", metadata |-> 0, advisories |-> 0],
    prompts    |-> {[Prompt EXCEPT !.dir = "docs/adr", !.named = TRUE, !.sections = <<>>],
                    [Prompt EXCEPT !.dir = "docs", !.sections = <<>>]},
    baseline   |-> [file |-> "ok", maxMs |-> [b \in Benchmarks |-> 10]]],
   [governance |-> [docs |-> RequiredDocs, declared |-> RuleDocs, unreadable |-> {"27-Rules"}],
    adr        |-> [dir |-> TRUE, files |-> <<Name(2), Name(1), Name(2)>>],
    spike      |-> [listable |-> TRUE, present |-> {}],
    files      |-> {Source("app", LinesBack(4)),
                    Source("spike", <<{}, {"ADR-006-no-postgres-in-spike"}>>)},
    canonical  |-> {},
    git        |-> [works |-> TRUE, log |-> <<Commit, Docs, Docs, Bare>>],
    audit      |-> [stdout |-> "unparsable", metadata |-> 0, advisories |-> 0],
    prompts    |-> {[Prompt EXCEPT !.dir = "spikes", !.directive = TRUE, !.sections = <<>>]},
    baseline   |-> [file |-> "ok", maxMs |-> [b \in Benchmarks |-> 0]]],
   [Clean EXCEPT !.adr.files[3].named = FALSE, !.git.log = <<Merge, Docs, Bare>>,
      !.files = {Source("sdk", <<{"child-process"}>>)},
      !.prompts = {[Prompt EXCEPT !.dir = "docs/prompts", !.readable = FALSE]}],
   [Clean EXCEPT !.adr.files[2].context = FALSE, !.audit.advisories = 1],
   [Clean EXCEPT !.adr.files[2].status = FALSE, !.git.log = <<>>,
      !.files = {[Source("package", <<{"child-process", "claim"}>>)
                    EXCEPT !.exempt = {"child-process", "claim"}]}]}

MCTrees == {Clean} \cup Faults \cup ManyFaults

MCFirstTrees == {Clean} \cup ManyFaults
MCEdits == {Clean} \X Faults

\* One run of the benchmarks is slow, or two are.
MCMeasurements ==
  {[b \in Benchmarks |-> ms] : ms \in {<<10, 30, 10>>, <<27, 9, 30>>}}

MCHistory == <<0>>

\* Trees that documents and code judge in different ways: documentation was
\* committed last, the evidence is seven lines down, a claim is bare in a
\* message, a prompt has its sections in the opposite order.
DisputedTrees ==
  {[Clean EXCEPT !.git.log = <<Docs, Docs, [Commit EXCEPT !.sections = {"Task"}]>>],
   [Clean EXCEPT !.files = {Source("package", Lines(8))}],
   [Clean EXCEPT !.git.log = <<[Commit EXCEPT !.evidence = FALSE]>>],
   [Clean EXCEPT !.prompts = {[Prompt EXCEPT !.sections = Reverse(@)]}]}
=============================================================================
