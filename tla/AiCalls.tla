------------------------------- MODULE AiCalls -------------------------------
(* Calls of the stateless classes of packages/ai: SimpleChunker.chunk,       *)
(* RrfRetriever.retrieve, NoopReranker.rerank and the resolve*Value of the   *)
(* flag provider once the flag is read.                                      *)
(*                                                                           *)
(* The classes keep nothing between calls, so the state is one call: what    *)
(* was asked, the answers of the result providers, and the outcome.  Only    *)
(* retrieve waits: for one provider, or for both in Promise.all, which       *)
(* rejects with the first rejection.                                         *)
EXTENDS Chunker, RankFusion, FlagEvaluation

CONSTANTS
  Documents, Configs,         \* what is chunked, and the merged configurations
  Options, ResultLists,       \* retrievals, and what a provider may answer
  TopKs,                      \* topK of a rerank, -1 where there is none
  Flags, Defaults, Contexts   \* what is evaluated, for whom

ASSUME EvaluationAssumption ==
  (\A flag \in Flags : IsFlag(flag)) /\ (\A context \in Contexts : IsContext(context))

\* A header line is not empty, and empty paragraphs are dropped.  A header
\* line of the kind "code" is a line of a fenced block that HEADER_RE matches.
ASSUME ChunkingAssumption ==
  /\ Documents \subseteq Seq([level : Nat, size : Nat \ {0}, kind : {"text", "table", "code"}])
  /\ \A config \in Configs : {config.chunkSize, config.parentSize, config.overlap} \subseteq Int

\* What TypeScript asks of the options, with whole numbers for the weights, and
\* an RRF constant for which no rank divides by zero; a provider lists no row
\* twice.
ASSUME RetrievalAssumption ==
  /\ \A o \in Options :
       /\ o.strategy \in {"hybrid", "keyword", "semantic"}
       /\ {o.k, o.multiplier, o.keywordWeight, o.semanticWeight} \subseteq Int /\ o.rrfK \in Nat
  /\ \A list \in ResultLists : list \in Seq(ToSet(list)) /\ IsInjective(list)

VARIABLES
  call,      \* the call and its arguments
  answers,   \* per side: the provider's promise
  outcome    \* the promise of the call

vars == <<call, answers, outcome>>

Sides    == {"keyword", "semantic"}
Pending  == [status |-> "pending", value |-> <<>>]
Rejected == [status |-> "rejected", value |-> <<>>]
Resolved(value) == [status |-> "resolved", value |-> value]

NoAnswers == [s \in Sides |-> Pending]
NoCall    == [op |-> "none"]

Init == call = NoCall /\ answers = NoAnswers /\ outcome = Pending

----------------------------------------------------------------------------
ChunkDocument(doc, config) ==
  /\ call.op = "none"
  /\ call' = [op |-> "chunk", doc |-> doc, config |-> config]
  /\ outcome' = IF doc # <<>> /\ ValidConfig(config) THEN Resolved(Chunk(doc, config))
                ELSE Rejected
  /\ UNCHANGED answers

\* The sides a strategy asks.
Asked(o) == IF o.strategy = "hybrid" THEN Sides ELSE {o.strategy}

\* What the promise of retrieve is once the providers have answered as given.
Settled(o, given) ==
  CASE \E s \in Asked(o) : given[s].status = "rejected" -> Rejected
    [] /\ \A s \in Asked(o) : given[s].status # "rejected"
       /\ \E s \in Asked(o) : given[s].status = "pending" -> Pending
    [] OTHER -> Resolved(IF o.strategy = "hybrid"
                         THEN RunHybrid(given["keyword"].value, given["semantic"].value, o)
                         ELSE RunOne(given[o.strategy].value, o))

\* Without its provider a single strategy throws; in a hybrid retrieval a side
\* without one is an empty list.
Retrieve(o) ==
  LET given == [s \in Sides |-> CASE s \in o.providers -> Pending
                                  [] s \notin o.providers /\ o.strategy = "hybrid" -> Resolved(<<>>)
                                  [] OTHER -> Rejected] IN
  /\ call.op = "none"
  /\ call' = [op |-> "retrieve", options |-> o]
  /\ answers' = given
  /\ outcome' = IF o.tenant = "" \/ o.query = "" THEN Rejected ELSE Settled(o, given)

\* A provider is asked for CandidateK results.
ProviderSettles(side, answer) ==
  /\ call.op = "retrieve" /\ outcome.status = "pending"
  /\ side \in Asked(call.options) /\ answers[side].status = "pending"
  /\ Len(answer.value) <= CandidateK(call.options)
  /\ answers' = [answers EXCEPT ![side] = answer]
  /\ outcome' = Settled(call.options, answers')
  /\ UNCHANGED call

\* The caller reranks what a retrieval returned.
RerankResults(topK) ==
  /\ call.op = "retrieve" /\ outcome.status = "resolved"
  /\ call' = [op |-> "rerank", candidates |-> outcome.value, topK |-> topK]
  /\ outcome' = Resolved(Rerank(outcome.value, topK))
  /\ answers' = NoAnswers

ResolveValue(flag, defaultValue, context) ==
  /\ call.op = "none"
  /\ call' = [op |-> "resolve", flag |-> flag, default |-> defaultValue, context |-> context]
  /\ outcome' = Resolved(EvaluateFlag(flag, defaultValue, context))
  /\ UNCHANGED answers

\* The caller takes the outcome.
Return ==
  /\ outcome.status # "pending"
  /\ call' = NoCall /\ answers' = NoAnswers /\ outcome' = Pending

Next ==
  \/ \E doc \in Documents, config \in Configs : ChunkDocument(doc, config)
  \/ \E o \in Options : Retrieve(o)
  \/ \E side \in Sides, list \in ResultLists : ProviderSettles(side, Resolved(list))
  \/ \E side \in Sides : ProviderSettles(side, Rejected)
  \/ \E topK \in TopKs : RerankResults(topK)
  \/ \E flag \in Flags, value \in Defaults, context \in Contexts :
       ResolveValue(flag, value, context)
  \/ Return

Spec == Init /\ [][Next]_vars
=============================================================================
