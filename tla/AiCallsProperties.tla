-------------------------- MODULE AiCallsProperties --------------------------
(* What the stateless classes of packages/ai promise.                        *)
EXTENDS AiCalls

Returned(op) == call.op = op /\ outcome.status = "resolved"
Increasing(s) == \A i, j \in DOMAIN s : i < j => s[i] < s[j]

----------------------------------------------------------------------------
\* The headers that enclose a block: those before it (or itself) that no later
\* header of their level or above has closed.
Enclosing(doc, block) ==
  {h \in 1..block : /\ doc[h].level > 0
                    /\ \A j \in (h + 1)..block : doc[j].level = 0 \/ doc[j].level > doc[h].level}

\* The length of a parent's paragraphs, two characters between them.
TextLen(doc, group) ==
  LET sum[n \in 0..Len(group)] == IF n = 0 THEN 0 ELSE sum[n - 1] + doc[group[n]].size
  IN  sum[Len(group)] + 2 * (Len(group) - 1)

\* Children cover their paragraphs in order: what is before a child's first
\* character, or behind its last, is in the child before or behind it.  Those
\* of a text are within the size, and each next one overlaps as much as was
\* asked (at most size - 1, since every window starts later than the one
\* before).
GoodWindows(children, doc, config) ==
  LET overlap == IF config.overlap < config.chunkSize THEN config.overlap
                 ELSE config.chunkSize - 1
      Same(m, n) == {m, n} \subseteq DOMAIN children /\ children[m].block = children[n].block IN
  \A n \in DOMAIN children :
    LET c == children[n] IN
    /\ c.from < c.to
    /\ c.from > 0 => Same(n - 1, n) /\ c.from <= children[n - 1].to
    /\ c.to < doc[c.block].size => Same(n, n + 1)
    /\ n > 1 => children[n - 1].block <= c.block
    /\ doc[c.block].kind = "text" =>
         /\ c.to - c.from <= config.chunkSize
         /\ Same(n - 1, n) => children[n - 1].to - c.from = overlap

\* Nothing of a document is lost, repeated, reordered or filed under the wrong
\* headers when it is chunked: the parents hold every header and, in order and
\* once, every paragraph, and carry the headers that enclose them, unless a
\* line of a code block is taken for one; a parent is larger than parentSize
\* only for a single paragraph; the children of a parent cover its paragraphs
\* (splitMarkdownSections, groupParagraphs and splitWithOverlap of
\* simple-chunker.ts).
ChunksFaithful ==
  Returned("chunk") =>
    LET doc     == call.doc
        config  == call.config
        parents == outcome.value
        titled  == \A h \in DOMAIN doc : doc[h].level > 0 => doc[h].kind = "text" IN
    /\ UNION {ToSet(parents[i].group) : i \in DOMAIN parents} = {b \in DOMAIN doc : doc[b].level = 0}
    /\ {h \in DOMAIN doc : doc[h].level > 0} = {parents[i].header : i \in DOMAIN parents} \ {0}
    /\ \A i, j \in DOMAIN parents : i < j =>
         \A b \in ToSet(parents[i].group), c \in ToSet(parents[j].group) : b < c
    /\ \A i \in DOMAIN parents :
         LET p == parents[i] IN
         /\ titled => \A b \in ToSet(p.group) \cup ({p.header} \ {0}) :
                        ToSet(p.path) = Enclosing(doc, b) /\ Increasing(p.path)
         /\ Increasing(p.group)
         /\ Len(p.group) > 1 => HeaderLen(doc, p.header) + TextLen(doc, p.group) <= config.parentSize
         /\ ToSet(p.group) = {c.block : c \in ToSet(p.children)}
         /\ GoodWindows(p.children, doc, config)

\* Tables and code blocks are atomic (sdk chunker.ts:31, by default): each is
\* in one child.  splitWithOverlap divides every paragraph that is too long.
BlocksWhole ==
  Returned("chunk") =>
    \A p \in ToSet(outcome.value) : \A c \in ToSet(p.children) :
      call.doc[c.block].kind # "text" => c.from = 0 /\ c.to = call.doc[c.block].size

\* Adjacent children of a parent overlap (sdk chunker.ts:24) when an overlap is
\* asked for.  The windows of one paragraph do; the next paragraph starts anew.
ChildrenOverlap ==
  Returned("chunk") /\ call.config.overlap > 0 =>
    \A p \in ToSet(outcome.value) : \A n \in 2..Len(p.children) :
      /\ p.children[n].block = p.children[n - 1].block
      /\ p.children[n].from < p.children[n - 1].to

\* Sections are those of the document's headers (simple-chunker.ts:4).
\* HEADER_RE also takes a line of a fenced code block for one.
HeadersOfText ==
  Returned("chunk") =>
    \A p \in ToSet(outcome.value) : \A h \in ToSet(p.path) : call.doc[h].kind = "text"

----------------------------------------------------------------------------
\* The place of a result in a list; behind the end when it is not in it.
Place(list, r) == IF Among(list, r) THEN RankIn(list, r) ELSE Len(list) + 1

\* A retrieval that resolves has the answer of every side it asked.  The
\* results are rows of the caller's tenant, none twice, at most k, and all
\* there are when fewer than k.  A result that is nowhere placed lower and
\* somewhere higher than another comes first and is cut last, if no weight is
\* negative; with the same weight on both sides, and lists of at most one row
\* more than the RRF constant (60 in ADR-024), so does one that both sides
\* found against one that a single side found (retrieve, runHybrid and
\* accumulate of rrf-retriever.ts).
RetrievalSound ==
  Returned("retrieve") =>
    LET o     == call.options
        value == outcome.value
        sides == Asked(o)
        Lists == {answers[s].value : s \in sides}
        Own   == {r \in UNION {ToSet(list) : list \in Lists} : r.tenant = o.tenant}
        At(s, r) == Place(answers[s].value, r)
        Better(r, t) ==
          \/ /\ o.strategy = "hybrid" => o.keywordWeight >= 0 /\ o.semanticWeight >= 0
             /\ \A s \in sides : At(s, r) <= At(s, t)
             /\ \E s \in sides : At(s, r) < At(s, t)
          \/ /\ o.strategy = "hybrid" /\ o.keywordWeight = o.semanticWeight
             /\ o.keywordWeight > 0
             /\ \A list \in Lists : Len(list) <= o.rrfK + 1 /\ Among(list, r)
             /\ \E list \in Lists : ~Among(list, t) IN
    /\ \A s \in sides : answers[s].status = "resolved"
    /\ ToSet(value) \subseteq Own
    /\ Cardinality(ToSet(value)) = Len(value)
    /\ Len(value) <= Wanted(o)
    /\ Len(value) < Wanted(o) => ToSet(value) = Own
    /\ \A r, t \in Own : Better(r, t) /\ Among(value, t) =>
         Among(value, r) /\ RankIn(value, r) < RankIn(value, t)

----------------------------------------------------------------------------
\* The rule that would match whenever rule does not.
Opposite(rule) ==
  [rule EXCEPT !.op = CASE @ = "eq" -> "ne"      [] @ = "ne" -> "eq"
                        [] @ = "in" -> "not-in"  [] @ = "not-in" -> "in"
                        [] @ = "gt" -> "lte"     [] @ = "lte" -> "gt"
                        [] @ = "gte" -> "lt"     [] @ = "lt" -> "gte"]

\* A rollout is a percentage of the users: at 0 nobody is in it, at 100
\* everybody, a user who is in stays in as it grows, and rules, attributes and
\* the caller's default play no part in it.  Of those who are in, the first
\* matching rule decides: a rule added behind it changes nothing, and of a rule
\* and its opposite put in front one decides and the other passes over, unless
\* they list no array or order what is not a number: then both pass over
\* (evaluateFlag, evaluateTargeting and simpleHash of
\* sqlite-feature-flag-provider.ts).
EvaluationSound ==
  Returned("resolve") =>
    LET flag    == call.flag
        context == call.context
        live    == flag.stored /\ flag.enabled
        InAt(pct, rules) ==
          EvaluateFlag([flag EXCEPT !.rolloutPct = pct, !.rules = rules],
                       call.default, context).reason # "SPLIT"
        Value(rules) ==
          EvaluateFlag([flag EXCEPT !.rolloutPct = 100, !.rules = rules],
                       call.default, context)
        Comparable(rule) ==
          /\ rule.op \in {"in", "not-in"} => rule.array
          /\ rule.op \in {"gt", "gte", "lt", "lte"} =>
               /\ ~rule.array
               /\ \A v \in rule.value \cup {CtxValue(context, rule.field)} : v.type = "number"
        Rules == UNION {ToSet(f.rules) : f \in Flags} IN
    /\ live => /\ ~InAt(0, flag.rules) /\ InAt(100, flag.rules)
               /\ \A pct \in flag.rolloutPct..100 : InAt(flag.rolloutPct, flag.rules) => InAt(pct, <<>>)
    /\ ~live \/ outcome.value.reason = "SPLIT" => outcome.value.value = call.default
    /\ live /\ context.given /\ outcome.value.reason = "TARGETING_MATCH" /\ flag.rules # <<>> =>
         \A rule \in Rules :
           /\ Value(Append(flag.rules, rule)).value = outcome.value.value
           /\ rule.variant \in DOMAIN flag.variants =>
                LET With(r) == Value(<<r>> \o flag.rules).value
                    chosen  == IF Comparable(rule) THEN flag.variants[rule.variant]
                               ELSE outcome.value.value IN
                {With(rule), With(Opposite(rule))} = {chosen, outcome.value.value}
=============================================================================
