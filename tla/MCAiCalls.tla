------------------------------ MODULE MCAiCalls ------------------------------
(* Documents of up to four blocks, two providers with three results, flags   *)
(* with up to two rules.                                                     *)
EXTENDS AiCallsProperties

\* Four blocks of text, three of any kind.  A line of code that looks like a
\* header has code before and behind it.
MCDocuments ==
  LET Block(l, n, k) == [level |-> l, size |-> n, kind |-> k]
      Texts  == {Block(l, 2, "text") : l \in 1..3} \cup {Block(0, n, "text") : n \in {1, 3, 7}}
      Blocks == Texts \cup {Block(0, 7, "table"), Block(0, 3, "code"), Block(1, 2, "code")}
      Fenced(doc, i) == /\ {i - 1, i + 1} \subseteq DOMAIN doc
                        /\ \A j \in {i - 1, i + 1} : doc[j].kind = "code"
  IN  [1..4 -> Texts]
      \cup {doc \in UNION {[1..n -> Blocks] : n \in 0..3} :
              \A i \in DOMAIN doc : doc[i].level > 0 /\ doc[i].kind = "code" => Fenced(doc, i)}

MCConfigs ==
  {[chunkSize |-> c[1], parentSize |-> c[2], overlap |-> c[3]] :
     c \in {<<3, 8, 1>>, <<2, 12, 2>>, <<3, 5, 4>>, <<4, 3, 0>>, <<0, 8, 1>>, <<3, 8, -1>>}}

MCResultLists ==
  LET Rows == {[chunk |-> "c1", tenant |-> "mine"], [chunk |-> "c2", tenant |-> "mine"],
               [chunk |-> "x3", tenant |-> "other"], [chunk |-> "c4", tenant |-> "mine"]}
  IN  {s \in UNION {[1..n -> Rows] : n \in 0..3} : IsInjective(s)}

\* All pairs of lists under four settings; every strategy, provider and
\* argument that is refused under one.
MCOptions ==
  {[query |-> "q", tenant |-> "mine", strategy |-> "hybrid", providers |-> Sides, multiplier |-> 3,
    k |-> c[1], rrfK |-> c[2], keywordWeight |-> c[3], semanticWeight |-> 1] :
     c \in {<<0, 60, 1>>, <<1, 60, 1>>, <<2, 60, 2>>, <<2, 1, 1>>}}
  \cup
  [query : {"", "q"}, tenant : {"", "mine"}, strategy : {"hybrid", "keyword", "semantic"},
   providers : SUBSET Sides, k : {1}, multiplier : {0, 2}, rrfK : {60},
   keywordWeight : {1}, semanticWeight : {1}]

MCTopKs == {-1, 0, 1}

\* Variants by name; tenants and users are strings, plan a number or a string.
\* Two rules order what is not a number, one lists no array.
MCRules ==
  LET Rule(op, array, field, value, variant) ==
        [op |-> op, array |-> array, field |-> field, value |-> value, variant |-> variant] IN
  {Rule("eq", FALSE, "userId", {String(3)}, "on"),
   Rule("ne", FALSE, "userId", {String(3)}, "off"),
   Rule("in", TRUE, "tenantId", {String(1), String(2)}, "off"),
   Rule("not-in", TRUE, "tenantId", {String(1)}, "on"),
   Rule("in", FALSE, "tenantId", {String(1)}, "off"),
   Rule("gt", FALSE, "plan", {Number(1)}, "off"),
   Rule("lt", FALSE, "plan", {Number(2)}, "gone"),
   Rule("gte", FALSE, "plan", {Number(2)}, "on"),
   Rule("lte", FALSE, "userId", {String(3)}, "off"),
   Rule("lt", FALSE, "userId", {Number(4)}, "on")}

MCFlags ==
  LET Flag(stored, enabled, pct, rules) ==
        [key |-> 70, stored |-> stored, enabled |-> enabled, rolloutPct |-> pct, rules |-> rules,
         variants |-> [v \in {"on", "off"} |-> v], default |-> "base"]
  IN  {Flag(TRUE, TRUE, pct, rules) :
         pct \in {0, 1, 50, 99, 100}, rules \in UNION {[1..n -> MCRules] : n \in 0..2}}
      \cup {Flag(FALSE, TRUE, 100, <<>>), Flag(TRUE, FALSE, 100, <<>>)}

\* An attribute may also take the place of the user.
MCContexts ==
  LET Missing == [f \in Fields |-> Undefined]
      Context(t, u, p) ==
        [given |-> TRUE, ids |-> [f \in Identifiers |-> IF f = "tenantId" THEN t ELSE u],
         attributes |-> [Missing EXCEPT !.plan = p]] IN
  {Context(String(t), u, p) : t \in {1, 3}, u \in {Undefined, String(3), String(4)},
                              p \in {Undefined, Number(1), Number(2), String(2)}}
  \cup {[Context(Undefined, String(3), Undefined) EXCEPT !.attributes["userId"] = Number(3)],
        [given |-> FALSE, ids |-> Missing, attributes |-> Missing]}
=============================================================================
