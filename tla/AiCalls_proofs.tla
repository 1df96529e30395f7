--------------------------- MODULE AiCalls_proofs ---------------------------
(***************************************************************************)
(* Proofs about AiCalls: EvaluationSound, for every flag, every context    *)
(* and every width of the hash; RetrievalSound, for all lists, options and *)
(* weights; ChunksFaithful, for every document and configuration.          *)
(***************************************************************************)
EXTENDS AiCallsProperties, Selections_proofs, TLAPS

----------------------------------------------------------------------------
(* The hash.                                                               *)

\* A wrapped integer is an integer.
LEMMA WrapType ==
  ASSUME NEW x \in Int
  PROVE  Wrap(x) \in Int
<1>1. 2^HashBits \in Nat \ {0} /\ 2^(HashBits - 1) \in Int
  BY HashAssumption
<1> DEFINE a == 2^HashBits
           b == 2^(HashBits - 1)
<1> HIDE DEF a, b
<1>2. ((x + b) % a) - b \in Int
  BY <1>1 DEF a, b
<1> QED
  BY <1>2 DEF Wrap, a, b

\* The hashes of the prefixes of input.
Hashes(input, N, hash) ==
  hash = [n \in 0..N |-> IF n = 0 THEN 0 ELSE Wrap(31 * hash[n - 1] + input[n])]

\* The recursive function exists, and its values are integers.
LEMMA HashedType ==
  ASSUME NEW input, Len(input) \in Nat, \A i \in 1..Len(input) : input[i] \in Int
  PROVE  Hashed(input) \in Int
<1> DEFINE P(N) == \E hash \in [0..N -> Int] : Hashes(input, N, hash)
           T    == {N \in 0..Len(input) : ~P(N)}
<1>1. P(0)
  <2>1. [n \in 0..0 |-> 0] \in [0..0 -> Int] /\ Hashes(input, 0, [n \in 0..0 |-> 0])
    BY DEF Hashes
  <2> QED
    BY <2>1
<1>2. ASSUME NEW N \in 1..Len(input), P(N - 1)
      PROVE  P(N)
  <2>1. PICK hash \in [0..(N - 1) -> Int] : Hashes(input, N - 1, hash)
    BY <1>2
  <2> DEFINE last  == Wrap(31 * hash[N - 1] + input[N])
             hash1 == [n \in 0..N |-> IF n = N THEN last ELSE hash[n]]
  <2>2. last \in Int
    <3>1. hash[N - 1] \in Int /\ input[N] \in Int
      OBVIOUS
    <3>2. 31 * hash[N - 1] + input[N] \in Int
      BY <3>1
    <3> QED
      BY <3>2, WrapType
  <2>3. hash1 \in [0..N -> Int]
    BY <2>2
  <2>4. ASSUME NEW n \in 0..N
        PROVE  hash1[n] = IF n = 0 THEN 0 ELSE Wrap(31 * hash1[n - 1] + input[n])
    <3>1. CASE n = N
      BY <3>1
    <3>2. CASE n # N
      <4>1. hash1[n] = hash[n] /\ (n # 0 => hash1[n - 1] = hash[n - 1])
        BY <3>2
      <4>2. hash[n] = IF n = 0 THEN 0 ELSE Wrap(31 * hash[n - 1] + input[n])
        BY <2>1, <3>2 DEF Hashes
      <4> QED
        BY <4>1, <4>2
    <3> QED
      BY <3>1, <3>2
  <2> HIDE DEF hash1
  <2>5. Hashes(input, N, hash1)
    BY <2>3, <2>4 DEF Hashes
  <2> QED
    BY <2>3, <2>5
<1>3. P(Len(input))
  <2> HIDE DEF P
  <2> SUFFICES ASSUME Len(input) \in T PROVE FALSE
    OBVIOUS
  <2>1. T \subseteq Nat /\ T # {}
    OBVIOUS
  <2>2. PICK m \in T : \A k \in T : m <= k
    BY <2>1, LeastOf
  <2>3. m # 0
    BY <1>1, <2>2
  <2>4. m \in 1..Len(input) /\ P(m - 1)
    BY <2>2, <2>3
  <2> QED
    BY <1>2, <2>2, <2>4
<1> DEFINE chosen == CHOOSE hash : Hashes(input, Len(input), hash)
<1>4. Hashes(input, Len(input), chosen)
  BY <1>3
<1>5. Hashed(input) = chosen[Len(input)]
  BY DEF Hashed, Hashes
<1> HIDE DEF chosen
<1>6. ASSUME NEW n \in 0..Len(input)
      PROVE  chosen[n] = IF n = 0 THEN 0 ELSE Wrap(31 * chosen[n - 1] + input[n])
  BY <1>4 DEF Hashes
<1> DEFINE U == {n \in 0..Len(input) : chosen[n] \notin Int}
<1>7. SUFFICES ASSUME U # {} PROVE FALSE
  BY <1>5
<1>8. PICK m \in U : \A k \in U : m <= k
  <2>1. U \subseteq Nat
    OBVIOUS
  <2> QED
    BY <1>7, <2>1, LeastOf
<1>9. m \in 1..Len(input) /\ chosen[m - 1] \in Int
  <2>1. m # 0
    BY <1>6, <1>8
  <2>2. m - 1 \in 0..Len(input) /\ m - 1 \notin U
    BY <1>8, <2>1
  <2> QED
    BY <1>8, <2>1, <2>2
<1>10. 31 * chosen[m - 1] + input[m] \in Int
  BY <1>9
<1>11. chosen[m] \in Int
  <2>1. m \in 0..Len(input) /\ m # 0
    BY <1>9
  <2>2. chosen[m] = Wrap(31 * chosen[m - 1] + input[m])
    BY <1>6, <2>1
  <2>3. Wrap(31 * chosen[m - 1] + input[m]) \in Int
    BY <1>10, WrapType
  <2> QED
    BY <2>2, <2>3
<1> QED
  BY <1>8, <1>11

\* Which hundredth of the users the caller is in.
Bucket(flag, context) == Remainder(SimpleHash(HashInput(flag, context)), 100)

\* It is one of the hundredths: the hash is not negative.
LEMMA BucketRange ==
  ASSUME NEW flag, IsFlag(flag), NEW context, IsContext(context)
  PROVE  Bucket(flag, context) \in 0..99
<1> DEFINE input == HashInput(flag, context)
<1>1. Len(input) = 5 /\ \A i \in 1..5 : input[i] \in Int
  <2> DEFINE Or(x, other) == IF x = Undefined THEN other ELSE x.of
             t == Or(context.ids["tenantId"], Global)
             u == Or(context.ids["userId"], Anonymous)
  <2>1. flag.key \in Int /\ t \in Int /\ u \in Int
    BY HashAssumption DEF IsFlag, IsContext, IsValue, Identifiers
  <2>2. input = <<flag.key, 58, t, 58, u>>
    BY DEF HashInput
  <2> HIDE DEF t, u, input
  <2> QED
    BY <2>1, <2>2
<1> HIDE DEF input
<1>2. Hashed(input) \in Int
  BY <1>1, HashedType
<1>3. SimpleHash(input) \in Nat
  BY <1>2 DEF SimpleHash
<1> DEFINE hash == SimpleHash(input)
<1> HIDE DEF hash
<1>4. Remainder(hash, 100) \in 0..99
  BY <1>3 DEF Remainder, hash
<1> QED
  BY <1>4 DEF Bucket, hash, input

----------------------------------------------------------------------------
(* The rollout.                                                            *)

\* SPLIT is for those the rollout leaves out; the others go to the targeting.
LEMMA Rollout ==
  ASSUME NEW flag, NEW value, NEW context, flag.stored, flag.enabled
  PROVE  /\ EvaluateFlag(flag, value, context).reason = "SPLIT" <=>
              flag.rolloutPct < 100 /\ Bucket(flag, context) >= flag.rolloutPct
         /\ EvaluateFlag(flag, value, context).reason = "SPLIT" =>
              EvaluateFlag(flag, value, context).value = value
         /\ EvaluateFlag(flag, value, context).reason # "SPLIT" =>
              /\ EvaluateFlag(flag, value, context).value = EvaluateTargeting(flag, context).value
              /\ EvaluateFlag(flag, value, context).reason = "TARGETING_MATCH" <=>
                   EvaluateTargeting(flag, context).matched
<1> DEFINE split == flag.rolloutPct < 100 /\ Bucket(flag, context) >= flag.rolloutPct
           t     == EvaluateTargeting(flag, context)
           e     == EvaluateFlag(flag, value, context)
<1>1. CASE split
  <2>1. e = [value |-> value, reason |-> "SPLIT"]
    BY <1>1 DEF EvaluateFlag, Bucket
  <2> HIDE DEF e, t
  <2> QED
    BY <1>1, <2>1 DEF e, t
<1>2. CASE ~split
  <2>1. e = [value |-> t.value, reason |-> IF t.matched THEN "TARGETING_MATCH" ELSE "STATIC"]
    BY <1>2 DEF EvaluateFlag, Bucket
  <2> HIDE DEF e, t
  <2>2. e.reason # "SPLIT" /\ e.value = t.value /\ (e.reason = "TARGETING_MATCH" <=> t.matched)
    BY <2>1
  <2> QED
    BY <1>2, <2>2 DEF e, t
<1> QED
  BY <1>1, <1>2

\* A flag that is missing or disabled gives the caller's default.
LEMMA NotLive ==
  ASSUME NEW flag, NEW value, NEW context, ~(flag.stored /\ flag.enabled)
  PROVE  EvaluateFlag(flag, value, context).value = value
<1>1. CASE ~flag.stored
  BY <1>1 DEF EvaluateFlag
<1>2. CASE flag.stored /\ ~flag.enabled
  BY <1>2 DEF EvaluateFlag
<1> QED
  BY <1>1, <1>2

----------------------------------------------------------------------------
(* Targeting.                                                              *)

Decides(flag, context, rule) ==
  Matches(rule, CtxValue(context, rule.field)) /\ rule.variant \in DOMAIN flag.variants
\* The places of the rules that would decide.
Deciding(flag, context) ==
  {i \in 1..Len(flag.rules) : Decides(flag, context, flag.rules[i])}
\* i is the first of them.
FirstIn(I, i) == i \in I /\ \A k \in I : i <= k

\* Min finds it.
LEMMA FirstExists ==
  ASSUME NEW n \in Nat, NEW I \in SUBSET (1..n), I # {}
  PROVE  Min(I) \in 1..n /\ FirstIn(I, Min(I))
<1>1. \E i \in I : \A k \in I : i <= k
  <2>1. I \subseteq Nat
    OBVIOUS
  <2> QED
    BY <2>1, LeastOf
<1>2. Min(I) \in I /\ \A k \in I : Min(I) <= k
  BY <1>1 DEF Min
<1> QED
  BY <1>2 DEF FirstIn

\* The first rule that decides gives the value.
LEMMA TargetingDecides ==
  ASSUME NEW flag, Len(flag.rules) \in Nat, flag.rules # <<>>, NEW context, context.given
  PROVE  /\ Deciding(flag, context) = {} => ~EvaluateTargeting(flag, context).matched
         /\ Deciding(flag, context) # {} =>
              /\ EvaluateTargeting(flag, context).matched
              /\ \E i \in 1..Len(flag.rules) :
                   /\ FirstIn(Deciding(flag, context), i)
                   /\ EvaluateTargeting(flag, context).value = flag.variants[flag.rules[i].variant]
<1> DEFINE I     == Deciding(flag, context)
           first == IF I # {} THEN Min(I) ELSE 0
           e     == EvaluateTargeting(flag, context)
<1>1. e = CASE ~context.given \/ flag.rules = <<>> -> [matched |-> TRUE, value |-> flag.default]
            [] context.given /\ flag.rules # <<>> /\ first > 0 ->
                 [matched |-> TRUE, value |-> flag.variants[flag.rules[first].variant]]
            [] OTHER -> [matched |-> FALSE, value |-> flag.default]
  BY DEF EvaluateTargeting, SelectInSeq, Deciding, Decides
<1>2. I \in SUBSET (1..Len(flag.rules))
  BY DEF Deciding
<1> HIDE DEF I, e
<1>3. CASE I = {}
  <2>1. ~(first > 0)
    BY <1>3
  <2>2. e = [matched |-> FALSE, value |-> flag.default]
    BY <1>1, <2>1
  <2> QED
    BY <1>3, <2>2 DEF I, e
<1>4. CASE I # {}
  <2>1. first \in 1..Len(flag.rules) /\ FirstIn(I, first)
    BY <1>2, <1>4, FirstExists
  <2> HIDE DEF first
  <2>2. first > 0
    BY <2>1
  <2>3. e = [matched |-> TRUE, value |-> flag.variants[flag.rules[first].variant]]
    BY <1>1, <2>2
  <2>4. e.matched /\ e.value = flag.variants[flag.rules[first].variant]
    BY <2>3
  <2> QED
    BY <1>4, <2>1, <2>4 DEF I, e
<1> QED
  BY <1>3, <1>4

\* The same, where the first rule that decides is known.
LEMMA TargetingValue ==
  ASSUME NEW flag, Len(flag.rules) \in Nat, flag.rules # <<>>, NEW context, context.given,
         NEW i, FirstIn(Deciding(flag, context), i)
  PROVE  EvaluateTargeting(flag, context).value = flag.variants[flag.rules[i].variant]
<1>1. Deciding(flag, context) # {}
  BY DEF FirstIn
<1>2. PICK j \in 1..Len(flag.rules) :
        /\ FirstIn(Deciding(flag, context), j)
        /\ EvaluateTargeting(flag, context).value = flag.variants[flag.rules[j].variant]
  BY <1>1, TargetingDecides
<1>3. i \in 1..Len(flag.rules)
  BY DEF FirstIn, Deciding
<1>4. i <= j /\ j <= i
  BY <1>2 DEF FirstIn
<1>5. i = j
  BY <1>2, <1>3, <1>4
<1> QED
  BY <1>2, <1>5

\* When a rule matches, operator by operator.
OnlyValue(rule)  == CHOOSE x \in rule.value : TRUE
Ordered(rule, v) == ~rule.array /\ v.type = "number" /\ OnlyValue(rule).type = "number"

LEMMA MatchesByOp ==
  ASSUME NEW rule, NEW v
  PROVE  /\ rule.op = "eq"     => (Matches(rule, v) <=> ~rule.array /\ rule.value = {v})
         /\ rule.op = "ne"     => (Matches(rule, v) <=> rule.array \/ rule.value # {v})
         /\ rule.op = "in"     => (Matches(rule, v) <=> rule.array /\ v \in rule.value)
         /\ rule.op = "not-in" => (Matches(rule, v) <=> rule.array /\ v \notin rule.value)
         /\ rule.op = "gt"     => (Matches(rule, v) <=> Ordered(rule, v) /\ v.of > OnlyValue(rule).of)
         /\ rule.op = "gte"    => (Matches(rule, v) <=> Ordered(rule, v) /\ v.of >= OnlyValue(rule).of)
         /\ rule.op = "lt"     => (Matches(rule, v) <=> Ordered(rule, v) /\ v.of < OnlyValue(rule).of)
         /\ rule.op = "lte"    => (Matches(rule, v) <=> Ordered(rule, v) /\ v.of <= OnlyValue(rule).of)
<1> DEFINE ordered == Ordered(rule, v)
           x       == OnlyValue(rule)
           m       == Matches(rule, v)
<1>1. m = CASE rule.op = "eq"     -> ~rule.array /\ rule.value = {v}
            [] rule.op = "ne"     -> rule.array \/ rule.value # {v}
            [] rule.op = "in"     -> rule.array /\ v \in rule.value
            [] rule.op = "not-in" -> rule.array /\ v \notin rule.value
            [] rule.op = "gt"     -> ordered /\ v.of > x.of
            [] rule.op = "gte"    -> ordered /\ v.of >= x.of
            [] rule.op = "lt"     -> ordered /\ v.of < x.of
            [] rule.op = "lte"    -> ordered /\ v.of <= x.of
  BY DEF Matches, Ordered, OnlyValue
<1> HIDE DEF m, x, ordered
<1>2. ASSUME rule.op = "eq" PROVE m <=> ~rule.array /\ rule.value = {v}
  BY <1>1, <1>2
<1>3. ASSUME rule.op = "ne" PROVE m <=> rule.array \/ rule.value # {v}
  BY <1>1, <1>3
<1>4. ASSUME rule.op = "in" PROVE m <=> rule.array /\ v \in rule.value
  BY <1>1, <1>4
<1>5. ASSUME rule.op = "not-in" PROVE m <=> rule.array /\ v \notin rule.value
  BY <1>1, <1>5
<1>6. ASSUME rule.op = "gt" PROVE m <=> ordered /\ v.of > x.of
  BY <1>1, <1>6
<1>7. ASSUME rule.op = "gte" PROVE m <=> ordered /\ v.of >= x.of
  BY <1>1, <1>7
<1>8. ASSUME rule.op = "lt" PROVE m <=> ordered /\ v.of < x.of
  BY <1>1, <1>8
<1>9. ASSUME rule.op = "lte" PROVE m <=> ordered /\ v.of <= x.of
  BY <1>1, <1>9
<1> QED
  BY <1>2, <1>3, <1>4, <1>5, <1>6, <1>7, <1>8, <1>9 DEF m, x, ordered

\* A rule that lists an array, or orders numbers, or only compares.
ComparableWith(rule, v) ==
  /\ rule.op \in {"in", "not-in"} => rule.array
  /\ rule.op \in {"gt", "gte", "lt", "lte"} =>
       /\ ~rule.array
       /\ \A x \in rule.value \cup {v} : x.type = "number"

\* What a rule is compared with.
LEMMA OnlyValueFact ==
  ASSUME NEW rule, IsRule(rule), ~rule.array
  PROVE  OnlyValue(rule) \in rule.value /\ rule.value = {OnlyValue(rule)}
  BY DEF IsRule, OnlyValue

\* The opposite rule differs in the operator.
LEMMA OppositeFields ==
  ASSUME NEW rule, IsRule(rule)
  PROVE  /\ Opposite(rule).variant = rule.variant /\ Opposite(rule).field = rule.field
         /\ Opposite(rule).array = rule.array /\ Opposite(rule).value = rule.value
         /\ rule.op = "eq" => Opposite(rule).op = "ne"
         /\ rule.op = "ne" => Opposite(rule).op = "eq"
         /\ rule.op = "in" => Opposite(rule).op = "not-in"
         /\ rule.op = "not-in" => Opposite(rule).op = "in"
         /\ rule.op = "gt" => Opposite(rule).op = "lte"
         /\ rule.op = "lte" => Opposite(rule).op = "gt"
         /\ rule.op = "gte" => Opposite(rule).op = "lt"
         /\ rule.op = "lt" => Opposite(rule).op = "gte"
  BY DEF Opposite, IsRule

\* Where a rule can be compared, its opposite matches what it does not; where
\* it cannot, neither matches.
LEMMA OppositeMatches ==
  ASSUME NEW rule, IsRule(rule), NEW v, IsValue(v)
  PROVE  /\ ComparableWith(rule, v) => (Matches(Opposite(rule), v) <=> ~Matches(rule, v))
         /\ ~ComparableWith(rule, v) => ~Matches(Opposite(rule), v) /\ ~Matches(rule, v)
<1> DEFINE o == Opposite(rule)
           x == OnlyValue(rule)
           comparable == ComparableWith(rule, v)
<1>1. /\ o.array = rule.array /\ o.value = rule.value /\ OnlyValue(o) = x
      /\ rule.op = "eq" => o.op = "ne"
      /\ rule.op = "ne" => o.op = "eq"
      /\ rule.op = "in" => o.op = "not-in"
      /\ rule.op = "not-in" => o.op = "in"
      /\ rule.op = "gt" => o.op = "lte"
      /\ rule.op = "lte" => o.op = "gt"
      /\ rule.op = "gte" => o.op = "lt"
      /\ rule.op = "lt" => o.op = "gte"
  BY OppositeFields DEF OnlyValue
<1>2. rule.op \in Operators
  BY DEF IsRule
<1>3. CASE rule.op \in {"eq", "ne"}
  <2>1. comparable
    BY <1>3 DEF ComparableWith
  <2> HIDE DEF o, x, comparable
  <2>2. Matches(o, v) <=> ~Matches(rule, v)
    BY <1>1, <1>3, MatchesByOp
  <2> QED
    BY <2>1, <2>2 DEF o, comparable
<1>4. CASE rule.op \in {"in", "not-in"}
  <2>1. comparable <=> rule.array
    BY <1>4 DEF ComparableWith
  <2> HIDE DEF o, x, comparable
  <2>2. /\ rule.array => (Matches(o, v) <=> ~Matches(rule, v))
        /\ ~rule.array => ~Matches(o, v) /\ ~Matches(rule, v)
    BY <1>1, <1>4, MatchesByOp
  <2> QED
    BY <2>1, <2>2 DEF o, comparable
<1>5. CASE rule.op \in {"gt", "gte", "lt", "lte"}
  <2>1. comparable <=> Ordered(rule, v)
    <3>1. CASE rule.array
      BY <1>5, <3>1 DEF ComparableWith, Ordered
    <3>2. CASE ~rule.array
      <4>1. rule.value = {x}
        BY <3>2, OnlyValueFact
      <4> HIDE DEF x
      <4>2. comparable <=> v.type = "number" /\ x.type = "number"
        BY <1>5, <3>2, <4>1 DEF ComparableWith
      <4> QED
        BY <3>2, <4>2 DEF Ordered, x
    <3> QED
      BY <3>1, <3>2
  <2>2. Ordered(o, v) <=> Ordered(rule, v)
    BY <1>1 DEF Ordered
  <2>3. Ordered(rule, v) => v.of \in Int /\ x.of \in Int
    <3>1. ASSUME ~rule.array PROVE x.of \in Int
      <4>1. IsValue(x)
        BY <3>1, OnlyValueFact DEF IsRule
      <4> QED
        BY <4>1 DEF IsValue
    <3> QED
      BY <3>1 DEF IsValue, Ordered
  <2> DEFINE a == v.of
             b == x.of
  <2>4. /\ rule.op = "gt"  => (Matches(rule, v) <=> Ordered(rule, v) /\ a > b)
        /\ rule.op = "gte" => (Matches(rule, v) <=> Ordered(rule, v) /\ a >= b)
        /\ rule.op = "lt"  => (Matches(rule, v) <=> Ordered(rule, v) /\ a < b)
        /\ rule.op = "lte" => (Matches(rule, v) <=> Ordered(rule, v) /\ a <= b)
    BY MatchesByOp
  <2>5. /\ o.op = "gt"  => (Matches(o, v) <=> Ordered(o, v) /\ a > b)
        /\ o.op = "gte" => (Matches(o, v) <=> Ordered(o, v) /\ a >= b)
        /\ o.op = "lt"  => (Matches(o, v) <=> Ordered(o, v) /\ a < b)
        /\ o.op = "lte" => (Matches(o, v) <=> Ordered(o, v) /\ a <= b)
    <3> HIDE DEF o, x
    <3> QED
      BY <1>1, MatchesByOp
  <2>6. Ordered(rule, v) => a \in Int /\ b \in Int
    BY <2>3
  <2> DEFINE p == Ordered(rule, v)
             q == Ordered(o, v)
  <2>7. q <=> p
    BY <2>2
  <2>8. (p => (Matches(o, v) <=> ~Matches(rule, v))) /\ (~p => ~Matches(o, v) /\ ~Matches(rule, v))
    <3> HIDE DEF p, q, o, a, b
    <3>1. CASE rule.op = "gt"
      BY <1>1, <2>4, <2>5, <2>6, <2>7, <3>1 DEF p, q
    <3>2. CASE rule.op = "gte"
      BY <1>1, <2>4, <2>5, <2>6, <2>7, <3>2 DEF p, q
    <3>3. CASE rule.op = "lt"
      BY <1>1, <2>4, <2>5, <2>6, <2>7, <3>3 DEF p, q
    <3>4. CASE rule.op = "lte"
      BY <1>1, <2>4, <2>5, <2>6, <2>7, <3>4 DEF p, q
    <3> QED
      BY <1>5, <3>1, <3>2, <3>3, <3>4
  <2> QED
    BY <2>1, <2>8
<1> QED
  BY <1>2, <1>3, <1>4, <1>5 DEF Operators

\* What a rule is compared with is a value.
LEMMA CtxValueType ==
  ASSUME NEW context, IsContext(context), NEW field \in Fields
  PROVE  IsValue(CtxValue(context, field))
<1>1. IsValue(context.attributes[field]) /\ IsValue(Undefined)
  BY DEF IsContext, IsValue, Undefined
<1>2. field \in Identifiers => IsValue(context.ids[field])
  BY DEF IsContext
<1> DEFINE a == context.attributes[field]
           i == context.ids[field]
<1>3. CtxValue(context, field) = CASE a # Undefined -> a
                                   [] a = Undefined /\ field \in Identifiers -> i
                                   [] OTHER -> Undefined
  BY DEF CtxValue
<1> HIDE DEF a, i
<1>4. \/ CtxValue(context, field) \in {a, Undefined}
      \/ field \in Identifiers /\ CtxValue(context, field) = i
  BY <1>3
<1> QED
  BY <1>1, <1>2, <1>4 DEF a, i

----------------------------------------------------------------------------
(* More rules, for a flag of which the i-th rule is the first to decide.   *)

With(flag, pct, rules) == [flag EXCEPT !.rolloutPct = pct, !.rules = rules]

\* The flag with another rollout and other rules.
LEMMA WithFields ==
  ASSUME NEW flag, IsFlag(flag), NEW pct, NEW rules
  PROVE  /\ With(flag, pct, rules).stored = flag.stored
         /\ With(flag, pct, rules).enabled = flag.enabled
         /\ With(flag, pct, rules).key = flag.key
         /\ With(flag, pct, rules).rolloutPct = pct
         /\ With(flag, pct, rules).rules = rules
         /\ With(flag, pct, rules).variants = flag.variants
  BY DEF IsFlag, With

\* Rules play no part in the rollout.
LEMMA WithRollout ==
  ASSUME NEW flag, IsFlag(flag), flag.stored, flag.enabled, NEW value, NEW context,
         NEW pct, NEW rules
  PROVE  /\ EvaluateFlag(With(flag, pct, rules), value, context).reason = "SPLIT"
              <=> pct < 100 /\ Bucket(flag, context) >= pct
         /\ EvaluateFlag(With(flag, pct, rules), value, context).reason # "SPLIT" =>
              EvaluateFlag(With(flag, pct, rules), value, context).value
                = EvaluateTargeting(With(flag, pct, rules), context).value
<1> DEFINE f == With(flag, pct, rules)
<1>1. f.stored /\ f.enabled /\ f.key = flag.key /\ f.rolloutPct = pct
  BY WithFields
<1> HIDE DEF f
<1>2. Bucket(f, context) = Bucket(flag, context)
  BY <1>1 DEF Bucket, HashInput
<1> QED
  BY <1>1, <1>2, Rollout DEF f

\* Behind it, a rule changes nothing.
Behind(flag, rule) == With(flag, 100, Append(flag.rules, rule))

LEMMA RuleBehind ==
  ASSUME NEW flag, IsFlag(flag), NEW context, context.given, NEW rule,
         NEW i, FirstIn(Deciding(flag, context), i)
  PROVE  EvaluateTargeting(Behind(flag, rule), context).value
           = flag.variants[flag.rules[i].variant]
<1> DEFINE f == Behind(flag, rule)
           n == Len(flag.rules)
           more == Append(flag.rules, rule)
<1>1. f.rules = more /\ f.variants = flag.variants
  <2>1. f = With(flag, 100, more)
    BY DEF Behind
  <2> HIDE DEF f, more
  <2> QED
    BY <2>1, WithFields
<1> HIDE DEF f
<1>2. /\ n \in Nat /\ Len(f.rules) = n + 1 /\ f.rules # <<>>
      /\ \A k \in 1..n : f.rules[k] = flag.rules[k]
  <2> DEFINE S == ToSet(flag.rules) \cup {rule}
  <2>1. flag.rules \in Seq(S) /\ rule \in S
    <3>1. flag.rules \in Seq(ToSet(flag.rules))
      BY DEF IsFlag
    <3>2. ToSet(flag.rules) \subseteq S
      OBVIOUS
    <3> HIDE DEF S
    <3>3. flag.rules \in Seq(S)
      BY <3>1, <3>2
    <3> QED
      BY <3>3 DEF S
  <2> HIDE DEF S
  <2> QED
    BY <1>1, <2>1, AppendProperties, LenProperties
<1>3. \A k \in 1..n : k \in Deciding(f, context) <=> k \in Deciding(flag, context)
  BY <1>1, <1>2 DEF Deciding, Decides
<1>4. i \in 1..n /\ i \in Deciding(flag, context) /\ \A k \in Deciding(flag, context) : i <= k
  BY DEF FirstIn, Deciding
<1>5. \A k \in Deciding(f, context) : k \in 1..n \/ k = n + 1
  BY <1>2 DEF Deciding
<1>6. FirstIn(Deciding(f, context), i)
  BY <1>2, <1>3, <1>4, <1>5 DEF FirstIn
<1>7. EvaluateTargeting(f, context).value = f.variants[f.rules[i].variant]
  BY <1>2, <1>6, TargetingValue
<1> QED
  BY <1>1, <1>2, <1>4, <1>7 DEF f

\* In front of it, a rule decides if it matches.
LEMMA RuleInFront ==
  ASSUME NEW flag, IsFlag(flag), NEW context, context.given, NEW rule,
         rule.variant \in DOMAIN flag.variants,
         NEW i, FirstIn(Deciding(flag, context), i)
  PROVE  EvaluateTargeting(With(flag, 100, <<rule>> \o flag.rules), context).value
           = IF Matches(rule, CtxValue(context, rule.field)) THEN flag.variants[rule.variant]
             ELSE flag.variants[flag.rules[i].variant]
<1> DEFINE f == With(flag, 100, <<rule>> \o flag.rules)
           n == Len(flag.rules)
           more == <<rule>> \o flag.rules
<1>1. f.rules = more /\ f.variants = flag.variants
  <2>1. f = With(flag, 100, more)
    OBVIOUS
  <2> HIDE DEF f, more
  <2> QED
    BY <2>1, WithFields
<1> HIDE DEF f
<1>2. /\ n \in Nat /\ Len(f.rules) = n + 1 /\ f.rules # <<>> /\ f.rules[1] = rule
      /\ \A k \in 1..n : f.rules[k + 1] = flag.rules[k]
  <2> DEFINE S == ToSet(flag.rules) \cup {rule}
  <2>1. flag.rules \in Seq(S) /\ <<rule>> \in Seq(S) /\ Len(<<rule>>) = 1 /\ <<rule>>[1] = rule
    <3>1. flag.rules \in Seq(ToSet(flag.rules))
      BY DEF IsFlag
    <3>2. ToSet(flag.rules) \subseteq S /\ rule \in S
      OBVIOUS
    <3> HIDE DEF S
    <3>3. flag.rules \in Seq(S) /\ <<rule>> \in Seq(S)
      BY <3>1, <3>2
    <3> QED
      BY <3>3 DEF S
  <2> HIDE DEF S
  <2> DEFINE one == <<rule>>
  <2>2. one \in Seq(S) /\ Len(one) = 1 /\ one[1] = rule
    BY <2>1
  <2> HIDE DEF one
  <2>3. /\ Len(one \o flag.rules) = Len(one) + Len(flag.rules)
        /\ \A k \in 1..(Len(one) + Len(flag.rules)) :
             (one \o flag.rules)[k] = IF k <= Len(one) THEN one[k] ELSE flag.rules[k - Len(one)]
    <3> DEFINE s == flag.rules
    <3>1. s \in Seq(S) /\ one \in Seq(S)
      BY <2>1, <2>2
    <3> HIDE DEF s
    <3>2. /\ Len(one \o s) = Len(one) + Len(s)
          /\ \A k \in 1..(Len(one) + Len(s)) :
               (one \o s)[k] = IF k <= Len(one) THEN one[k] ELSE s[k - Len(one)]
      BY <3>1, ConcatProperties
    <3> QED
      BY <3>2 DEF s
  <2>4. f.rules = one \o flag.rules /\ n \in Nat
    BY <1>1, <2>1, LenProperties DEF one
  <2> QED
    BY <2>2, <2>3, <2>4
<1>3. \A k \in 1..n : k + 1 \in Deciding(f, context) <=> k \in Deciding(flag, context)
  BY <1>1, <1>2 DEF Deciding, Decides
<1>4. i \in 1..n /\ i \in Deciding(flag, context) /\ \A k \in Deciding(flag, context) : i <= k
  BY DEF FirstIn, Deciding
<1>5. \A k \in Deciding(f, context) :
        k \in 1..(n + 1) /\ (k = 1 \/ (k - 1 \in 1..n /\ k - 1 \in Deciding(flag, context)))
  <2> TAKE k \in Deciding(f, context)
  <2>1. k \in 1..(n + 1)
    BY <1>2 DEF Deciding
  <2>2. k = 1 \/ (k - 1 \in 1..n /\ k = (k - 1) + 1)
    BY <1>2, <2>1
  <2> QED
    BY <1>3, <2>2
<1>6. 1 \in Deciding(f, context) <=> Matches(rule, CtxValue(context, rule.field))
  BY <1>1, <1>2 DEF Deciding, Decides
<1>7. CASE Matches(rule, CtxValue(context, rule.field))
  <2>1. FirstIn(Deciding(f, context), 1)
    BY <1>2, <1>5, <1>6, <1>7 DEF FirstIn
  <2>2. EvaluateTargeting(f, context).value = f.variants[f.rules[1].variant]
    BY <1>2, <2>1, TargetingValue
  <2>3. EvaluateTargeting(f, context).value = flag.variants[rule.variant]
    BY <1>1, <1>2, <2>2
  <2> QED
    BY <1>7, <2>3 DEF f
<1>8. CASE ~Matches(rule, CtxValue(context, rule.field))
  <2>1. FirstIn(Deciding(f, context), i + 1)
    <3>1. i + 1 \in Deciding(f, context)
      BY <1>3, <1>4
    <3>2. ASSUME NEW k \in Deciding(f, context) PROVE i + 1 <= k
      <4>1. k \in 1..(n + 1) /\ k - 1 \in 1..n /\ i <= k - 1
        BY <1>4, <1>5, <1>6, <1>8
      <4> QED
        BY <1>2, <1>4, <4>1
    <3> QED
      BY <3>1, <3>2 DEF FirstIn
  <2>2. EvaluateTargeting(f, context).value = f.variants[f.rules[i + 1].variant]
    BY <1>2, <2>1, TargetingValue
  <2>3. f.rules[i + 1] = flag.rules[i]
    BY <1>2, <1>4
  <2>4. EvaluateTargeting(f, context).value = flag.variants[flag.rules[i].variant]
    BY <1>1, <2>2, <2>3
  <2> QED
    BY <1>8, <2>4 DEF f
<1> QED
  BY <1>7, <1>8

----------------------------------------------------------------------------
(* The call.                                                               *)

\* What a resolved evaluation is about and what it returned.
EvaluationInv ==
  call.op = "resolve" =>
    /\ call.flag \in Flags /\ call.context \in Contexts
    /\ outcome = Resolved(EvaluateFlag(call.flag, call.default, call.context))

\* The state of a call of resolve*Value says what was evaluated.
LEMMA EvaluationInvHolds == Spec => []EvaluationInv
<1>1. Init => EvaluationInv
  BY DEF Init, NoCall, EvaluationInv
<1>2. EvaluationInv /\ [Next]_vars => EvaluationInv'
  <2> SUFFICES ASSUME EvaluationInv, [Next]_vars
               PROVE  EvaluationInv'
    OBVIOUS
  <2>1. ASSUME NEW doc, NEW config, ChunkDocument(doc, config) PROVE EvaluationInv'
    <3>1. call'.op = "chunk"
      BY <2>1 DEF ChunkDocument
    <3> QED
      BY <3>1 DEF EvaluationInv
  <2>2. ASSUME NEW o, Retrieve(o) PROVE EvaluationInv'
    <3>1. call'.op = "retrieve"
      BY <2>2 DEF Retrieve
    <3> QED
      BY <3>1 DEF EvaluationInv
  <2>3. ASSUME NEW side, NEW answer, ProviderSettles(side, answer) PROVE EvaluationInv'
    <3>1. call'.op = "retrieve"
      BY <2>3 DEF ProviderSettles
    <3> QED
      BY <3>1 DEF EvaluationInv
  <2>4. ASSUME NEW topK, RerankResults(topK) PROVE EvaluationInv'
    <3>1. call'.op = "rerank"
      BY <2>4 DEF RerankResults
    <3> QED
      BY <3>1 DEF EvaluationInv
  <2>5. ASSUME NEW flag \in Flags, NEW value, NEW context \in Contexts,
               ResolveValue(flag, value, context)
        PROVE  EvaluationInv'
    <3>1. call'.flag = flag /\ call'.default = value /\ call'.context = context
          /\ outcome' = Resolved(EvaluateFlag(flag, value, context))
      BY <2>5 DEF ResolveValue
    <3> QED
      BY <3>1 DEF EvaluationInv
  <2>6. CASE Return
    <3>1. call'.op = "none"
      BY <2>6 DEF Return, NoCall
    <3> QED
      BY <3>1 DEF EvaluationInv
  <2>7. CASE UNCHANGED vars
    BY <2>7 DEF vars, EvaluationInv
  <2> QED
    BY <2>1, <2>2, <2>3, <2>4, <2>5, <2>6, <2>7 DEF Next
<1> QED
  BY <1>1, <1>2, PTL DEF Spec

\* Rollouts are percentages that only grow, a flag that is off or split gives
\* the caller's default, and the first matching rule decides (evaluateFlag,
\* evaluateTargeting and simpleHash), for every flag and every context.
THEOREM EvaluationCorrect == Spec => []EvaluationSound
<1>1. EvaluationInv => EvaluationSound
  <2> SUFFICES ASSUME EvaluationInv, Returned("resolve")
               PROVE  EvaluationSound
    BY DEF EvaluationSound
  <2> DEFINE flag    == call.flag
             context == call.context
             value   == call.default
             live    == flag.stored /\ flag.enabled
             Rules   == UNION {ToSet(f.rules) : f \in Flags}
             e       == outcome.value
  <2>1. /\ flag \in Flags /\ context \in Contexts
        /\ e = EvaluateFlag(flag, value, context)
    BY DEF EvaluationInv, Returned, Resolved
  <2>2. IsFlag(flag) /\ IsContext(context) /\ flag.rolloutPct \in Int
    BY <2>1, EvaluationAssumption DEF IsFlag
  <2> HIDE DEF flag, context, value, e
  <2>3. ASSUME live, NEW pct, NEW rules
        PROVE  /\ EvaluateFlag(With(flag, pct, rules), value, context).reason = "SPLIT"
                    <=> pct < 100 /\ Bucket(flag, context) >= pct
               /\ EvaluateFlag(With(flag, pct, rules), value, context).reason # "SPLIT" =>
                    EvaluateFlag(With(flag, pct, rules), value, context).value
                      = EvaluateTargeting(With(flag, pct, rules), context).value
    BY <2>2, <2>3, WithRollout
  <2>4. Bucket(flag, context) \in 0..99
    BY <2>2, BucketRange
  <2> DEFINE InAt(pct, rules) == EvaluateFlag(With(flag, pct, rules), value, context).reason # "SPLIT"
  <2>5. live => /\ ~InAt(0, flag.rules) /\ InAt(100, flag.rules)
                /\ \A pct \in flag.rolloutPct..100 : InAt(flag.rolloutPct, flag.rules) => InAt(pct, <<>>)
    <3> SUFFICES ASSUME live
                 PROVE  /\ ~InAt(0, flag.rules) /\ InAt(100, flag.rules)
                        /\ \A pct \in flag.rolloutPct..100 :
                             InAt(flag.rolloutPct, flag.rules) => InAt(pct, <<>>)
      OBVIOUS
    <3>1. \A pct, rules : InAt(pct, rules) <=> ~(pct < 100 /\ Bucket(flag, context) >= pct)
      BY <2>3
    <3>2. PICK b \in 0..99 : b = Bucket(flag, context)
      BY <2>4
    <3>3. PICK full \in Int : full = flag.rolloutPct
      BY <2>2
    <3> HIDE DEF InAt
    <3>4. ~InAt(0, flag.rules) /\ InAt(100, flag.rules)
      BY <3>1, <3>2
    <3>5. ASSUME NEW pct \in full..100, InAt(full, flag.rules) PROVE InAt(pct, <<>>)
      <4>1. ~(full < 100 /\ b >= full)
        BY <3>1, <3>2, <3>5
      <4>2. ~(pct < 100 /\ b >= pct)
        BY <4>1
      <4> QED
        BY <3>1, <3>2, <4>2
    <3> QED
      BY <3>3, <3>4, <3>5
  <2>6. ~live \/ e.reason = "SPLIT" => e.value = value
    <3>1. ~live => e.value = value
      BY <2>1, NotLive
    <3>2. live /\ e.reason = "SPLIT" => e.value = value
      BY <2>1, Rollout
    <3> QED
      BY <3>1, <3>2
  <2> DEFINE Value(rules) == EvaluateFlag(With(flag, 100, rules), value, context)
             Comparable(rule) == ComparableWith(rule, CtxValue(context, rule.field))
  <2>7. ASSUME live, context.given, e.reason = "TARGETING_MATCH", flag.rules # <<>>,
               NEW rule \in Rules
        PROVE  /\ Value(Append(flag.rules, rule)).value = e.value
               /\ rule.variant \in DOMAIN flag.variants =>
                    {Value(<<rule>> \o flag.rules).value, Value(<<Opposite(rule)>> \o flag.rules).value}
                      = {IF Comparable(rule) THEN flag.variants[rule.variant] ELSE e.value, e.value}
    <3>1. IsRule(rule)
      BY EvaluationAssumption DEF IsFlag
    <3>2. Len(flag.rules) \in Nat
      BY <2>2, LenProperties DEF IsFlag
    <3>3. e.value = EvaluateTargeting(flag, context).value /\ EvaluateTargeting(flag, context).matched
      BY <2>1, <2>7, Rollout
    <3>4. PICK i \in 1..Len(flag.rules) :
            /\ FirstIn(Deciding(flag, context), i)
            /\ EvaluateTargeting(flag, context).value = flag.variants[flag.rules[i].variant]
      BY <2>7, <3>2, <3>3, TargetingDecides
    <3>5. \A rules : Value(rules).value = EvaluateTargeting(With(flag, 100, rules), context).value
      <4> TAKE rules
      <4>1. Value(rules).reason # "SPLIT"
        <5>1. Value(rules).reason = "SPLIT" <=> 100 < 100 /\ Bucket(flag, context) >= 100
          BY <2>3, <2>7
        <5> QED
          BY <5>1
      <4> QED
        BY <2>3, <2>7, <4>1
    <3> HIDE DEF Value
    <3>6. Value(Append(flag.rules, rule)).value = e.value
      <4>1. EvaluateTargeting(Behind(flag, rule), context).value
              = flag.variants[flag.rules[i].variant]
        <5>1. IsFlag(flag) /\ context.given /\ FirstIn(Deciding(flag, context), i)
          BY <2>2, <2>7, <3>4
        <5> QED
          BY <5>1, RuleBehind
      <4> QED
        BY <3>3, <3>4, <3>5, <4>1 DEF Behind
    <3>7. ASSUME rule.variant \in DOMAIN flag.variants
          PROVE  {Value(<<rule>> \o flag.rules).value, Value(<<Opposite(rule)>> \o flag.rules).value}
                   = {IF Comparable(rule) THEN flag.variants[rule.variant] ELSE e.value, e.value}
      <4> DEFINE v == CtxValue(context, rule.field)
                 o == Opposite(rule)
                 comparable == Comparable(rule)
      <4>1. /\ comparable => (Matches(o, v) <=> ~Matches(rule, v))
            /\ ~comparable => ~Matches(o, v) /\ ~Matches(rule, v)
        <5>1. rule.field \in Fields
          BY <3>1 DEF IsRule
        <5>2. IsValue(v)
          BY <2>2, <5>1, CtxValueType
        <5> QED
          BY <3>1, <5>2, OppositeMatches
      <4>2. o.variant = rule.variant /\ o.field = rule.field
        BY <3>1, OppositeFields
      <4> HIDE DEF o, comparable
      <4>3. Value(<<rule>> \o flag.rules).value =
              IF Matches(rule, v) THEN flag.variants[rule.variant] ELSE e.value
        BY <2>2, <2>7, <3>3, <3>4, <3>5, <3>7, RuleInFront
      <4>4. Value(<<o>> \o flag.rules).value =
              IF Matches(o, v) THEN flag.variants[rule.variant] ELSE e.value
        BY <2>2, <2>7, <3>3, <3>4, <3>5, <3>7, <4>2, RuleInFront
      <4> HIDE DEF v
      <4>5. {Value(<<rule>> \o flag.rules).value, Value(<<o>> \o flag.rules).value}
              = {IF comparable THEN flag.variants[rule.variant] ELSE e.value, e.value}
        BY <4>1, <4>3, <4>4
      <4> QED
        BY <4>5 DEF o, comparable
    <3> QED
      BY <3>6, <3>7
  <2>8. live /\ context.given /\ e.reason = "TARGETING_MATCH" /\ flag.rules # <<>> =>
          \A rule \in Rules :
            /\ Value(Append(flag.rules, rule)).value = e.value
            /\ rule.variant \in DOMAIN flag.variants =>
                 {Value(<<rule>> \o flag.rules).value, Value(<<Opposite(rule)>> \o flag.rules).value}
                   = {IF Comparable(rule) THEN flag.variants[rule.variant] ELSE e.value, e.value}
    <3> HIDE DEF live, Rules, Value, Comparable
    <3> QED
      BY <2>7
  <2> QED
    BY <2>5, <2>6, <2>8, Zenon DEF EvaluationSound, ComparableWith, With, flag, context, value, e
<1> QED
  BY <1>1, EvaluationInvHolds, PTL

----------------------------------------------------------------------------
(* Retrieval.  Scores are fractions.                                       *)
\* Factors keep the order.
LEMMA Monotone ==
  ASSUME NEW a \in Int, NEW b \in Int, NEW c \in Nat, a <= b
  PROVE  a * c <= b * c
<1>1. b - a \in Nat
  OBVIOUS
<1>2. (b - a) * c \in Nat
  BY <1>1
<1>3. (b - a) * c = b * c - a * c
  OBVIOUS
<1> QED
  BY <1>2, <1>3

\* And can be cancelled.
LEMMA Cancel ==
  ASSUME NEW a \in Int, NEW b \in Int, NEW c \in Nat, c > 0, a * c <= b * c
  PROVE  a <= b
<1> SUFFICES ASSUME b + 1 <= a PROVE FALSE
  OBVIOUS
<1>1. (b + 1) * c <= a * c
  BY Monotone
<1> QED
  BY <1>1

\* a/b <= c/d and c/d <= e/f.
LEMMA FractionsOrder ==
  ASSUME NEW a \in Int, NEW b \in Nat, b > 0, NEW c \in Int, NEW d \in Nat, d > 0,
         NEW e \in Int, NEW f \in Nat, f > 0, a * d <= c * b, c * f <= e * d
  PROVE  a * f <= e * b
<1>1. (a * d) * f <= (c * b) * f
  BY Monotone
<1>2. (c * f) * b <= (e * d) * b
  BY Monotone
<1>3. (a * f) * d <= (e * b) * d
  BY <1>1, <1>2
<1> QED
  BY <1>3, Cancel

\* Sums of fractions are in the order of their parts.
LEMMA SumsOrder ==
  ASSUME NEW a \in Int, NEW b \in Nat, NEW c \in Int, NEW d \in Nat,
         NEW e \in Int, NEW f \in Nat, NEW g \in Int, NEW h \in Nat,
         a * f <= e * b, c * h <= g * d
  PROVE  (a * d + c * b) * (f * h) <= (e * h + g * f) * (b * d)
<1>1. (a * f) * (d * h) <= (e * b) * (d * h)
  BY Monotone
<1>2. (c * h) * (b * f) <= (g * d) * (b * f)
  BY Monotone
<1>3. (a * d + c * b) * (f * h) = (a * f) * (d * h) + (c * h) * (b * f)
  OBVIOUS
<1>4. (e * h + g * f) * (b * d) = (e * b) * (d * h) + (g * d) * (b * f)
  OBVIOUS
<1> QED
  BY <1>1, <1>2, <1>3, <1>4

\* w/P + w/Q exceeds w/M for P and Q up to 2K + 1 and M from K + 1.
LEMMA TwoBeatOne ==
  ASSUME NEW w \in Nat, w > 0, NEW K \in Nat, NEW P \in 1..(2 * K + 1), NEW Q \in 1..(2 * K + 1),
         NEW M \in Nat, M >= K + 1
  PROVE  (w * Q + w * P) * M > w * (P * Q)
<1>1. P * Q <= (2 * K + 1) * Q
  BY Monotone
<1>2. Q * P <= (2 * K + 1) * P
  BY Monotone
<1>3. 2 * (P * Q) <= (2 * K + 1) * (P + Q)
  BY <1>1, <1>2
<1>4. (K + 1) * (P + Q) <= M * (P + Q)
  BY Monotone
<1>5. 2 * (P * Q) < 2 * (M * (P + Q))
  BY <1>3, <1>4
<1>6. P * Q + 1 <= M * (P + Q)
  BY <1>5
<1>7. (P * Q + 1) * w <= (M * (P + Q)) * w
  BY <1>6, Monotone
<1>8. (w * Q + w * P) * M = (M * (P + Q)) * w
  OBVIOUS
<1>9. (P * Q + 1) * w = w * (P * Q) + w
  OBVIOUS
<1> QED
  BY <1>7, <1>8, <1>9

\* A list names no row twice.
Distinct(list) == \A i, j \in 1..Len(list) : list[i] = list[j] => i = j

\* full holds the rows of Own, each once, in an order that respects better.
Ranks(full, Own, better) ==
  /\ full \in Seq(Own) /\ Distinct(full)
  /\ \A r \in Own : \E i \in 1..Len(full) : full[i] = r
  /\ \A i, j \in 1..Len(full) : <<full[i], full[j]>> \in better => i < j

\* What RetrievalSound says of the rows that are returned.
Cut(value, Own, better, k) ==
  /\ ToSet(value) \subseteq Own
  /\ Cardinality(ToSet(value)) = Len(value)
  /\ Len(value) <= k
  /\ Len(value) < k => ToSet(value) = Own
  /\ \A r, t \in Own : <<r, t>> \in better /\ Among(value, t) =>
       Among(value, r) /\ RankIn(value, r) < RankIn(value, t)

\* Every row is at the place that RankIn gives.
LEMMA RankOf ==
  ASSUME NEW X, NEW s \in Seq(X), Distinct(s)
  PROVE  /\ \A i \in 1..Len(s) : Among(s, s[i]) /\ RankIn(s, s[i]) = i
         /\ \A r : Among(s, r) => RankIn(s, r) \in 1..Len(s) /\ s[RankIn(s, r)] = r
<1>1. DOMAIN s = 1..Len(s)
  BY LenProperties
<1>2. ASSUME NEW r, Among(s, r)
      PROVE  RankIn(s, r) \in 1..Len(s) /\ s[RankIn(s, r)] = r
  BY <1>1, <1>2 DEF Among, RankIn
<1>3. ASSUME NEW i \in 1..Len(s)
      PROVE  Among(s, s[i]) /\ RankIn(s, s[i]) = i
  <2>1. Among(s, s[i])
    BY <1>1 DEF Among
  <2> QED
    BY <1>2, <2>1 DEF Distinct
<1> QED
  BY <1>2, <1>3

\* The first k of ranked rows are what RetrievalSound asks for.
LEMMA TopKCut ==
  ASSUME NEW Own, NEW full, NEW better, Ranks(full, Own, better), NEW k \in Nat
  PROVE  Cut(TopK(full, k), Own, better, k)
<1> DEFINE m == IF Len(full) < k THEN Len(full) ELSE k
           value == TopK(full, k)
<1>1. full \in Seq(Own) /\ Distinct(full) /\ Len(full) \in Nat /\ m \in 0..Len(full)
  BY LenProperties DEF Ranks
<1>2. value \in Seq(Own) /\ Len(value) = m /\ \A i \in 1..m : value[i] = full[i]
  <2>1. value = SubSeq(full, 1, m)
    BY DEF TopK
  <2> HIDE DEF m, value
  <2>2. SubSeq(full, 1, m) \in Seq(Own) /\ Len(SubSeq(full, 1, m)) = m
    BY <1>1, SubSeqProperties
  <2>3. \A i \in 1..m : SubSeq(full, 1, m)[i] = full[i]
    BY <1>1, SubSeqProperties
  <2> QED
    BY <2>1, <2>2, <2>3
<1> HIDE DEF value
<1>3. m \in Nat /\ m <= k /\ m <= Len(full) /\ (m < k => m = Len(full))
  BY <1>1
<1> HIDE DEF m
<1>4. Distinct(value) /\ DOMAIN value = 1..m
  BY <1>1, <1>2, <1>3 DEF Distinct
<1>5. ToSet(value) \subseteq Own
  BY <1>2, <1>4, ElementOfSeq DEF ToSet
<1>6. Cardinality(ToSet(value)) = Len(value)
  <2>1. value \in Bijection(1..m, ToSet(value))
    <3>1. value \in [1..m -> ToSet(value)]
      BY <1>2, <1>4 DEF ToSet
    <3>2. \A i, j \in 1..m : value[i] = value[j] => i = j
      BY <1>2, <1>4 DEF Distinct
    <3>3. \A r \in ToSet(value) : \E i \in 1..m : value[i] = r
      BY <1>4 DEF ToSet
    <3> QED
      BY <3>1, <3>2, <3>3 DEF Bijection, Injection, Surjection, IsInjective
  <2>2. ExistsBijection(1..m, ToSet(value))
    BY <2>1 DEF ExistsBijection
  <2>3. IsFiniteSet(1..m) /\ Cardinality(1..m) = m
    BY <1>3, FS_Interval
  <2> QED
    BY <1>2, <2>2, <2>3, FS_Bijection
<1>7. ASSUME Len(value) < k
      PROVE  ToSet(value) = Own
  <2>1. \A r \in Own : \E i \in 1..m : full[i] = r
    BY <1>2, <1>3, <1>7 DEF Ranks
  <2>2. \A r \in Own : \E i \in 1..m : value[i] = r
    BY <1>2, <2>1
  <2>3. Own \subseteq ToSet(value)
    BY <1>4, <2>2 DEF ToSet
  <2> QED
    BY <1>5, <2>3
<1>8. ASSUME NEW r \in Own, NEW t \in Own, <<r, t>> \in better, Among(value, t)
      PROVE  Among(value, r) /\ RankIn(value, r) < RankIn(value, t)
  <2>1. PICK j \in 1..m : value[j] = t
    BY <1>4, <1>8 DEF Among
  <2>2. PICK i \in 1..Len(full) : full[i] = r
    BY DEF Ranks
  <2>3. j \in 1..Len(full) /\ full[j] = t
    BY <1>2, <1>3, <1>1, <2>1
  <2>4. i < j
    BY <1>8, <2>2, <2>3 DEF Ranks
  <2>5. i \in 1..m /\ value[i] = r
    BY <1>1, <1>2, <1>3, <2>1, <2>2, <2>4
  <2>6. Among(value, r) /\ RankIn(value, r) = i /\ RankIn(value, t) = j
    BY <1>2, <1>4, <2>1, <2>5, RankOf
  <2> QED
    BY <2>4, <2>6
<1>9. Len(value) <= k
  BY <1>2, <1>3
<1> QED
  BY <1>5, <1>6, <1>7, <1>8, <1>9 DEF Cut, value

\* The rows of the caller's tenant.
Mine(list, tenant) == {r \in ToSet(list) : r.tenant = tenant}

\* One side alone: its rows of the tenant, in its order.
LEMMA FilterTenantRanks ==
  ASSUME NEW X, NEW list \in Seq(X), Distinct(list), NEW tenant,
         NEW better, \A p, q \in 1..Len(list) : <<list[p], list[q]>> \in better => p < q
  PROVE  Ranks(FilterTenant(list, tenant), Mine(list, tenant), better)
<1> DEFINE S == Mine(list, tenant)
           only == Only(list, S)
<1>1. only = FilterTenant(list, tenant)
  BY DEF FilterTenant, Mine
<1>2. \A p, q \in 1..Len(list) : list[p] = list[q] => p = q
  BY DEF Distinct
<1>3. DOMAIN list = 1..Len(list) /\ Len(list) \in Nat
  BY LenProperties
<1>4. \A r \in S : \E p \in 1..Len(list) : list[p] = r
  BY <1>3 DEF Mine, ToSet
<1> HIDE DEF S
<1>5. /\ only \in Seq(X) /\ Len(only) \in Nat
      /\ \A i \in 1..Len(only) : \E p \in 1..Len(list) : list[p] \in S /\ only[i] = list[p]
      /\ \A p \in 1..Len(list) : list[p] \in S => \E i \in 1..Len(only) : only[i] = list[p]
      /\ \A i, j \in 1..Len(only) : only[i] = only[j] => i = j
      /\ \A i, j \in 1..Len(only) : \A p, q \in 1..Len(list) :
           only[i] = list[p] /\ only[j] = list[q] /\ p < q => i < j
  BY <1>2, OnlyOrder
<1> HIDE DEF only
<1>6. only \in Seq(S)
  <2>1. \A i \in 1..Len(only) : only[i] \in S
    BY <1>5
  <2>2. only = [i \in 1..Len(only) |-> only[i]]
    BY <1>5
  <2> QED
    BY <1>5, <2>1, <2>2
<1>7. \A r \in S : \E i \in 1..Len(only) : only[i] = r
  BY <1>4, <1>5
<1>8. ASSUME NEW i \in 1..Len(only), NEW j \in 1..Len(only), <<only[i], only[j]>> \in better
      PROVE  i < j
  <2>1. PICK p \in 1..Len(list) : only[i] = list[p]
    BY <1>5
  <2>2. PICK q \in 1..Len(list) : only[j] = list[q]
    BY <1>5
  <2>3. p < q
    BY <1>8, <2>1, <2>2
  <2> QED
    BY <1>5, <2>1, <2>2, <2>3
<1>9. Ranks(only, S, better)
  BY <1>5, <1>6, <1>7, <1>8 DEF Ranks, Distinct
<1> QED
  BY <1>1, <1>9 DEF S

\* Places go from 1 to one behind the end.
LEMMA PlaceOf ==
  ASSUME NEW X, NEW list \in Seq(X), Distinct(list), NEW r
  PROVE  /\ Place(list, r) \in 1..(Len(list) + 1) /\ Len(list) \in Nat
         /\ Among(list, r) => /\ Place(list, r) = RankIn(list, r) /\ Place(list, r) \in 1..Len(list)
                              /\ list[Place(list, r)] = r
         /\ ~Among(list, r) => Place(list, r) = Len(list) + 1
<1>1. Len(list) \in Nat
  BY LenProperties
<1>2. Among(list, r) => RankIn(list, r) \in 1..Len(list) /\ list[RankIn(list, r)] = r
  BY RankOf
<1> QED
  BY <1>1, <1>2 DEF Place

\* The rows that are nowhere placed lower and somewhere higher than another.
Higher(kw, sem, Own) ==
  {rt \in Own \X Own :
     /\ Place(kw, rt[1]) <= Place(kw, rt[2]) /\ Place(sem, rt[1]) <= Place(sem, rt[2])
     /\ Place(kw, rt[1]) < Place(kw, rt[2]) \/ Place(sem, rt[1]) < Place(sem, rt[2])}

Both(kw, sem, tenant) == {r \in ToSet(kw) \cup ToSet(sem) : r.tenant = tenant}

\* The rows as they are inserted: those of both sides, each once, none before
\* one that is placed higher.
LEMMA InsertedRanks ==
  ASSUME NEW X, NEW kw \in Seq(X), NEW sem \in Seq(X), Distinct(kw), Distinct(sem), NEW tenant
  PROVE  Ranks(Inserted(kw, sem, tenant), Both(kw, sem, tenant),
               Higher(kw, sem, Both(kw, sem, tenant)))
<1> DEFINE Own == Both(kw, sem, tenant)
           S   == {r \in ToSet(kw) : r.tenant = tenant}
           T   == {r \in ToSet(sem) : r.tenant = tenant /\ ~Among(kw, r)}
           a   == Only(kw, S)
           b   == Only(sem, T)
           ins == Inserted(kw, sem, tenant)
<1>1. ins = a \o b
  BY DEF Inserted, FilterTenant
<1>2. /\ DOMAIN kw = 1..Len(kw) /\ Len(kw) \in Nat
      /\ DOMAIN sem = 1..Len(sem) /\ Len(sem) \in Nat
  BY LenProperties
<1>3. /\ \A r \in S : r \in Own /\ Among(kw, r) /\ \E p \in 1..Len(kw) : kw[p] = r
      /\ \A r \in T : r \in Own /\ ~Among(kw, r) /\ Among(sem, r) /\ \E p \in 1..Len(sem) : sem[p] = r
      /\ \A r \in Own : r \in S \/ r \in T
  BY <1>2 DEF ToSet, Among, Both
<1> HIDE DEF Own, S, T, ins
<1>4. /\ a \in Seq(X) /\ Len(a) \in Nat
      /\ \A i \in 1..Len(a) : \E p \in 1..Len(kw) : kw[p] \in S /\ a[i] = kw[p]
      /\ \A p \in 1..Len(kw) : kw[p] \in S => \E i \in 1..Len(a) : a[i] = kw[p]
      /\ \A i, j \in 1..Len(a) : a[i] = a[j] => i = j
      /\ \A i, j \in 1..Len(a) : \A p, q \in 1..Len(kw) :
           a[i] = kw[p] /\ a[j] = kw[q] /\ p < q => i < j
  BY OnlyOrder DEF Distinct
<1>5. /\ b \in Seq(X) /\ Len(b) \in Nat
      /\ \A i \in 1..Len(b) : \E p \in 1..Len(sem) : sem[p] \in T /\ b[i] = sem[p]
      /\ \A p \in 1..Len(sem) : sem[p] \in T => \E i \in 1..Len(b) : b[i] = sem[p]
      /\ \A i, j \in 1..Len(b) : b[i] = b[j] => i = j
      /\ \A i, j \in 1..Len(b) : \A p, q \in 1..Len(sem) :
           b[i] = sem[p] /\ b[j] = sem[q] /\ p < q => i < j
  BY OnlyOrder DEF Distinct
<1> HIDE DEF a, b
<1>6. /\ a \o b \in Seq(X) /\ Len(a \o b) = Len(a) + Len(b)
      /\ \A i \in 1..(Len(a) + Len(b)) : (a \o b)[i] = IF i <= Len(a) THEN a[i] ELSE b[i - Len(a)]
  BY <1>4, <1>5, ConcatProperties
<1>7. /\ ins \in Seq(X) /\ Len(ins) = Len(a) + Len(b)
      /\ \A i \in 1..Len(a) : i \in 1..Len(ins) /\ ins[i] = a[i]
      /\ \A i \in 1..Len(b) : i + Len(a) \in 1..Len(ins) /\ ins[i + Len(a)] = b[i]
      /\ \A i \in 1..Len(ins) : i \in 1..Len(a) \/ (i - Len(a) \in 1..Len(b) /\ i > Len(a))
  BY <1>1, <1>4, <1>5, <1>6
<1>8. \A i \in 1..Len(a) : ins[i] \in S
  BY <1>4, <1>7
<1>9. \A i \in 1..Len(ins) : i > Len(a) => i - Len(a) \in 1..Len(b) /\ ins[i] = b[i - Len(a)] /\ ins[i] \in T
  <2> SUFFICES ASSUME NEW i \in 1..Len(ins), i > Len(a)
               PROVE  i - Len(a) \in 1..Len(b) /\ ins[i] = b[i - Len(a)] /\ ins[i] \in T
    OBVIOUS
  <2>1. i - Len(a) \in 1..Len(b)
    BY <1>4, <1>7
  <2>2. ins[(i - Len(a)) + Len(a)] = b[i - Len(a)]
    BY <1>7, <2>1
  <2>3. (i - Len(a)) + Len(a) = i
    BY <1>4, <1>7
  <2>4. b[i - Len(a)] \in T
    BY <1>5, <2>1
  <2> QED
    BY <2>1, <2>2, <2>3, <2>4
<1>10. ins \in Seq(Own)
  <2>1. \A i \in 1..Len(ins) : ins[i] \in Own
    BY <1>3, <1>7, <1>8, <1>9
  <2>2. ins = [i \in 1..Len(ins) |-> ins[i]] /\ Len(ins) \in Nat
    BY <1>7, LenProperties
  <2> QED
    BY <2>1, <2>2
<1>11. \A r \in Own : \E i \in 1..Len(ins) : ins[i] = r
  <2> TAKE r \in Own
  <2>1. CASE r \in S
    <3>1. PICK p \in 1..Len(kw) : kw[p] = r
      BY <1>3, <2>1
    <3>2. PICK i \in 1..Len(a) : a[i] = r
      BY <1>4, <2>1, <3>1
    <3> QED
      BY <1>7, <3>2
  <2>2. CASE r \in T
    <3>1. PICK p \in 1..Len(sem) : sem[p] = r
      BY <1>3, <2>2
    <3>2. PICK i \in 1..Len(b) : b[i] = r
      BY <1>5, <2>2, <3>1
    <3>3. i + Len(a) \in 1..Len(ins) /\ ins[i + Len(a)] = r
      BY <1>7, <3>2
    <3> QED
      BY <3>3
  <2> QED
    BY <1>3, <2>1, <2>2
<1>12. ASSUME NEW i \in 1..Len(ins), NEW j \in 1..Len(ins), ins[i] = ins[j]
       PROVE  i = j
  <2>1. CASE i \in 1..Len(a)
    <3>1. j \in 1..Len(a)
      BY <1>3, <1>7, <1>8, <1>9, <1>12, <2>1
    <3> QED
      BY <1>4, <1>7, <1>12, <2>1, <3>1
  <2>2. CASE i > Len(a)
    <3>1. j > Len(a)
      BY <1>3, <1>4, <1>7, <1>8, <1>9, <1>12, <2>2
    <3>2. /\ i - Len(a) \in 1..Len(b) /\ j - Len(a) \in 1..Len(b)
          /\ b[i - Len(a)] = b[j - Len(a)]
      BY <1>9, <1>12, <2>2, <3>1
    <3>3. i - Len(a) = j - Len(a)
      BY <1>5, <3>2, Zenon
    <3> QED
      BY <1>4, <3>3
  <2> QED
    BY <1>7, <2>1, <2>2
<1>13. ASSUME NEW i \in 1..Len(ins), NEW j \in 1..Len(ins), <<ins[i], ins[j]>> \in Higher(kw, sem, Own)
       PROVE  i < j
  <2> DEFINE r == ins[i]  t == ins[j]
  <2>1. /\ Place(kw, r) <= Place(kw, t) /\ Place(sem, r) <= Place(sem, t)
        /\ Place(kw, r) < Place(kw, t) \/ Place(sem, r) < Place(sem, t)
    BY <1>13 DEF Higher
  <2>2. r # t
    <3>1. \A x : Place(kw, x) \in Int /\ Place(sem, x) \in Int
      BY PlaceOf
    <3> QED
      BY <2>1, <3>1
  <2> HIDE DEF r, t
  <2>3. CASE i \in 1..Len(a) /\ j \in 1..Len(a)
    <3>1. Among(kw, r) /\ Among(kw, t)
      BY <1>3, <1>8, <2>3 DEF r, t
    <3>2. /\ Place(kw, r) \in 1..Len(kw) /\ kw[Place(kw, r)] = r
          /\ Place(kw, t) \in 1..Len(kw) /\ kw[Place(kw, t)] = t
      BY <3>1, PlaceOf
    <3>3. Place(kw, r) < Place(kw, t)
      BY <1>2, <2>1, <2>2, <3>2
    <3>4. a[i] = kw[Place(kw, r)] /\ a[j] = kw[Place(kw, t)]
      BY <1>7, <2>3, <3>2 DEF r, t
    <3> HIDE DEF a
    <3> QED
      BY <1>4, <2>3, <3>2, <3>3, <3>4
  <2>4. CASE i \in 1..Len(a) /\ j > Len(a)
    BY <1>4, <1>7, <2>4
  <2>5. CASE i > Len(a)
    <3>1. ~Among(kw, r) /\ r \in T
      BY <1>3, <1>9, <2>5 DEF r
    <3>2. ~Among(kw, t)
      <4>1. Place(kw, r) = Len(kw) + 1
        BY <3>1, PlaceOf
      <4>2. Among(kw, t) => Place(kw, t) \in 1..Len(kw)
        BY PlaceOf
      <4> QED
        BY <1>2, <2>1, <4>1, <4>2
    <3>3. j > Len(a)
      BY <1>3, <1>7, <1>8, <1>4, <3>2 DEF t
    <3>4. t \in T /\ Among(sem, r) /\ Among(sem, t)
      BY <1>3, <1>9, <3>1, <3>3 DEF t
    <3>5. /\ Place(sem, r) \in 1..Len(sem) /\ sem[Place(sem, r)] = r
          /\ Place(sem, t) \in 1..Len(sem) /\ sem[Place(sem, t)] = t
      BY <3>4, PlaceOf
    <3>6. Place(sem, r) < Place(sem, t)
      BY <1>2, <2>1, <2>2, <3>5
    <3>7. /\ i - Len(a) \in 1..Len(b) /\ j - Len(a) \in 1..Len(b)
          /\ b[i - Len(a)] = sem[Place(sem, r)] /\ b[j - Len(a)] = sem[Place(sem, t)]
      BY <1>9, <2>5, <3>3, <3>5 DEF r, t
    <3>8. i - Len(a) < j - Len(a)
      <4>1. \A x, y \in 1..Len(b) : \A p, q \in 1..Len(sem) :
              b[x] = sem[p] /\ b[y] = sem[q] /\ p < q => x < y
        BY <1>5
      <4> QED
        BY <3>5, <3>6, <3>7, <4>1, Zenon
    <3> QED
      BY <1>4, <3>8
  <2> QED
    BY <1>7, <2>3, <2>4, <2>5
<1>14. Ranks(ins, Own, Higher(kw, sem, Own))
  BY <1>10, <1>11, <1>12, <1>13 DEF Ranks, Distinct
<1> QED
  BY <1>14 DEF ins, Own

IsFraction(x) == x.num \in Int /\ x.den \in Nat /\ x.den > 0

\* Fractions are in a total order.
LEMMA ExceedsOrders ==
  ASSUME NEW x, IsFraction(x), NEW y, IsFraction(y), NEW z, IsFraction(z)
  PROVE  /\ ~Exceeds(x, x)
         /\ Exceeds(x, y) => ~Exceeds(y, x)
         /\ ~Exceeds(x, y) /\ ~Exceeds(y, z) => ~Exceeds(x, z)
<1>1. /\ x.num \in Int /\ y.num \in Int /\ z.num \in Int
      /\ x.den \in Nat /\ x.den > 0 /\ y.den \in Nat /\ y.den > 0 /\ z.den \in Nat /\ z.den > 0
  BY DEF IsFraction
<1>2. \A a, b \in {x, y, z} : a.num * b.den \in Int
  BY <1>1
<1>3. ~Exceeds(x, x) /\ (Exceeds(x, y) => ~Exceeds(y, x))
  BY <1>2 DEF Exceeds
<1>4. ASSUME ~Exceeds(x, y), ~Exceeds(y, z)
      PROVE  ~Exceeds(x, z)
  <2>1. x.num * y.den <= y.num * x.den /\ y.num * z.den <= z.num * y.den
    BY <1>2, <1>4 DEF Exceeds
  <2>2. x.num * z.den <= z.num * x.den
    BY <1>1, <2>1, FractionsOrder
  <2> QED
    BY <1>2, <2>2 DEF Exceeds
<1> QED
  BY <1>3, <1>4

\* A place contributes a fraction, the more the higher it is.
LEMMA ContributionFalls ==
  ASSUME NEW X, NEW list \in Seq(X), Distinct(list), NEW weight \in Int, NEW rrfK \in Nat
  PROVE  /\ \A r : IsFraction(Contribution(list, weight, rrfK, r))
         /\ weight >= 0 => \A r, t : Place(list, r) <= Place(list, t) =>
              ~Exceeds(Contribution(list, weight, rrfK, t), Contribution(list, weight, rrfK, r))
<1> DEFINE C(r) == Contribution(list, weight, rrfK, r)
<1>1. \A r : /\ Among(list, r) => /\ Place(list, r) \in 1..Len(list)
                                  /\ C(r).num = weight /\ C(r).den = rrfK + Place(list, r)
             /\ ~Among(list, r) => /\ Place(list, r) = Len(list) + 1
                                   /\ C(r).num = 0 /\ C(r).den = 1
             /\ Len(list) \in Nat
  BY PlaceOf DEF Contribution
<1> HIDE DEF C
<1>2. \A r : IsFraction(C(r))
  BY <1>1 DEF IsFraction
<1>3. ASSUME weight >= 0, NEW r, NEW t, Place(list, r) <= Place(list, t)
      PROVE  ~Exceeds(C(t), C(r))
  <2>1. weight \in Nat
    BY <1>3
  <2>2. CASE Among(list, t)
    <3>1. Among(list, r)
      BY <1>1, <1>3, <2>2
    <3> DEFINE p == rrfK + Place(list, r)
               q == rrfK + Place(list, t)
    <3>2. p \in Int /\ q \in Int /\ p <= q
      BY <1>1, <1>3, <2>2, <3>1
    <3>3. C(r).num = weight /\ C(r).den = p /\ C(t).num = weight /\ C(t).den = q
      BY <1>1, <2>2, <3>1
    <3> HIDE DEF p, q
    <3>4. p * weight <= q * weight
      BY <2>1, <3>2, Monotone
    <3>5. ~(weight * p > weight * q)
      BY <2>1, <3>2, <3>4
    <3> QED
      BY <3>3, <3>5 DEF Exceeds
  <2>3. CASE ~Among(list, t)
    <3>1. C(t).num = 0 /\ C(t).den = 1 /\ C(r).num \in Int /\ C(r).num >= 0 /\ C(r).den \in Int
      BY <1>1, <1>2, <2>1, <2>3 DEF IsFraction
    <3>2. ~(C(t).num * C(r).den > C(r).num * C(t).den)
      BY <3>1
    <3> QED
      BY <3>2 DEF Exceeds
  <2> QED
    BY <2>2, <2>3
<1> QED
  BY <1>2, <1>3 DEF C

\* The options of a fusion.
Weighs(o) == o.keywordWeight \in Int /\ o.semanticWeight \in Int /\ o.rrfK \in Nat

\* A score is a fraction; who is nowhere placed lower scores no less.
LEMMA ScoreFalls ==
  ASSUME NEW X, NEW kw \in Seq(X), NEW sem \in Seq(X), Distinct(kw), Distinct(sem),
         NEW o, Weighs(o)
  PROVE  /\ \A r : IsFraction(Score(kw, sem, o, r))
         /\ o.keywordWeight >= 0 /\ o.semanticWeight >= 0 =>
              \A r, t : Place(kw, r) <= Place(kw, t) /\ Place(sem, r) <= Place(sem, t) =>
                          ~Exceeds(Score(kw, sem, o, t), Score(kw, sem, o, r))
<1> DEFINE A(r) == Contribution(kw, o.keywordWeight, o.rrfK, r)
           B(r) == Contribution(sem, o.semanticWeight, o.rrfK, r)
<1>1. \A r : /\ Score(kw, sem, o, r).num = A(r).num * B(r).den + B(r).num * A(r).den
             /\ Score(kw, sem, o, r).den = A(r).den * B(r).den
  BY DEF Score
<1>2. \A r : IsFraction(A(r)) /\ IsFraction(B(r))
  BY ContributionFalls DEF Weighs
<1> HIDE DEF A, B
<1>3. \A r : /\ A(r).num \in Int /\ A(r).den \in Nat /\ A(r).den > 0
             /\ B(r).num \in Int /\ B(r).den \in Nat /\ B(r).den > 0
  BY <1>2 DEF IsFraction
<1>4. ASSUME NEW r
      PROVE  IsFraction(Score(kw, sem, o, r))
  <2>1. /\ A(r).num * B(r).den \in Int /\ B(r).num * A(r).den \in Int
        /\ A(r).den * B(r).den \in Nat /\ A(r).den * B(r).den > 0
    BY <1>3
  <2> QED
    BY <1>1, <2>1 DEF IsFraction
<1>5. ASSUME o.keywordWeight >= 0, o.semanticWeight >= 0, NEW r, NEW t,
             Place(kw, r) <= Place(kw, t), Place(sem, r) <= Place(sem, t)
      PROVE  ~Exceeds(Score(kw, sem, o, t), Score(kw, sem, o, r))
  <2> DEFINE a == A(t).num  b == A(t).den  c == B(t).num  d == B(t).den
             e == A(r).num  f == A(r).den  g == B(r).num  h == B(r).den
  <2>1. ~(a * f > e * b) /\ ~(c * h > g * d)
    <3>1. ~Exceeds(A(t), A(r)) /\ ~Exceeds(B(t), B(r))
      BY <1>5, ContributionFalls DEF Weighs, A, B
    <3> QED
      BY <3>1 DEF Exceeds
  <2>2. /\ a \in Int /\ b \in Nat /\ c \in Int /\ d \in Nat
        /\ e \in Int /\ f \in Nat /\ g \in Int /\ h \in Nat
    BY <1>3
  <2>3. /\ Score(kw, sem, o, t).num = a * d + c * b /\ Score(kw, sem, o, t).den = b * d
        /\ Score(kw, sem, o, r).num = e * h + g * f /\ Score(kw, sem, o, r).den = f * h
    BY <1>1
  <2> HIDE DEF a, b, c, d, e, f, g, h
  <2>4. a * f <= e * b /\ c * h <= g * d
    BY <2>1, <2>2
  <2>5. (a * d + c * b) * (f * h) <= (e * h + g * f) * (b * d)
    BY <2>2, <2>4, SumsOrder
  <2>6. ~((a * d + c * b) * (f * h) > (e * h + g * f) * (b * d))
    BY <2>2, <2>5
  <2> QED
    BY <2>3, <2>6 DEF Exceeds
<1> QED
  BY <1>4, <1>5

\* With equal weights and short lists a row of both sides scores more than one
\* of a single side.
LEMMA BothScoreMore ==
  ASSUME NEW X, NEW kw \in Seq(X), NEW sem \in Seq(X), Distinct(kw), Distinct(sem),
         NEW o, Weighs(o), o.keywordWeight = o.semanticWeight, o.keywordWeight > 0,
         Len(kw) <= o.rrfK + 1, Len(sem) <= o.rrfK + 1,
         NEW r, Among(kw, r), Among(sem, r),
         NEW t, ~Among(kw, t) \/ ~Among(sem, t), Among(kw, t) \/ Among(sem, t)
  PROVE  Exceeds(Score(kw, sem, o, r), Score(kw, sem, o, t))
<1> DEFINE A(x) == Contribution(kw, o.keywordWeight, o.rrfK, x)
           B(x) == Contribution(sem, o.semanticWeight, o.rrfK, x)
           w == o.keywordWeight
           K == o.rrfK
<1>1. w \in Nat /\ w > 0 /\ K \in Nat
  BY DEF Weighs
<1>2. \A x : /\ Score(kw, sem, o, x).num = A(x).num * B(x).den + B(x).num * A(x).den
             /\ Score(kw, sem, o, x).den = A(x).den * B(x).den
  BY DEF Score
<1>3. \A x : /\ Among(kw, x) => /\ Place(kw, x) \in 1..Len(kw)
                                /\ A(x).num = w /\ A(x).den = K + Place(kw, x)
             /\ ~Among(kw, x) => A(x).num = 0 /\ A(x).den = 1
  BY PlaceOf DEF Contribution
<1>4. \A x : /\ Among(sem, x) => /\ Place(sem, x) \in 1..Len(sem)
                                 /\ B(x).num = w /\ B(x).den = K + Place(sem, x)
             /\ ~Among(sem, x) => B(x).num = 0 /\ B(x).den = 1
  BY PlaceOf DEF Contribution
<1>5. Len(kw) \in Nat /\ Len(sem) \in Nat /\ Len(kw) <= K + 1 /\ Len(sem) <= K + 1
  BY LenProperties
<1> HIDE DEF A, B, w, K
<1> DEFINE P == A(r).den
           Q == B(r).den
<1>6. P \in 1..(2 * K + 1) /\ Q \in 1..(2 * K + 1) /\ A(r).num = w /\ B(r).num = w
  BY <1>1, <1>3, <1>4, <1>5
<1>7. Score(kw, sem, o, r).num = w * Q + w * P /\ Score(kw, sem, o, r).den = P * Q
  BY <1>2, <1>6
<1>8. PICK M \in Nat : M >= K + 1 /\ Score(kw, sem, o, t).num = w /\ Score(kw, sem, o, t).den = M
  <2>1. CASE Among(kw, t)
    <3>1. B(t).num = 0 /\ B(t).den = 1 /\ A(t).num = w /\ A(t).den \in Nat /\ A(t).den >= K + 1
      BY <1>1, <1>3, <1>4, <1>5, <2>1
    <3>2. w * 1 + 0 * A(t).den = w /\ A(t).den * 1 = A(t).den
      BY <1>1, <3>1
    <3> QED
      BY <1>2, <3>1, <3>2
  <2>2. CASE ~Among(kw, t)
    <3>1. A(t).num = 0 /\ A(t).den = 1 /\ B(t).num = w /\ B(t).den \in Nat /\ B(t).den >= K + 1
      BY <1>1, <1>3, <1>4, <1>5, <2>2
    <3>2. 0 * B(t).den + w * 1 = w /\ 1 * B(t).den = B(t).den
      BY <1>1, <3>1
    <3> QED
      BY <1>2, <3>1, <3>2
  <2> QED
    BY <2>1, <2>2
<1> HIDE DEF P, Q
<1>9. (w * Q + w * P) * M > w * (P * Q)
  BY <1>1, <1>6, <1>8, TwoBeatOne
<1> QED
  BY <1>7, <1>8, <1>9 DEF Exceeds

\* The fusion of two sides ranks their rows, for every preference that goes by
\* the score, or by the places where the scores are even.
LEMMA FuseRanks ==
  ASSUME NEW X, NEW kw \in Seq(X), NEW sem \in Seq(X), Distinct(kw), Distinct(sem),
         NEW o, Weighs(o), NEW better,
         \A r, t : <<r, t>> \in better =>
           \/ Exceeds(Score(kw, sem, o, r), Score(kw, sem, o, t))
           \/ /\ ~Exceeds(Score(kw, sem, o, t), Score(kw, sem, o, r))
              /\ <<r, t>> \in Higher(kw, sem, Both(kw, sem, o.tenant))
  PROVE  Ranks(Fuse(kw, sem, o), Both(kw, sem, o.tenant), better)
<1> DEFINE ins == Inserted(kw, sem, o.tenant)
           n   == Len(ins)
           Own == Both(kw, sem, o.tenant)
           score(p) == Score(kw, sem, o, ins[p])
           before == {pq \in (1..n) \X (1..n) :
                        \/ Exceeds(score(pq[1]), score(pq[2]))
                        \/ ~Exceeds(score(pq[2]), score(pq[1])) /\ pq[1] < pq[2]}
           full == Arranged(ins, before)
<1>1. Ranks(ins, Own, Higher(kw, sem, Own))
  BY InsertedRanks
<1>2. ins \in Seq(Own) /\ n \in Nat /\ \A p \in 1..n : ins[p] \in Own
  BY <1>1, LenProperties, ElementOfSeq DEF Ranks
<1>3. Fuse(kw, sem, o) = full
  BY DEF Fuse
<1>4. \A p, q \in 1..n : <<p, q>> \in before <=>
        \/ Exceeds(score(p), score(q))
        \/ ~Exceeds(score(q), score(p)) /\ p < q
  <2> HIDE DEF n, score
  <2> QED
    BY Zenon
<1>5. \A p \in 1..n : IsFraction(score(p))
  BY ScoreFalls
<1> HIDE DEF Own, ins, n, before, score
<1>6. Orders(before, n)
  <2>1. \A p \in 1..n : <<p, p>> \notin before
    <3> TAKE p \in 1..n
    <3>1. ~Exceeds(score(p), score(p)) /\ ~(p < p)
      BY <1>2, <1>5, ExceedsOrders
    <3> QED
      BY <1>4, <3>1
  <2>2. \A p, q \in 1..n : p # q => <<p, q>> \in before \/ <<q, p>> \in before
    <3> TAKE p, q \in 1..n
    <3>1. p # q => p < q \/ q < p
      BY <1>2
    <3> QED
      BY <1>4, <3>1
  <2>3. ASSUME NEW p \in 1..n, NEW q \in 1..n, NEW r \in 1..n, <<p, q>> \in before, <<q, r>> \in before
        PROVE  <<p, r>> \in before
    <3> DEFINE x == score(p)  y == score(q)  z == score(r)
    <3>1. /\ Exceeds(x, y) \/ (~Exceeds(y, x) /\ p < q)
          /\ Exceeds(y, z) \/ (~Exceeds(z, y) /\ q < r)
      BY <1>4, <2>3
    <3>2. IsFraction(x) /\ IsFraction(y) /\ IsFraction(z)
      BY <1>5
    <3> HIDE DEF x, y, z
    <3>3. /\ Exceeds(x, y) => ~Exceeds(y, x)
          /\ Exceeds(y, z) => ~Exceeds(z, y)
      BY <3>2, ExceedsOrders
    <3>4. /\ ~Exceeds(z, y) /\ ~Exceeds(y, x) => ~Exceeds(z, x)
          /\ ~Exceeds(x, z) /\ ~Exceeds(z, y) => ~Exceeds(x, y)
          /\ ~Exceeds(y, x) /\ ~Exceeds(x, z) => ~Exceeds(y, z)
      BY <3>2, ExceedsOrders
    <3>5. Exceeds(x, z) \/ (~Exceeds(z, x) /\ p < r)
      BY <1>2, <3>1, <3>3, <3>4
    <3> QED
      BY <1>4, <3>5 DEF x, z
  <2> QED
    BY <2>1, <2>2, <2>3 DEF Orders
<1>7. /\ full \in Seq(Own) /\ Len(full) = n
      /\ \E place \in Bijection(1..n, 1..n) :
           /\ \A i \in 1..n : full[i] = ins[place[i]]
           /\ \A i, j \in 1..n : i < j <=> <<place[i], place[j]>> \in before
  BY <1>2, <1>6, ArrangedPlaces DEF n
<1> HIDE DEF full
<1>8. PICK place \in Bijection(1..n, 1..n) :
        /\ \A i \in 1..n : full[i] = ins[place[i]]
        /\ \A i, j \in 1..n : i < j <=> <<place[i], place[j]>> \in before
  BY <1>7
<1>9. /\ \A i \in 1..n : place[i] \in 1..n
      /\ \A i, j \in 1..n : place[i] = place[j] => i = j
      /\ \A p \in 1..n : \E i \in 1..n : place[i] = p
  BY DEF Bijection, Injection, Surjection, IsInjective
<1>10. Distinct(full)
  <2>1. \A i, j \in 1..n : ins[i] = ins[j] => i = j
    BY <1>1 DEF Ranks, Distinct, n
  <2>2. ASSUME NEW i \in 1..n, NEW j \in 1..n, full[i] = full[j]
        PROVE  i = j
    <3>1. place[i] \in 1..n /\ place[j] \in 1..n /\ ins[place[i]] = ins[place[j]]
      BY <1>8, <1>9, <2>2
    <3>2. place[i] = place[j]
      BY <2>1, <3>1
    <3> QED
      BY <1>9, <3>2
  <2> QED
    BY <1>7, <2>2 DEF Distinct
<1>11. ASSUME NEW r \in Own
       PROVE  \E i \in 1..Len(full) : full[i] = r
  <2>1. PICK p \in 1..n : ins[p] = r
    BY <1>1 DEF Ranks, n
  <2>2. PICK i \in 1..n : place[i] = p
    BY <1>9
  <2> QED
    BY <1>7, <1>8, <2>1, <2>2
<1>12. ASSUME NEW i \in 1..Len(full), NEW j \in 1..Len(full), <<full[i], full[j]>> \in better
       PROVE  i < j
  <2> DEFINE p == place[i]  q == place[j]
  <2>1. /\ i \in 1..n /\ j \in 1..n /\ p \in 1..n /\ q \in 1..n
        /\ full[i] = ins[p] /\ full[j] = ins[q]
    BY <1>7, <1>8, <1>9
  <2>2. \/ Exceeds(score(p), score(q))
        \/ ~Exceeds(score(q), score(p)) /\ <<ins[p], ins[q]>> \in Higher(kw, sem, Own)
    BY <1>12, <2>1, Zenon DEF score, Own
  <2>3. <<ins[p], ins[q]>> \in Higher(kw, sem, Own) => p < q
    BY <1>1, <2>1 DEF Ranks, n
  <2>4. <<p, q>> \in before
    BY <1>4, <2>1, <2>2, <2>3
  <2> QED
    BY <1>8, <2>1, <2>4
<1>13. Ranks(full, Own, better)
  BY <1>7, <1>10, <1>11, <1>12 DEF Ranks
<1> QED
  BY <1>3, <1>13 DEF Own

\* The rows a retrieval may return, and which of them it prefers to which.
Found(o, given) ==
  {r \in UNION {ToSet(list) : list \in {given[s].value : s \in Asked(o)}} : r.tenant = o.tenant}

Prefers(o, given, r, t) ==
  \/ /\ o.strategy = "hybrid" => o.keywordWeight >= 0 /\ o.semanticWeight >= 0
     /\ \A s \in Asked(o) : Place(given[s].value, r) <= Place(given[s].value, t)
     /\ \E s \in Asked(o) : Place(given[s].value, r) < Place(given[s].value, t)
  \/ /\ o.strategy = "hybrid" /\ o.keywordWeight = o.semanticWeight
     /\ o.keywordWeight > 0
     /\ \A list \in {given[s].value : s \in Asked(o)} : Len(list) <= o.rrfK + 1 /\ Among(list, r)
     /\ \E list \in {given[s].value : s \in Asked(o)} : ~Among(list, t)

Preferred(o, given) == {rt \in Found(o, given) \X Found(o, given) : Prefers(o, given, rt[1], rt[2])}

\* What the providers may have answered, and what may have been asked.
IsList(list) == list \in Seq(ToSet(list)) /\ Distinct(list)
IsOption(o) ==
  /\ o.strategy \in {"hybrid", "keyword", "semantic"} /\ Weighs(o)
  /\ o.k \in Int

\* A single strategy ranks the rows of its side.
LEMMA PreferredByOne ==
  ASSUME NEW o, o.strategy \in {"keyword", "semantic"}, NEW given,
         NEW list, list = given[o.strategy].value, IsList(list)
  PROVE  Ranks(FilterTenant(list, o.tenant), Found(o, given), Preferred(o, given))
<1>1. Asked(o) = {o.strategy}
  BY DEF Asked
<1>2. Found(o, given) = Mine(list, o.tenant)
  BY <1>1 DEF Found, Mine
<1>3. ASSUME NEW p \in 1..Len(list), NEW q \in 1..Len(list), <<list[p], list[q]>> \in Preferred(o, given)
      PROVE  p < q
  <2>1. Place(list, list[p]) < Place(list, list[q])
    BY <1>1, <1>3 DEF Preferred, Prefers
  <2>2. Place(list, list[p]) = p /\ Place(list, list[q]) = q
    BY RankOf DEF Place, IsList
  <2> QED
    BY <2>1, <2>2
<1>4. Ranks(FilterTenant(list, o.tenant), Mine(list, o.tenant), Preferred(o, given))
  BY <1>3, FilterTenantRanks DEF IsList
<1> QED
  BY <1>2, <1>4

\* What preference is for two sides.
LEMMA PreferredByBoth ==
  ASSUME NEW o, o.strategy = "hybrid", NEW given,
         NEW kw, kw = given["keyword"].value, NEW sem, sem = given["semantic"].value
  PROVE  /\ Found(o, given) = Both(kw, sem, o.tenant)
         /\ \A r, t : <<r, t>> \in Preferred(o, given) =>
              /\ r \in Both(kw, sem, o.tenant) /\ t \in Both(kw, sem, o.tenant)
              /\ \/ /\ o.keywordWeight >= 0 /\ o.semanticWeight >= 0
                    /\ <<r, t>> \in Higher(kw, sem, Both(kw, sem, o.tenant))
                 \/ /\ o.keywordWeight = o.semanticWeight /\ o.keywordWeight > 0
                    /\ Len(kw) <= o.rrfK + 1 /\ Len(sem) <= o.rrfK + 1
                    /\ Among(kw, r) /\ Among(sem, r)
                    /\ ~Among(kw, t) \/ ~Among(sem, t)
<1>1. Asked(o) = {"keyword", "semantic"}
  BY DEF Asked, Sides
<1>2. {given[s].value : s \in Asked(o)} = {kw, sem}
  BY <1>1
<1>3. Found(o, given) = Both(kw, sem, o.tenant)
  <2>1. UNION {ToSet(list) : list \in {kw, sem}} = ToSet(kw) \cup ToSet(sem)
    OBVIOUS
  <2> QED
    BY <1>2, <2>1 DEF Found, Both
<1>4. ASSUME NEW r, NEW t, <<r, t>> \in Preferred(o, given)
      PROVE  /\ r \in Both(kw, sem, o.tenant) /\ t \in Both(kw, sem, o.tenant)
             /\ \/ /\ o.keywordWeight >= 0 /\ o.semanticWeight >= 0
                   /\ <<r, t>> \in Higher(kw, sem, Both(kw, sem, o.tenant))
                \/ /\ o.keywordWeight = o.semanticWeight /\ o.keywordWeight > 0
                   /\ Len(kw) <= o.rrfK + 1 /\ Len(sem) <= o.rrfK + 1
                   /\ Among(kw, r) /\ Among(sem, r)
                   /\ ~Among(kw, t) \/ ~Among(sem, t)
  <2>1. r \in Both(kw, sem, o.tenant) /\ t \in Both(kw, sem, o.tenant) /\ Prefers(o, given, r, t)
    BY <1>3, <1>4 DEF Preferred
  <2>2. \/ /\ o.keywordWeight >= 0 /\ o.semanticWeight >= 0
           /\ Place(kw, r) <= Place(kw, t) /\ Place(sem, r) <= Place(sem, t)
           /\ Place(kw, r) < Place(kw, t) \/ Place(sem, r) < Place(sem, t)
        \/ /\ o.keywordWeight = o.semanticWeight /\ o.keywordWeight > 0
           /\ Len(kw) <= o.rrfK + 1 /\ Len(sem) <= o.rrfK + 1
           /\ Among(kw, r) /\ Among(sem, r)
           /\ ~Among(kw, t) \/ ~Among(sem, t)
    BY <1>1, <1>2, <2>1 DEF Prefers
  <2> QED
    BY <2>1, <2>2 DEF Higher
<1> QED
  BY <1>3, <1>4

\* A hybrid retrieval ranks the rows of both sides.
LEMMA RunHybridRanks ==
  ASSUME NEW o, o.strategy = "hybrid", Weighs(o), NEW given,
         NEW kw, kw = given["keyword"].value, NEW sem, sem = given["semantic"].value,
         IsList(kw), IsList(sem)
  PROVE  \E full : /\ Ranks(full, Found(o, given), Preferred(o, given))
                   /\ RunHybrid(kw, sem, o) = TopK(full, Wanted(o))
<1> DEFINE Own    == Found(o, given)
           better == Preferred(o, given)
           X      == ToSet(kw) \cup ToSet(sem)
<1>1. /\ Own = Both(kw, sem, o.tenant)
      /\ \A r, t : <<r, t>> \in better =>
           /\ r \in Own /\ t \in Own
           /\ \/ /\ o.keywordWeight >= 0 /\ o.semanticWeight >= 0
                 /\ <<r, t>> \in Higher(kw, sem, Own)
              \/ /\ o.keywordWeight = o.semanticWeight /\ o.keywordWeight > 0
                 /\ Len(kw) <= o.rrfK + 1 /\ Len(sem) <= o.rrfK + 1
                 /\ Among(kw, r) /\ Among(sem, r)
                 /\ ~Among(kw, t) \/ ~Among(sem, t)
  BY PreferredByBoth
<1>2. /\ Distinct(kw) /\ Distinct(sem) /\ kw \in Seq(X) /\ sem \in Seq(X)
      /\ DOMAIN kw = 1..Len(kw) /\ DOMAIN sem = 1..Len(sem)
      /\ Len(kw) \in Nat /\ Len(sem) \in Nat
  <2>1. kw \in Seq(ToSet(kw)) /\ sem \in Seq(ToSet(sem))
    BY DEF IsList
  <2>2. \A s, S, T : s \in Seq(S) /\ S \subseteq T => s \in Seq(T)
    <3> SUFFICES ASSUME NEW s, NEW S, NEW T, s \in Seq(S), S \subseteq T PROVE s \in Seq(T)
      OBVIOUS
    <3>1. Len(s) \in Nat /\ s = [i \in 1..Len(s) |-> s[i]] /\ \A i \in 1..Len(s) : s[i] \in T
      BY LenProperties, ElementOfSeq
    <3> QED
      BY <3>1, IsASeq
  <2>3. kw \in Seq(X) /\ sem \in Seq(X)
    BY <2>1, <2>2, Zenon
  <2> QED
    BY <2>1, <2>3, LenProperties DEF IsList
<1>3. \A r \in Own : Among(kw, r) \/ Among(sem, r)
  BY <1>1, <1>2 DEF Both, ToSet, Among
<1> HIDE DEF Own, better, X
<1>4. CASE kw = <<>> \/ sem = <<>>
  <2> DEFINE list == IF kw = <<>> THEN sem ELSE kw
             rest == IF kw = <<>> THEN kw ELSE sem
  <2>1. rest = <<>> /\ ToSet(rest) = {} /\ \A r : ~Among(rest, r)
    BY <1>4 DEF ToSet, Among
  <2>2. list \in Seq(X) /\ Distinct(list) /\ Own = Mine(list, o.tenant)
    <3>1. Mine(list, o.tenant) = Both(kw, sem, o.tenant)
      BY <2>1 DEF Mine, Both
    <3> QED
      BY <1>1, <1>2, <3>1
  <2>3. RunHybrid(kw, sem, o) = TopK(FilterTenant(list, o.tenant), Wanted(o))
    BY <1>4 DEF RunHybrid
  <2>4. ASSUME NEW p \in 1..Len(list), NEW q \in 1..Len(list), <<list[p], list[q]>> \in better
        PROVE  p < q
    <3> DEFINE r == list[p]  t == list[q]
    <3>1. Place(list, r) = p /\ Place(list, t) = q
      BY <2>2, RankOf DEF Place
    <3>2. Place(rest, r) = 1 /\ Place(rest, t) = 1
      BY <2>1 DEF Place
    <3>3. <<r, t>> \in Higher(kw, sem, Own)
      <4>1. ~Among(kw, r) \/ ~Among(sem, r)
        BY <2>1
      <4> QED
        BY <1>1, <2>4, <4>1
    <3>4. Place(kw, r) < Place(kw, t) \/ Place(sem, r) < Place(sem, t)
      BY <3>3 DEF Higher
    <3>5. Place(list, r) < Place(list, t) \/ Place(rest, r) < Place(rest, t)
      BY <3>4
    <3> QED
      BY <3>1, <3>2, <3>5
  <2> HIDE DEF list
  <2>5. Ranks(FilterTenant(list, o.tenant), Own, better)
    BY <2>2, <2>4, FilterTenantRanks
  <2> QED
    BY <2>3, <2>5 DEF Own, better
<1>5. CASE kw # <<>> /\ sem # <<>>
  <2>1. RunHybrid(kw, sem, o) = TopK(Fuse(kw, sem, o), Wanted(o))
    BY <1>5 DEF RunHybrid
  <2>2. ASSUME NEW r, NEW t, <<r, t>> \in better
        PROVE  \/ Exceeds(Score(kw, sem, o, r), Score(kw, sem, o, t))
               \/ /\ ~Exceeds(Score(kw, sem, o, t), Score(kw, sem, o, r))
                  /\ <<r, t>> \in Higher(kw, sem, Both(kw, sem, o.tenant))
    <3>1. CASE /\ o.keywordWeight >= 0 /\ o.semanticWeight >= 0
               /\ <<r, t>> \in Higher(kw, sem, Own)
      <4>1. Place(kw, r) <= Place(kw, t) /\ Place(sem, r) <= Place(sem, t)
        BY <3>1 DEF Higher
      <4>2. ~Exceeds(Score(kw, sem, o, t), Score(kw, sem, o, r))
        BY <1>2, <3>1, <4>1, ScoreFalls
      <4> QED
        BY <1>1, <3>1, <4>2
    <3>2. CASE /\ o.keywordWeight = o.semanticWeight /\ o.keywordWeight > 0
               /\ Len(kw) <= o.rrfK + 1 /\ Len(sem) <= o.rrfK + 1
               /\ Among(kw, r) /\ Among(sem, r)
               /\ ~Among(kw, t) \/ ~Among(sem, t)
      <4>1. Among(kw, t) \/ Among(sem, t)
        BY <1>1, <1>3, <2>2
      <4> QED
        BY <1>2, <3>2, <4>1, BothScoreMore
    <3> QED
      BY <1>1, <2>2, <3>1, <3>2
  <2>3. Ranks(Fuse(kw, sem, o), Both(kw, sem, o.tenant), better)
    BY <1>2, <2>2, FuseRanks
  <2> QED
    BY <1>1, <2>1, <2>3 DEF Own, better
<1> QED
  BY <1>4, <1>5

\* What is returned has the answers it is about.
LEMMA SettledCut ==
  ASSUME NEW o, IsOption(o), NEW given,
         \A s \in Sides : given[s].status \in {"pending", "rejected", "resolved"} /\ IsList(given[s].value),
         Settled(o, given).status = "resolved"
  PROVE  /\ \A s \in Asked(o) : given[s].status = "resolved"
         /\ Cut(Settled(o, given).value, Found(o, given), Preferred(o, given), Wanted(o))
<1>1. Asked(o) \subseteq Sides /\ o.strategy \in {"hybrid", "keyword", "semantic"}
  BY DEF Asked, Sides, IsOption
<1>2. /\ \A s \in Asked(o) : given[s].status = "resolved"
      /\ Settled(o, given).value =
           IF o.strategy = "hybrid" THEN RunHybrid(given["keyword"].value, given["semantic"].value, o)
           ELSE RunOne(given[o.strategy].value, o)
  <2>1. Rejected.status # "resolved" /\ Pending.status # "resolved"
    BY DEF Rejected, Pending
  <2>2. /\ ~ \E s \in Asked(o) : given[s].status = "rejected"
        /\ ~ \E s \in Asked(o) : given[s].status = "pending"
    BY <2>1 DEF Settled
  <2>3. \A s \in Asked(o) : given[s].status = "resolved"
    BY <1>1, <2>2
  <2> QED
    BY <2>2, <2>3 DEF Settled, Resolved
<1>3. Wanted(o) \in Nat
  BY DEF Wanted, IsOption
<1>4. CASE o.strategy = "hybrid"
  <2> DEFINE kw == given["keyword"].value  sem == given["semantic"].value
  <2>1. IsList(kw) /\ IsList(sem)
    BY DEF Sides
  <2>2. PICK full : /\ Ranks(full, Found(o, given), Preferred(o, given))
                    /\ RunHybrid(kw, sem, o) = TopK(full, Wanted(o))
    BY <1>4, <2>1, RunHybridRanks DEF IsOption
  <2> QED
    BY <1>2, <1>3, <1>4, <2>2, TopKCut
<1>5. CASE o.strategy \in {"keyword", "semantic"}
  <2> DEFINE list == given[o.strategy].value
  <2>1. IsList(list)
    BY <1>5 DEF Sides
  <2>2. Ranks(FilterTenant(list, o.tenant), Found(o, given), Preferred(o, given))
    BY <1>5, <2>1, PreferredByOne
  <2>3. Settled(o, given).value = TopK(FilterTenant(list, o.tenant), Wanted(o))
    BY <1>2, <1>5 DEF RunOne
  <2> QED
    BY <1>2, <1>3, <2>2, <2>3, TopKCut
<1> QED
  BY <1>1, <1>4, <1>5

\* A retrieval is for one of the options; each side is waited for, or has
\* rejected or answered with a list; and the outcome is what these answers make.
RetrievalInv ==
  call.op = "retrieve" =>
    /\ call.options \in Options
    /\ DOMAIN answers = Sides
    /\ \A s \in Sides : /\ answers[s].status \in {"pending", "rejected", "resolved"}
                        /\ IsList(answers[s].value)
    /\ outcome = IF call.options.tenant = "" \/ call.options.query = "" THEN Rejected
                 ELSE Settled(call.options, answers)

\* The empty list, and every list a provider may answer with.
LEMMA AnswersAreLists ==
  /\ IsList(<<>>)
  /\ \A list \in ResultLists : IsList(list)
<1>1. IsList(<<>>)
  BY DEF IsList, Distinct
<1>2. ASSUME NEW list \in ResultLists PROVE IsList(list)
  <2>1. list \in Seq(ToSet(list)) /\ IsInjective(list)
    BY RetrievalAssumption
  <2>2. DOMAIN list = 1..Len(list)
    BY <2>1, LenProperties
  <2> QED
    BY <2>1, <2>2 DEF IsList, Distinct, IsInjective
<1> QED
  BY <1>1, <1>2

\* Retrieve and ProviderSettles keep it; no other action is about a retrieval.
LEMMA RetrievalInvHolds == Spec => []RetrievalInv
<1>1. Init => RetrievalInv
  <2> SUFFICES ASSUME Init PROVE RetrievalInv
    OBVIOUS
  <2>1. call.op = "none"
    BY DEF Init, NoCall
  <2> QED
    BY <2>1 DEF RetrievalInv
<1>2. RetrievalInv /\ [Next]_vars => RetrievalInv'
  <2> SUFFICES ASSUME RetrievalInv, [Next]_vars PROVE RetrievalInv'
    OBVIOUS
  <2>1. ASSUME NEW doc, NEW config, ChunkDocument(doc, config) PROVE RetrievalInv'
    <3>1. call'.op = "chunk"
      BY <2>1 DEF ChunkDocument
    <3> QED
      BY <3>1 DEF RetrievalInv
  <2>2. ASSUME NEW o \in Options, Retrieve(o) PROVE RetrievalInv'
    <3>1. /\ call'.options = o
          /\ answers' = [s \in Sides |-> CASE s \in o.providers -> Pending
                           [] s \notin o.providers /\ o.strategy = "hybrid" -> Resolved(<<>>)
                           [] OTHER -> Rejected]
          /\ outcome' = IF o.tenant = "" \/ o.query = "" THEN Rejected ELSE Settled(o, answers')
      BY <2>2 DEF Retrieve
    <3>2. \A s \in Sides : answers'[s] \in {Pending, Rejected, Resolved(<<>>)}
      BY <3>1
    <3>3. \A a \in {Pending, Rejected, Resolved(<<>>)} :
            a.status \in {"pending", "rejected", "resolved"} /\ IsList(a.value)
      BY AnswersAreLists DEF Pending, Rejected, Resolved
    <3>4. DOMAIN answers' = Sides
      BY <3>1
    <3> QED
      BY <3>1, <3>2, <3>3, <3>4 DEF RetrievalInv
  <2>3. ASSUME NEW side \in Sides, NEW answer, ProviderSettles(side, answer),
               answer = Rejected \/ \E list \in ResultLists : answer = Resolved(list)
        PROVE  RetrievalInv'
    <3>1. /\ call.op = "retrieve" /\ outcome.status = "pending" /\ call' = call
          /\ answers' = [answers EXCEPT ![side] = answer]
          /\ outcome' = Settled(call.options, answers')
      BY <2>3 DEF ProviderSettles
    <3>2. /\ call.options \in Options /\ DOMAIN answers = Sides
          /\ ~(call.options.tenant = "" \/ call.options.query = "")
      <4>1. outcome # Rejected
        BY <3>1 DEF Rejected
      <4> QED
        BY <3>1, <4>1 DEF RetrievalInv
    <3>3. answer.status \in {"rejected", "resolved"} /\ IsList(answer.value)
      BY <2>3, AnswersAreLists DEF Rejected, Resolved
    <3>4. /\ DOMAIN answers' = Sides
          /\ \A s \in Sides : answers'[s] = IF s = side THEN answer ELSE answers[s]
      BY <3>1, <3>2
    <3>5. \A s \in Sides : /\ answers'[s].status \in {"pending", "rejected", "resolved"}
                           /\ IsList(answers'[s].value)
      BY <3>1, <3>3, <3>4 DEF RetrievalInv
    <3> QED
      BY <3>1, <3>2, <3>4, <3>5 DEF RetrievalInv
  <2>4. ASSUME NEW topK, RerankResults(topK) PROVE RetrievalInv'
    <3>1. call'.op = "rerank"
      BY <2>4 DEF RerankResults
    <3> QED
      BY <3>1 DEF RetrievalInv
  <2>5. ASSUME NEW flag, NEW value, NEW context, ResolveValue(flag, value, context)
        PROVE  RetrievalInv'
    <3>1. call'.op = "resolve"
      BY <2>5 DEF ResolveValue
    <3> QED
      BY <3>1 DEF RetrievalInv
  <2>6. CASE Return
    <3>1. call'.op = "none"
      BY <2>6 DEF Return, NoCall
    <3> QED
      BY <3>1 DEF RetrievalInv
  <2>7. CASE UNCHANGED vars
    BY <2>7 DEF vars, RetrievalInv
  <2> QED
    BY <2>1, <2>2, <2>3, <2>4, <2>5, <2>6, <2>7 DEF Next
<1> QED
  BY <1>1, <1>2, PTL DEF Spec

\* A retrieval that resolves returns the rows of the tenant, each once, the
\* preferred ones first, and leaves out none it has room for (retrieve,
\* runHybrid and accumulate), for all lists, options and fusion weights.
THEOREM RetrievalCorrect == Spec => []RetrievalSound
<1>1. RetrievalInv => RetrievalSound
  <2> SUFFICES ASSUME RetrievalInv, Returned("retrieve")
               PROVE  RetrievalSound
    BY DEF RetrievalSound
  <2> DEFINE o == call.options
  <2>1. /\ o \in Options /\ outcome = Settled(o, answers) /\ outcome.status = "resolved"
        /\ \A s \in Sides : /\ answers[s].status \in {"pending", "rejected", "resolved"}
                            /\ IsList(answers[s].value)
    <3>1. call.op = "retrieve" /\ outcome.status = "resolved"
      BY DEF Returned
    <3>2. outcome # Rejected
      BY <3>1 DEF Rejected
    <3> QED
      BY <3>1, <3>2 DEF RetrievalInv
  <2>2. IsOption(o)
    BY <2>1, RetrievalAssumption DEF IsOption, Weighs
  <2> HIDE DEF o
  <2>3. /\ \A s \in Asked(o) : answers[s].status = "resolved"
        /\ Cut(outcome.value, Found(o, answers), Preferred(o, answers), Wanted(o))
    BY <2>1, <2>2, SettledCut
  <2> DEFINE value == outcome.value
             sides == Asked(o)
             Lists == {answers[s].value : s \in sides}
             Own   == {r \in UNION {ToSet(list) : list \in Lists} : r.tenant = o.tenant}
             At(s, r) == Place(answers[s].value, r)
             Better(r, t) ==
               \/ /\ o.strategy = "hybrid" => o.keywordWeight >= 0 /\ o.semanticWeight >= 0
                  /\ \A s \in sides : At(s, r) <= At(s, t)
                  /\ \E s \in sides : At(s, r) < At(s, t)
               \/ /\ o.strategy = "hybrid" /\ o.keywordWeight = o.semanticWeight
                  /\ o.keywordWeight > 0
                  /\ \A list \in Lists : Len(list) <= o.rrfK + 1 /\ Among(list, r)
                  /\ \E list \in Lists : ~Among(list, t)
  <2>4. Own = Found(o, answers)
    BY DEF Found
  <2>5. \A r, t : Better(r, t) <=> Prefers(o, answers, r, t)
    BY Zenon DEF Prefers
  <2>6. /\ ToSet(value) \subseteq Own
        /\ Cardinality(ToSet(value)) = Len(value)
        /\ Len(value) <= Wanted(o)
        /\ Len(value) < Wanted(o) => ToSet(value) = Own
    BY <2>3, <2>4 DEF Cut
  <2>7. \A r, t \in Own : Better(r, t) /\ Among(value, t) =>
          Among(value, r) /\ RankIn(value, r) < RankIn(value, t)
    <3> HIDE DEF Own, Better, value
    <3> SUFFICES ASSUME NEW r \in Own, NEW t \in Own, Better(r, t), Among(value, t)
                 PROVE  Among(value, r) /\ RankIn(value, r) < RankIn(value, t)
      OBVIOUS
    <3>1. <<r, t>> \in Preferred(o, answers)
      BY <2>4, <2>5 DEF Preferred
    <3> QED
      BY <2>3, <2>4, <3>1 DEF Cut, value
  <2> QED
    BY <2>3, <2>6, <2>7, Zenon DEF RetrievalSound, o
<1> QED
  BY <1>1, RetrievalInvHolds, PTL

----------------------------------------------------------------------------
(* Chunks: the windows of a paragraph.                                     *)

\* The overlap that two windows can have.
Overlap(config) == IF config.overlap < config.chunkSize THEN config.overlap
                   ELSE config.chunkSize - 1

IsConfig(config) ==
  /\ config.chunkSize \in Nat /\ config.chunkSize > 0
  /\ config.overlap \in Nat /\ config.parentSize \in Int

\* The windows w cover a text of len characters.
Cover(w, len, config) ==
  /\ w \in Seq([from : Nat, to : Nat]) /\ Len(w) > 0
  /\ w[1].from = 0 /\ w[Len(w)].to = len
  /\ \A n \in 1..Len(w) : w[n].from < w[n].to /\ w[n].to - w[n].from <= config.chunkSize
  /\ \A n \in 2..Len(w) : w[n - 1].to - w[n].from = Overlap(config) /\ w[n - 1].to < len

\* Factors that grow by one add one step.
LEMMA StepsAdd ==
  ASSUME NEW n \in Int, NEW step \in Nat
  PROVE  (n - 1) * step = (n - 2) * step + step /\ (n - 1) * step \in Int /\ (n > 0 => (n - 1) * step >= 0)
<1>1. (n - 1) * step = (n - 2) * step + step
  OBVIOUS
<1>2. n > 0 => (n - 1) * step >= 0
  <2>1. n > 0 => n - 1 \in Nat
    OBVIOUS
  <2>2. \A m \in Nat : m * step >= 0
    OBVIOUS
  <2> QED
    BY <2>1, <2>2
<1> QED
  BY <1>1, <1>2

LEMMA WindowsCover ==
  ASSUME NEW len \in Nat, len > 0, NEW config, IsConfig(config)
  PROVE  Cover(SplitWithOverlap(len, config.chunkSize, config.overlap), len, config)
<1> DEFINE size == config.chunkSize
           over == config.overlap
           step == IF size - over > 1 THEN size - over ELSE 1
           from(n) == (n - 1) * step
           Reaches(n) == from(n) + size >= len
           last == CHOOSE n \in 1..len : Reaches(n) /\ \A m \in 1..(n - 1) : from(m) + size < len
           to(n) == IF from(n) + size < len THEN from(n) + size ELSE len
           w == SplitWithOverlap(len, size, over)
<1>1. /\ size \in Nat /\ size > 0 /\ over \in Nat
      /\ step \in Nat /\ step > 0 /\ step <= size /\ size - step = Overlap(config)
  BY DEF IsConfig, Overlap
<1>2. w = IF len <= size THEN <<[from |-> 0, to |-> len]>>
          ELSE [n \in 1..last |-> [from |-> from(n), to |-> to(n)]]
  BY DEF SplitWithOverlap
<1> HIDE DEF step, w, size, over
<1>3. \A n \in Int : from(n) = from(n - 1) + step /\ from(n) \in Int /\ (n > 0 => from(n) >= 0)
  BY <1>1, StepsAdd
<1>4. from(1) = 0
  BY <1>1
<1> HIDE DEF from
<1>5. CASE len <= size
  <2>1. w = <<[from |-> 0, to |-> len]>>
    BY <1>2, <1>5
  <2>2. w \in Seq([from : Nat, to : Nat]) /\ Len(w) = 1 /\ w[1] = [from |-> 0, to |-> len]
    BY <2>1
  <2> HIDE DEF w
  <2> QED
    BY <1>1, <1>5, <2>2 DEF Cover, w, size, over
<1>6. CASE len > size
  <2>1. last \in 1..len /\ from(last) + size >= len /\ \A m \in 1..(last - 1) : from(m) + size < len
    <3> DEFINE U == {n \in 1..len : Reaches(n)}
    <3>1. len \in U
      <4>1. (len - 1) * step >= (len - 1) * 1
        BY <1>1
      <4>2. from(len) >= len - 1
        BY <4>1 DEF from
      <4>3. from(len) \in Int
        BY <1>3
      <4> QED
        BY <1>1, <4>2, <4>3
    <3>2. U \subseteq Nat
      OBVIOUS
    <3>3. PICK m \in U : \A k \in U : m <= k
      BY <3>1, <3>2, LeastOf
    <3>4. \A k \in 1..(m - 1) : from(k) + size < len
      <4> TAKE k \in 1..(m - 1)
      <4>1. k \in 1..len /\ k \notin U
        BY <3>3
      <4>2. from(k) \in Int
        BY <1>3
      <4> QED
        BY <1>1, <4>1, <4>2
    <3>5. m \in 1..len /\ Reaches(m)
      BY <3>3
    <3>6. \E n \in 1..len : Reaches(n) /\ \A k \in 1..(n - 1) : from(k) + size < len
      BY <3>4, <3>5
    <3> HIDE DEF Reaches
    <3>7. last \in 1..len /\ Reaches(last) /\ \A k \in 1..(last - 1) : from(k) + size < len
      BY <3>6
    <3> QED
      BY <3>7 DEF Reaches
  <2>2. w = [n \in 1..last |-> [from |-> from(n), to |-> to(n)]]
    BY <1>1, <1>2, <1>6
  <2> HIDE DEF last
  <2>3. last \in Nat /\ last > 0 /\ 1 \in 1..last
    BY <2>1
  <2>4. \A n \in 1..last : from(n) \in Nat /\ to(n) \in Nat
    <3> TAKE n \in 1..last
    <3>1. from(n) \in Int /\ from(n) >= 0
      BY <1>3, <2>3
    <3> QED
      BY <1>1, <3>1
  <2>5. \A n \in 1..last : n < last => to(n) = from(n) + size /\ to(n) < len
    BY <1>1, <2>1, <2>3
  <2>6. \A n \in 2..last : from(n) = from(n - 1) + step /\ from(n) < len
                           /\ to(n - 1) = from(n - 1) + size /\ to(n - 1) < len
    <3> TAKE n \in 2..last
    <3>1. n - 1 \in 1..last /\ n - 1 < last /\ n \in Int
      BY <2>3
    <3>2. from(n) = from(n - 1) + step /\ from(n - 1) \in Int
      BY <1>3, <3>1
    <3>3. to(n - 1) = from(n - 1) + size /\ to(n - 1) < len
      BY <2>5, <3>1
    <3> HIDE DEF to
    <3> QED
      BY <1>1, <3>2, <3>3
  <2>7. \A n \in 1..last : from(n) < len
    <3> TAKE n \in 1..last
    <3>1. CASE n = 1
      BY <1>4, <3>1
    <3>2. CASE n # 1
      BY <2>3, <2>6, <3>2
    <3> QED
      BY <3>1, <3>2
  <2>8. to(last) = len
    <3>1. from(last) \in Int
      BY <1>3, <2>3
    <3> QED
      BY <1>1, <2>1, <3>1
  <2>9. \A n \in 1..last : from(n) < to(n) /\ to(n) - from(n) <= size
    BY <1>1, <2>4, <2>7
  <2>10. w \in Seq([from : Nat, to : Nat]) /\ Len(w) = last
    BY <2>2, <2>3, <2>4
  <2>11. \A n \in 1..last : w[n].from = from(n) /\ w[n].to = to(n)
    BY <2>2
  <2> HIDE DEF to, w
  <2>12. ASSUME NEW n \in 2..last
         PROVE  w[n - 1].to - w[n].from = Overlap(config) /\ w[n - 1].to < len
    <3>1. n \in 1..last /\ n - 1 \in 1..last
      BY <2>3
    <3>2. w[n - 1].to = from(n - 1) + size /\ w[n].from = from(n - 1) + step /\ w[n - 1].to < len
      BY <2>6, <2>11, <3>1
    <3>3. from(n - 1) \in Nat
      BY <2>4, <3>1
    <3> QED
      BY <1>1, <3>2, <3>3
  <2> QED
    BY <1>4, <2>3, <2>8, <2>9, <2>10, <2>11, <2>12 DEF Cover, w, size, over
<1> QED
  BY <1>1, <1>5, <1>6 DEF w, size, over

\* A document: the sequence of its blocks.
IsDoc(doc) ==
  /\ Len(doc) \in Nat /\ DOMAIN doc = 1..Len(doc)
  /\ \A b \in 1..Len(doc) : doc[b].level \in Nat /\ doc[b].size \in Nat /\ doc[b].size > 0

\* w are the windows of a block.
Chops(w, doc, block, config) ==
  /\ w \in Seq([block : 1..Len(doc), from : Nat, to : Nat])
  /\ Len(w) > 0 /\ w[1].from = 0 /\ w[Len(w)].to = doc[block].size
  /\ \A n \in 1..Len(w) : /\ w[n].block = block
                          /\ w[n].from < w[n].to /\ w[n].to - w[n].from <= config.chunkSize
  /\ \A n \in 2..Len(w) : w[n - 1].to - w[n].from = Overlap(config) /\ w[n - 1].to < doc[block].size

LEMMA WindowsChop ==
  ASSUME NEW doc, IsDoc(doc), NEW config, IsConfig(config), NEW block \in 1..Len(doc)
  PROVE  Chops(Windows(doc, block, config), doc, block, config)
<1> DEFINE len == doc[block].size
           v == SplitWithOverlap(len, config.chunkSize, config.overlap)
           w == Windows(doc, block, config)
<1>1. len \in Nat /\ len > 0
  BY DEF IsDoc
<1>2. Cover(v, len, config)
  BY <1>1, WindowsCover
<1>3. w = [n \in DOMAIN v |-> [block |-> block, from |-> v[n].from, to |-> v[n].to]]
  BY DEF Windows
<1> HIDE DEF v, w, len
<1>4. v \in Seq([from : Nat, to : Nat]) /\ Len(v) \in Nat /\ DOMAIN v = 1..Len(v)
      /\ \A n \in 1..Len(v) : v[n].from \in Nat /\ v[n].to \in Nat
  <2>1. v \in Seq([from : Nat, to : Nat])
    BY <1>2 DEF Cover
  <2>2. \A n \in 1..Len(v) : v[n] \in [from : Nat, to : Nat]
    BY <2>1, ElementOfSeq
  <2> QED
    BY <2>1, <2>2, LenProperties
<1>5. w \in Seq([block : 1..Len(doc), from : Nat, to : Nat]) /\ Len(w) = Len(v)
  <2>1. w = [n \in 1..Len(v) |-> [block |-> block, from |-> v[n].from, to |-> v[n].to]]
    BY <1>3, <1>4
  <2>2. \A n \in 1..Len(v) : [block |-> block, from |-> v[n].from, to |-> v[n].to]
                               \in [block : 1..Len(doc), from : Nat, to : Nat]
    BY <1>4
  <2> QED
    BY <1>4, <2>1, <2>2, IsASeq
<1>6. \A n \in 1..Len(v) : w[n].block = block /\ w[n].from = v[n].from /\ w[n].to = v[n].to
  BY <1>3, <1>4
<1>7. /\ Len(v) > 0 /\ v[1].from = 0 /\ v[Len(v)].to = len
      /\ \A n \in 1..Len(v) : v[n].from < v[n].to /\ v[n].to - v[n].from <= config.chunkSize
      /\ \A n \in 2..Len(v) : v[n - 1].to - v[n].from = Overlap(config) /\ v[n - 1].to < len
  BY <1>2 DEF Cover
<1>8. 1 \in 1..Len(v) /\ Len(v) \in 1..Len(v)
  BY <1>4, <1>7
<1>9. Len(w) > 0 /\ w[1].from = 0 /\ w[Len(w)].to = len
  BY <1>5, <1>6, <1>7, <1>8
<1>10. ASSUME NEW n \in 1..Len(w)
       PROVE  w[n].block = block /\ w[n].from < w[n].to /\ w[n].to - w[n].from <= config.chunkSize
  BY <1>5, <1>6, <1>7
<1>11. ASSUME NEW n \in 2..Len(w)
       PROVE  w[n - 1].to - w[n].from = Overlap(config) /\ w[n - 1].to < len
  <2>1. n \in 1..Len(v) /\ n - 1 \in 1..Len(v) /\ n \in 2..Len(v)
    BY <1>4, <1>5
  <2>2. w[n - 1].to = v[n - 1].to /\ w[n].from = v[n].from
    BY <1>6, <2>1
  <2> QED
    BY <1>7, <2>1, <2>2
<1> QED
  BY <1>5, <1>9, <1>10, <1>11 DEF Chops, w, len

\* Paragraphs, by their blocks in the order of the document.
IsGroup(doc, group) == group \in Seq(1..Len(doc)) /\ Increasing(group)

\* Children are the windows of one paragraph after the other.
Windowed(children, doc, config) ==
  LET Same(m, n) == {m, n} \subseteq DOMAIN children /\ children[m].block = children[n].block IN
  \A n \in DOMAIN children :
    LET c == children[n]  len == doc[c.block].size IN
    /\ c.block \in Nat /\ c.from \in Nat /\ c.to \in Nat
    /\ c.from < c.to /\ c.to - c.from <= config.chunkSize
    /\ IF Same(n - 1, n)
       THEN children[n - 1].to - c.from = Overlap(config) /\ children[n - 1].to < len
       ELSE c.from = 0 /\ (n > 1 => children[n - 1].block < c.block)
    /\ ~Same(n, n + 1) => c.to = len

\* Windows cover their paragraphs.
LEMMA WindowedGood ==
  ASSUME NEW doc, IsDoc(doc), NEW config, IsConfig(config), NEW W,
         NEW children \in Seq(W), Windowed(children, doc, config)
  PROVE  GoodWindows(children, doc, config)
<1> DEFINE Same(m, n) == {m, n} \subseteq DOMAIN children /\ children[m].block = children[n].block
<1>1. Len(children) \in Nat /\ DOMAIN children = 1..Len(children)
  BY LenProperties
<1>2. Overlap(config) \in Nat
  BY DEF Overlap, IsConfig
<1>3. \A n \in DOMAIN children :
        LET c == children[n]  len == doc[c.block].size IN
        /\ c.block \in Nat /\ c.from \in Nat /\ c.to \in Nat
        /\ c.from < c.to /\ c.to - c.from <= config.chunkSize
        /\ IF Same(n - 1, n)
           THEN children[n - 1].to - c.from = Overlap(config) /\ children[n - 1].to < len
           ELSE c.from = 0 /\ (n > 1 => children[n - 1].block < c.block)
        /\ ~Same(n, n + 1) => c.to = len
  BY Zenon DEF Windowed
<1>4. ASSUME NEW n \in DOMAIN children
      PROVE  LET c == children[n] IN
             /\ c.from < c.to
             /\ c.from > 0 => Same(n - 1, n) /\ c.from <= children[n - 1].to
             /\ c.to < doc[c.block].size => Same(n, n + 1)
             /\ n > 1 => children[n - 1].block <= c.block
             /\ doc[c.block].kind = "text" =>
                  /\ c.to - c.from <= config.chunkSize
                  /\ Same(n - 1, n) => children[n - 1].to - c.from = Overlap(config)
  <2> DEFINE c == children[n]
             b == children[n - 1]
             len == doc[c.block].size
  <2>1. /\ c.block \in Nat /\ c.from \in Nat /\ c.to \in Nat
        /\ c.from < c.to /\ c.to - c.from <= config.chunkSize
        /\ Same(n - 1, n) => b.to - c.from = Overlap(config) /\ b.block = c.block
        /\ ~Same(n - 1, n) => c.from = 0 /\ (n > 1 => b.block < c.block)
        /\ ~Same(n, n + 1) => c.to = len
    BY <1>3
  <2>2. n \in Nat /\ (n > 1 => n - 1 \in DOMAIN children) /\ (Same(n - 1, n) => n - 1 \in DOMAIN children)
    BY <1>1
  <2>3. n - 1 \in DOMAIN children => b.to \in Nat /\ b.block \in Nat
    BY <1>3
  <2> DEFINE before == Same(n - 1, n)
             behind == Same(n, n + 1)
  <2> HIDE DEF b, c, len, before, behind
  <2>4. c.from > 0 => before /\ c.from <= b.to
    BY <1>2, <2>1, <2>2, <2>3 DEF before
  <2>5. n > 1 => b.block <= c.block
    BY <2>1, <2>2, <2>3 DEF before
  <2>6. c.to < len => behind
    BY <2>1 DEF behind
  <2>7. before => b.to - c.from = Overlap(config)
    BY <2>1 DEF before
  <2> QED
    BY <2>1, <2>4, <2>5, <2>6, <2>7 DEF b, c, len, before, behind
<1> QED
  BY <1>4, Zenon DEF GoodWindows, Overlap

\* The children of a group are the windows of its paragraphs.
LEMMA ChildrenCover ==
  ASSUME NEW doc, IsDoc(doc), NEW config, IsConfig(config), NEW group, IsGroup(doc, group)
  PROVE  /\ ToSet(group) = {c.block : c \in ToSet(Children(doc, group, config))}
         /\ GoodWindows(Children(doc, group, config), doc, config)
<1> DEFINE W == [block : 1..Len(doc), from : Nat, to : Nat]
           ww == [i \in 1..Len(group) |-> Windows(doc, group[i], config)]
           children == Children(doc, group, config)
<1>1. /\ Len(group) \in Nat /\ DOMAIN group = 1..Len(group)
      /\ \A i \in 1..Len(group) : group[i] \in 1..Len(doc)
      /\ \A i, j \in 1..Len(group) : i < j => group[i] < group[j]
  BY LenProperties, ElementOfSeq DEF IsGroup, Increasing
<1>2. \A i \in 1..Len(group) : Chops(ww[i], doc, group[i], config)
  BY <1>1, WindowsChop
<1>3. children = Flat(ww)
  BY <1>1 DEF Children
<1>4. ww \in Seq(Seq(W)) /\ Len(ww) = Len(group)
  <2>1. \A i \in 1..Len(group) : ww[i] \in Seq(W)
    BY <1>2 DEF Chops
  <2> HIDE DEF W
  <2>2. \A i \in 1..Len(group) : Windows(doc, group[i], config) \in Seq(W)
    BY <2>1
  <2> QED
    BY <1>1, <2>2, IsASeq
<1> HIDE DEF ww, children
<1>5. children \in Seq(W) /\ Laid(ww, Len(group), children)
  <2> HIDE DEF W
  <2> QED
    BY <1>3, <1>4, FlatLays
<1>6. PICK row, col : Lays(ww, Len(group), children, row, col)
  BY <1>5 DEF Laid
<1> DEFINE L == Len(children)
<1>7. L \in Nat /\ DOMAIN children = 1..L
  BY <1>5, LenProperties
<1>8. /\ \A k \in 1..L : /\ row[k] \in 1..Len(group) /\ col[k] \in 1..Len(ww[row[k]])
                         /\ children[k] = ww[row[k]][col[k]]
      /\ \A k, l \in 1..L : k < l => row[k] < row[l] \/ (row[k] = row[l] /\ col[k] < col[l])
      /\ \A i \in 1..Len(group) : \A j \in 1..Len(ww[i]) : \E k \in 1..L : row[k] = i /\ col[k] = j
  BY <1>6 DEF Lays
<1> HIDE DEF L
<1>9. \A i \in 1..Len(group) : Len(ww[i]) \in Nat /\ Len(ww[i]) > 0
  BY <1>2, LenProperties DEF Chops
<1>10. \A k \in 1..L : children[k].block = group[row[k]]
  <2> TAKE k \in 1..L
  <2>1. Chops(ww[row[k]], doc, group[row[k]], config)
    BY <1>2, <1>8
  <2>2. \A n \in 1..Len(ww[row[k]]) : ww[row[k]][n].block = group[row[k]]
    BY <2>1 DEF Chops
  <2> QED
    BY <1>8, <2>2
<1>11. ToSet(group) = {c.block : c \in ToSet(children)}
  <2>1. ASSUME NEW b \in ToSet(group) PROVE b \in {c.block : c \in ToSet(children)}
    <3>1. PICK i \in 1..Len(group) : group[i] = b
      BY <1>1 DEF ToSet
    <3>2. 1 \in 1..Len(ww[i])
      BY <1>9
    <3>3. PICK k \in 1..L : row[k] = i
      BY <1>8, <3>2
    <3>4. children[k] \in ToSet(children) /\ children[k].block = b
      BY <1>7, <1>10, <3>1, <3>3 DEF ToSet
    <3> QED
      BY <3>4
  <2>2. ASSUME NEW c \in ToSet(children) PROVE c.block \in ToSet(group)
    <3>1. PICK k \in 1..L : children[k] = c
      BY <1>7 DEF ToSet
    <3> QED
      BY <1>1, <1>8, <1>10, <3>1 DEF ToSet
  <2> QED
    BY <2>1, <2>2
<1>12. Neighbours(ww, children, row, col)
  <2>1. Len(children) \in Nat
    BY <1>7 DEF L
  <2> QED
    BY <1>1, <1>6, <1>9, <2>1, LaysNeighbours
<1>13. /\ \A k \in 1..L : k + 1 \in 1..L =>
            \/ row[k + 1] = row[k] /\ col[k + 1] = col[k] + 1
            \/ row[k] < row[k + 1] /\ col[k] = Len(ww[row[k]]) /\ col[k + 1] = 1
       /\ L > 0 => col[1] = 1 /\ col[L] = Len(ww[row[L]])
  BY <1>12 DEF Neighbours, L
<1> DEFINE Same(m, n) == {m, n} \subseteq DOMAIN children /\ children[m].block = children[n].block
\* What the windows of its paragraph make of a child.
<1>14. \A k \in 1..L :
         LET c == children[k]  len == doc[c.block].size IN
         /\ c.block = group[row[k]] /\ c.from < c.to /\ c.to - c.from <= config.chunkSize
         /\ col[k] = 1 => c.from = 0
         /\ col[k] = Len(ww[row[k]]) => c.to = len
         /\ col[k] \in 2..Len(ww[row[k]]) => /\ ww[row[k]][col[k] - 1].to - c.from = Overlap(config)
                                             /\ ww[row[k]][col[k] - 1].to < len
  <2> TAKE k \in 1..L
  <2>1. Chops(ww[row[k]], doc, group[row[k]], config)
    BY <1>2, <1>8
  <2>2. col[k] \in 1..Len(ww[row[k]]) /\ children[k] = ww[row[k]][col[k]] /\ children[k].block = group[row[k]]
    BY <1>8, <1>10
  <2> QED
    BY <2>1, <2>2 DEF Chops
<1>15. ASSUME NEW n \in 1..L
       PROVE  LET c == children[n]  len == doc[c.block].size IN
              /\ c.from < c.to /\ c.to - c.from <= config.chunkSize
              /\ IF Same(n - 1, n)
                 THEN children[n - 1].to - c.from = Overlap(config) /\ children[n - 1].to < len
                 ELSE c.from = 0 /\ (n > 1 => children[n - 1].block < c.block)
              /\ ~Same(n, n + 1) => c.to = len
  <2> DEFINE c == children[n]  len == doc[c.block].size
  <2>1. c.from < c.to /\ c.to - c.from <= config.chunkSize
    BY <1>14
  <2>2. IF Same(n - 1, n)
        THEN children[n - 1].to - c.from = Overlap(config) /\ children[n - 1].to < len
        ELSE c.from = 0 /\ (n > 1 => children[n - 1].block < c.block)
    <3>1. CASE n = 1
      <4>1. ~Same(n - 1, n)
        BY <1>7, <3>1
      <4>2. c.from = 0
        BY <1>7, <1>13, <1>14, <3>1
      <4> QED
        BY <3>1, <4>1, <4>2
    <3>2. CASE n # 1
      <4> DEFINE m == n - 1
      <4>1. m \in 1..L /\ m + 1 = n /\ {m, n} \subseteq DOMAIN children
        BY <1>7, <3>2
      <4>2. \/ row[n] = row[m] /\ col[n] = col[m] + 1
            \/ row[m] < row[n] /\ col[m] = Len(ww[row[m]]) /\ col[n] = 1
        BY <1>13, <4>1
      <4>3. children[m].block = group[row[m]] /\ c.block = group[row[n]]
        BY <1>14, <4>1
      <4> HIDE DEF m
      <4>4. CASE row[n] = row[m] /\ col[n] = col[m] + 1
        <5>1. col[m] \in 1..Len(ww[row[m]]) /\ col[n] \in 1..Len(ww[row[n]])
          BY <1>8, <4>1
        <5>2. col[n] \in 2..Len(ww[row[n]]) /\ col[n] - 1 = col[m]
          BY <4>4, <5>1
        <5>3. children[m] = ww[row[n]][col[n] - 1]
          BY <1>8, <4>1, <4>4, <5>2
        <5>4. children[m].to - c.from = Overlap(config) /\ children[m].to < len
          BY <1>14, <5>2, <5>3
        <5>5. Same(m, n)
          BY <4>1, <4>3, <4>4
        <5> QED
          BY <5>4, <5>5 DEF m
      <4>5. CASE row[m] < row[n] /\ col[m] = Len(ww[row[m]]) /\ col[n] = 1
        <5>1. row[m] \in 1..Len(group) /\ row[n] \in 1..Len(group)
          BY <1>8, <4>1
        <5>2. children[m].block < c.block /\ children[m].block \in Int /\ c.block \in Int
          BY <1>1, <4>3, <4>5, <5>1
        <5>3. ~Same(m, n)
          BY <5>2
        <5>4. c.from = 0
          BY <1>14, <4>5
        <5> QED
          BY <5>2, <5>3, <5>4 DEF m
      <4> QED
        BY <4>2, <4>4, <4>5
    <3> QED
      BY <3>1, <3>2
  <2>3. ASSUME ~Same(n, n + 1)
        PROVE  c.to = len
    <3>1. CASE n = L
      <4>1. L > 0 /\ col[n] = Len(ww[row[n]])
        BY <1>7, <1>13, <3>1
      <4> QED
        BY <1>14, <4>1
    <3>2. CASE n # L
      <4> DEFINE m == n + 1
      <4>1. m \in 1..L /\ {n, m} \subseteq DOMAIN children
        BY <1>7, <3>2
      <4>2. \/ row[m] = row[n] /\ col[m] = col[n] + 1
            \/ row[n] < row[m] /\ col[n] = Len(ww[row[n]]) /\ col[m] = 1
        BY <1>13, <4>1
      <4>3. children[m].block = group[row[m]] /\ c.block = group[row[n]]
        BY <1>14, <4>1
      <4>4. row[m] # row[n]
        BY <2>3, <4>1, <4>3
      <4>5. col[n] = Len(ww[row[n]])
        BY <4>2, <4>4
      <4> QED
        BY <1>14, <4>5
    <3> QED
      BY <3>1, <3>2
  <2> QED
    BY <2>1, <2>2, <2>3
<1>16. Windowed(children, doc, config)
  <2>1. \A n \in DOMAIN children :
          children[n].block \in Nat /\ children[n].from \in Nat /\ children[n].to \in Nat
    <3>1. \A x \in W : x.block \in Nat /\ x.from \in Nat /\ x.to \in Nat
      BY DEF W
    <3> HIDE DEF W
    <3>2. \A n \in DOMAIN children : children[n] \in W
      BY <1>5, <1>7, ElementOfSeq
    <3> QED
      BY <3>1, <3>2
  <2>2. \A n \in DOMAIN children :
              LET c == children[n]  len == doc[c.block].size IN
              /\ c.block \in Nat /\ c.from \in Nat /\ c.to \in Nat
              /\ c.from < c.to /\ c.to - c.from <= config.chunkSize
              /\ IF Same(n - 1, n)
                 THEN children[n - 1].to - c.from = Overlap(config) /\ children[n - 1].to < len
                 ELSE c.from = 0 /\ (n > 1 => children[n - 1].block < c.block)
              /\ ~Same(n, n + 1) => c.to = len
    BY <1>7, <1>15, <2>1, Zenon
  <2> QED
    BY <2>2, Zenon DEF Windowed
<1>17. GoodWindows(children, doc, config)
  <2> HIDE DEF W
  <2> QED
    BY <1>5, <1>16, WindowedGood
<1> QED
  BY <1>11, <1>17 DEF children

----------------------------------------------------------------------------
(* Chunks: the buckets of a section.                                       *)

\* Append, where lemmas speak of it.
Longer(s, x) == Append(s, x)

LEMMA LongerSeq ==
  ASSUME NEW X, NEW s \in Seq(X), NEW x \in X
  PROVE  /\ Longer(s, x) \in Seq(X) /\ Len(s) \in Nat /\ Len(Longer(s, x)) = Len(s) + 1
         /\ \A i \in 1..Len(s) : Longer(s, x)[i] = s[i]
         /\ Longer(s, x)[Len(s) + 1] = x
         /\ ToSet(Longer(s, x)) = ToSet(s) \cup {x}
<1> DEFINE t == Longer(s, x)
<1>1. /\ t \in Seq(X) /\ Len(s) \in Nat /\ Len(t) = Len(s) + 1
      /\ \A i \in 1..Len(s) : t[i] = s[i]
      /\ t[Len(s) + 1] = x
  BY AppendProperties, LenProperties DEF Longer
<1>2. DOMAIN t = 1..(Len(s) + 1) /\ DOMAIN s = 1..Len(s)
  BY <1>1, LenProperties
<1> HIDE DEF t
<1>3. ToSet(t) = ToSet(s) \cup {x}
  <2>1. ASSUME NEW y \in ToSet(t) PROVE y \in ToSet(s) \cup {x}
    <3>1. PICK i \in 1..(Len(s) + 1) : t[i] = y
      BY <1>2 DEF ToSet
    <3>2. i \in 1..Len(s) \/ i = Len(s) + 1
      BY <1>1
    <3> QED
      BY <1>1, <1>2, <3>1, <3>2 DEF ToSet
  <2>2. ASSUME NEW y \in ToSet(s) PROVE y \in ToSet(t)
    <3>1. PICK i \in 1..Len(s) : s[i] = y
      BY <1>2 DEF ToSet
    <3>2. i \in 1..(Len(s) + 1) /\ t[i] = y
      BY <1>1, <3>1
    <3> QED
      BY <1>2, <3>2 DEF ToSet
  <2>3. x \in ToSet(t)
    <3>1. Len(s) + 1 \in 1..(Len(s) + 1)
      BY <1>1
    <3> QED
      BY <1>1, <1>2, <3>1 DEF ToSet
  <2> QED
    BY <2>1, <2>2, <2>3
<1> QED
  BY <1>1, <1>3 DEF t

\* A bigger number keeps an increasing sequence increasing.
LEMMA LongerIncreasing ==
  ASSUME NEW X, X \subseteq Int, NEW s \in Seq(X), Increasing(s), NEW x \in X, \A y \in ToSet(s) : y < x
  PROVE  Increasing(Longer(s, x))
<1> DEFINE t == Longer(s, x)
<1>1. /\ t \in Seq(X) /\ Len(s) \in Nat /\ Len(t) = Len(s) + 1
      /\ \A i \in 1..Len(s) : t[i] = s[i]
      /\ t[Len(s) + 1] = x
  BY LongerSeq
<1> HIDE DEF t
<1>2. DOMAIN t = 1..(Len(s) + 1) /\ DOMAIN s = 1..Len(s)
  BY <1>1, LenProperties
<1>3. ASSUME NEW i \in DOMAIN t, NEW j \in DOMAIN t, i < j
      PROVE  t[i] < t[j]
  <2>1. i \in 1..Len(s) /\ (j \in 1..Len(s) \/ j = Len(s) + 1)
    BY <1>1, <1>2, <1>3
  <2>2. s[i] \in ToSet(s)
    BY <1>2, <2>1 DEF ToSet
  <2> QED
    BY <1>1, <1>2, <1>3, <2>1, <2>2 DEF Increasing
<1>4. Increasing(t)
  BY <1>3 DEF Increasing
<1> QED
  BY <1>4 DEF t

\* The empty sequence, and the sequence of one.
LEMMA ShortSeqs ==
  ASSUME NEW X
  PROVE  /\ <<>> \in Seq(X) /\ Increasing(<<>>) /\ ToSet(<<>>) = {} /\ Len(<<>>) = 0
         /\ \A x \in X : <<x>> \in Seq(X) /\ Increasing(<<x>>) /\ ToSet(<<x>>) = {x} /\ Len(<<x>>) = 1
<1>1. <<>> \in Seq(X) /\ Increasing(<<>>) /\ ToSet(<<>>) = {} /\ Len(<<>>) = 0
  BY DEF Increasing, ToSet
<1>2. ASSUME NEW x \in X
      PROVE  <<x>> \in Seq(X) /\ Increasing(<<x>>) /\ ToSet(<<x>>) = {x} /\ Len(<<x>>) = 1
  BY DEF Increasing, ToSet
<1> QED
  BY <1>1, <1>2

\* The text of a group, by its running sums.
Sums(doc, group, sum) ==
  /\ sum[0] = 0
  /\ \A n \in 1..Len(group) : sum[n - 1] \in Int /\ sum[n] \in Int /\ sum[n] = sum[n - 1] + doc[group[n]].size
  /\ sum[0] \in Int
  /\ TextLen(doc, group) = sum[Len(group)] + 2 * (Len(group) - 1)

LEMMA TextLenSums ==
  ASSUME NEW doc, IsDoc(doc), NEW group \in Seq(1..Len(doc))
  PROVE  \E sum : Sums(doc, group, sum)
<1> DEFINE N == Len(group)
           Runs0(sum) == sum = [n \in 0..N |-> IF n = 0 THEN 0 ELSE sum[n - 1] + doc[group[n]].size]
           step == [sn \in Int \X (1..N) |-> sn[1] + doc[group[sn[2]]].size]
           chosen == CHOOSE sum : Runs0(sum)
<1>1. N \in Nat /\ \A n \in 1..N : doc[group[n]].size \in Int
  BY LenProperties, ElementOfSeq DEF IsDoc
<1>2. \E sum : Runs0(sum)
  <2>1. step \in [Int \X (1..N) -> Int]
    BY <1>1
  <2>2. \A x \in Int, n \in 1..N : step[<<x, n>>] = x + doc[group[n]].size
    OBVIOUS
  <2>0. 0 \in Int /\ N \in Nat
    BY <1>1
  <2> HIDE DEF step, N
  <2>3. PICK g \in [0..N -> Int] : Runs(g, N, 0, step)
    BY <2>0, <2>1, Recursion
  <2>4. ASSUME NEW n \in 0..N
        PROVE  g[n] = IF n = 0 THEN 0 ELSE g[n - 1] + doc[group[n]].size
    <3>1. CASE n = 0
      BY <2>3, <3>1 DEF Runs
    <3>2. CASE n # 0
      <4>1. n \in 1..N /\ n - 1 \in 0..N /\ g[n - 1] \in Int
        BY <1>1, <3>2
      <4>2. g[n] = step[<<g[n - 1], n>>]
        BY <2>3, <4>1 DEF Runs
      <4> QED
        BY <2>2, <3>2, <4>1, <4>2
    <3> QED
      BY <3>1, <3>2
  <2>5. Runs0(g)
    BY <2>4
  <2> QED
    BY <2>5
<1>3. Runs0(chosen)
  BY <1>2
<1>4. TextLen(doc, group) = chosen[N] + 2 * (N - 1)
  BY DEF TextLen
<1> HIDE DEF chosen, N
<1>5. chosen[0] = 0 /\ \A n \in 1..N : chosen[n] = chosen[n - 1] + doc[group[n]].size
  <2>1. \A n \in 0..N : chosen[n] = IF n = 0 THEN 0 ELSE chosen[n - 1] + doc[group[n]].size
    BY <1>3
  <2>2. 0 \in 0..N /\ \A n \in 1..N : n \in 0..N /\ n # 0
    BY <1>1
  <2> QED
    BY <2>1, <2>2
<1> DEFINE T == {n \in 0..N : chosen[n] \in Int}
<1>10. N \in Nat
  BY <1>1 DEF N
<1>11. 0 \in T
  BY <1>5, <1>10
<1>12. ASSUME NEW n \in 1..N, n - 1 \in T
      PROVE  n \in T
  <2>1. chosen[n - 1] \in Int /\ doc[group[n]].size \in Int /\ chosen[n] = chosen[n - 1] + doc[group[n]].size
    BY <1>1, <1>5, <1>12
  <2>2. chosen[n] \in Int /\ n \in 0..N
    BY <1>10, <2>1
  <2> QED
    BY <2>2
<1>6. 0 \in T /\ \A n \in 1..N : n - 1 \in T => n \in T
  BY <1>11, <1>12
<1> HIDE DEF T
<1>7. \A n \in 0..N : n \in T
  BY <1>6, <1>10, UpTo
<1>8. \A n \in 0..N : chosen[n] \in Int
  BY <1>7 DEF T
<1>9. \A n \in 1..N : chosen[n - 1] \in Int /\ chosen[n] \in Int
  BY <1>1, <1>8
<1> QED
  BY <1>4, <1>5, <1>8, <1>9 DEF Sums, N

\* A paragraph more makes the text longer by it and the two characters.
LEMMA TextLenLonger ==
  ASSUME NEW doc, IsDoc(doc), NEW group \in Seq(1..Len(doc)), NEW p \in 1..Len(doc)
  PROVE  /\ TextLen(doc, group) \in Int
         /\ TextLen(doc, Longer(group, p)) = TextLen(doc, group) + 2 + doc[p].size
         /\ TextLen(doc, <<p>>) = doc[p].size
<1> DEFINE more == Longer(group, p)
           N == Len(group)
<1>1. /\ more \in Seq(1..Len(doc)) /\ N \in Nat /\ Len(more) = N + 1
      /\ \A i \in 1..N : more[i] = group[i]
      /\ more[N + 1] = p
  BY LongerSeq
<1>2. PICK sum : Sums(doc, group, sum)
  BY TextLenSums
<1> HIDE DEF more
<1>3. PICK total : Sums(doc, more, total)
  BY <1>1, TextLenSums
<1>4. doc[p].size \in Int
  BY DEF IsDoc
<1> DEFINE T == {n \in 0..N : total[n] = sum[n] /\ sum[n] \in Int}
<1>5. 0 \in T
  BY <1>1, <1>2, <1>3 DEF Sums
<1>6. ASSUME NEW n \in 1..N, n - 1 \in T
      PROVE  n \in T
  <2>1. n \in 1..Len(more) /\ more[n] = group[n]
    BY <1>1
  <2>2. total[n] = total[n - 1] + doc[group[n]].size
    BY <1>3, <2>1 DEF Sums
  <2>3. sum[n] = sum[n - 1] + doc[group[n]].size /\ sum[n] \in Int
    BY <1>2 DEF Sums
  <2> QED
    BY <1>6, <2>2, <2>3
<1> HIDE DEF T
<1>7. \A n \in 0..N : n \in T
  BY <1>1, <1>5, <1>6, UpTo
<1>8. total[N] = sum[N] /\ sum[N] \in Int
  <2>1. N \in T
    BY <1>1, <1>7
  <2> QED
    BY <2>1 DEF T
<1>9. total[N + 1] = total[N] + doc[p].size
  <2>1. N + 1 \in 1..Len(more) /\ (N + 1) - 1 = N
    BY <1>1
  <2>2. total[N + 1] = total[(N + 1) - 1] + doc[more[N + 1]].size
    BY <1>3, <2>1 DEF Sums
  <2> QED
    BY <1>1, <2>1, <2>2
<1>10. /\ TextLen(doc, group) = sum[N] + 2 * (N - 1)
       /\ TextLen(doc, more) = total[N + 1] + 2 * ((N + 1) - 1)
  BY <1>1, <1>2, <1>3 DEF Sums
<1>11. TextLen(doc, group) \in Int /\ TextLen(doc, more) = TextLen(doc, group) + 2 + doc[p].size
  <2> DEFINE size == doc[p].size  x == sum[N]  y == total[N + 1]
  <2>1. N \in Int /\ size \in Int /\ x \in Int /\ y = x + size
    BY <1>1, <1>4, <1>8, <1>9
  <2>2. TextLen(doc, group) = x + 2 * (N - 1) /\ TextLen(doc, more) = y + 2 * ((N + 1) - 1)
    BY <1>10
  <2> HIDE DEF size, x, y, N
  <2>3. /\ x + 2 * (N - 1) \in Int
        /\ y + 2 * ((N + 1) - 1) = (x + 2 * (N - 1)) + 2 + size
    BY <2>1
  <2>4. TextLen(doc, more) = TextLen(doc, group) + 2 + size
    BY <2>2, <2>3
  <2> QED
    BY <2>2, <2>3, <2>4 DEF size
<1>12. TextLen(doc, <<p>>) = doc[p].size
  <2>1. <<p>> \in Seq(1..Len(doc)) /\ Len(<<p>>) = 1 /\ <<p>>[1] = p
    OBVIOUS
  <2> DEFINE one == <<p>>
  <2> HIDE DEF one
  <2>2. PICK single : Sums(doc, one, single)
    BY <2>1, TextLenSums DEF one
  <2>3. Len(one) = 1 /\ one[1] = p /\ 1 \in 1..Len(one)
    BY <2>1 DEF one
  <2>4. single[0] = 0 /\ single[1] = single[1 - 1] + doc[p].size
    BY <2>2, <2>3 DEF Sums
  <2>5. TextLen(doc, one) = single[1] + 2 * (1 - 1)
    BY <2>2, <2>3 DEF Sums
  <2>6. single[1] = doc[p].size
    BY <1>4, <2>4
  <2> QED
    BY <1>4, <2>5, <2>6 DEF one
<1> QED
  BY <1>11, <1>12 DEF more

\* A later paragraph joins a group.
LEMMA LongerGroup ==
  ASSUME NEW doc, Len(doc) \in Nat, NEW g, IsGroup(doc, g), NEW p \in 1..Len(doc), \A y \in ToSet(g) : y < p
  PROVE  /\ IsGroup(doc, Longer(g, p)) /\ Len(g) \in Nat /\ Len(Longer(g, p)) = Len(g) + 1
         /\ ToSet(Longer(g, p)) = ToSet(g) \cup {p}
<1> DEFINE X == 1..Len(doc)
<1>1. g \in Seq(X) /\ Increasing(g) /\ p \in X /\ X \subseteq Int
  BY DEF IsGroup
<1>2. Increasing(Longer(g, p))
  <2> HIDE DEF X
  <2> QED
    BY <1>1, LongerIncreasing
<1>3. Longer(g, p) \in Seq(X) /\ Len(g) \in Nat /\ Len(Longer(g, p)) = Len(g) + 1
      /\ ToSet(Longer(g, p)) = ToSet(g) \cup {p}
  <2> HIDE DEF X
  <2> QED
    BY <1>1, LongerSeq
<1> QED
  BY <1>2, <1>3 DEF IsGroup

\* A bucket and buckets: whole, in order, and too long only for one paragraph.
Fits(doc, headerLen, parentSize, g) ==
  /\ IsGroup(doc, g)
  /\ Len(g) > 1 => headerLen + TextLen(doc, g) <= parentSize

Held(gs) == UNION {ToSet(gs[i]) : i \in 1..Len(gs)}

Buckets(doc, headerLen, parentSize, gs) ==
  /\ gs \in Seq(Seq(1..Len(doc)))
  /\ \A i \in 1..Len(gs) : Fits(doc, headerLen, parentSize, gs[i])
  /\ \A i, j \in 1..Len(gs) : i < j => \A b \in ToSet(gs[i]), c \in ToSet(gs[j]) : b < c

\* A bucket behind those with smaller paragraphs.
LEMMA BucketsLonger ==
  ASSUME NEW doc, NEW headerLen, NEW parentSize, NEW gs, Buckets(doc, headerLen, parentSize, gs),
         NEW g, Fits(doc, headerLen, parentSize, g), \A b \in Held(gs), c \in ToSet(g) : b < c
  PROVE  /\ Buckets(doc, headerLen, parentSize, Longer(gs, g))
         /\ Held(Longer(gs, g)) = Held(gs) \cup ToSet(g)
<1> DEFINE X == Seq(1..Len(doc))  hs == Longer(gs, g)  n == Len(gs)
<1>1. gs \in Seq(X) /\ g \in X
  BY DEF Buckets, Fits, IsGroup
<1> HIDE DEF X
<1>2. /\ hs \in Seq(X) /\ n \in Nat /\ Len(hs) = n + 1
      /\ \A i \in 1..n : hs[i] = gs[i]
      /\ hs[n + 1] = g
  BY <1>1, LongerSeq
<1>3. \A i \in 1..n : ToSet(gs[i]) \subseteq Held(gs)
  BY DEF Held
<1> HIDE DEF hs
<1>4. \A i \in 1..(n + 1) : i \in 1..n \/ i = n + 1
  BY <1>2
<1>5. /\ \A i \in 1..n : Fits(doc, headerLen, parentSize, gs[i])
      /\ \A i, j \in 1..n : i < j => \A b \in ToSet(gs[i]), c \in ToSet(gs[j]) : b < c
  BY DEF Buckets
<1>6. \A i \in 1..(n + 1) : Fits(doc, headerLen, parentSize, hs[i])
  BY <1>2, <1>4, <1>5
<1>7. ASSUME NEW i \in 1..(n + 1), NEW j \in 1..(n + 1), i < j,
             NEW b \in ToSet(hs[i]), NEW c \in ToSet(hs[j])
      PROVE  b < c
  <2>1. i \in 1..n /\ b \in ToSet(gs[i])
    BY <1>2, <1>4, <1>7
  <2>2. CASE j \in 1..n
    <3>1. c \in ToSet(gs[j])
      BY <1>2, <1>7, <2>2
    <3> QED
      BY <1>5, <1>7, <2>1, <2>2, <3>1
  <2>3. CASE j = n + 1
    <3>1. b \in Held(gs) /\ c \in ToSet(g)
      BY <1>2, <1>3, <1>7, <2>1, <2>3
    <3> QED
      BY <3>1
  <2> QED
    BY <1>4, <2>2, <2>3
<1>8. Buckets(doc, headerLen, parentSize, hs)
  BY <1>2, <1>6, <1>7 DEF Buckets, X
<1>9. Held(hs) = Held(gs) \cup ToSet(g)
  <2>1. \A i \in 1..n : i \in 1..(n + 1)
    BY <1>2
  <2>2. n + 1 \in 1..(n + 1)
    BY <1>2
  <2>3. ASSUME NEW b \in Held(hs) PROVE b \in Held(gs) \cup ToSet(g)
    <3>1. PICK i \in 1..(n + 1) : b \in ToSet(hs[i])
      BY <1>2 DEF Held
    <3> QED
      BY <1>2, <1>3, <1>4, <3>1
  <2>4. ASSUME NEW b \in Held(gs) PROVE b \in Held(hs)
    <3>1. PICK i \in 1..n : b \in ToSet(gs[i])
      BY DEF Held
    <3>2. i \in 1..(n + 1) /\ b \in ToSet(hs[i])
      BY <1>2, <2>1, <3>1
    <3> QED
      BY <1>2, <3>2 DEF Held
  <2>5. ASSUME NEW b \in ToSet(g) PROVE b \in Held(hs)
    BY <1>2, <2>2, <2>5 DEF Held
  <2> QED
    BY <2>3, <2>4, <2>5
<1> QED
  BY <1>8, <1>9 DEF hs

\* What groupParagraphs has at hand after the paragraphs B.
Taken(doc, headerLen, parentSize, acc, B) ==
  /\ acc \in [groups : Seq(Seq(1..Len(doc))), current : Seq(1..Len(doc)), len : Int]
  /\ Buckets(doc, headerLen, parentSize, acc.groups)
  /\ Fits(doc, headerLen, parentSize, acc.current)
  /\ \A b \in Held(acc.groups), c \in ToSet(acc.current) : b < c
  /\ B = Held(acc.groups) \cup ToSet(acc.current)
  /\ IF acc.current = <<>> THEN acc.len = headerLen /\ B = {}
     ELSE acc.len = headerLen + TextLen(doc, acc.current)

LEMMA TakeOne ==
  ASSUME NEW doc, IsDoc(doc), NEW headerLen \in Int, NEW parentSize \in Int,
         NEW acc, NEW B, Taken(doc, headerLen, parentSize, acc, B),
         NEW p \in 1..Len(doc), \A b \in B : b < p
  PROVE  Taken(doc, headerLen, parentSize, Take(doc, headerLen, parentSize, acc, p), B \cup {p})
<1> DEFINE X == 1..Len(doc)
           gs == acc.groups  g == acc.current  len == acc.len  size == doc[p].size
           next == Take(doc, headerLen, parentSize, acc, p)
<1> SUFFICES Taken(doc, headerLen, parentSize, next, B \cup {p})
  OBVIOUS
<1>1. /\ acc = [groups |-> gs, current |-> g, len |-> len]
      /\ gs \in Seq(Seq(X)) /\ g \in Seq(X) /\ len \in Int
      /\ Buckets(doc, headerLen, parentSize, gs) /\ Fits(doc, headerLen, parentSize, g)
      /\ \A b \in Held(gs), c \in ToSet(g) : b < c
      /\ B = Held(gs) \cup ToSet(g)
      /\ IF g = <<>> THEN len = headerLen /\ B = {} ELSE len = headerLen + TextLen(doc, g)
  BY DEF Taken
<1>2. size \in Int /\ X \subseteq Int /\ p \in X
  BY DEF IsDoc
<1>3. TextLen(doc, g) \in Int /\ TextLen(doc, Longer(g, p)) = TextLen(doc, g) + 2 + size
      /\ TextLen(doc, <<p>>) = size
  BY <1>1, TextLenLonger
<1>4. /\ <<p>> \in Seq(X) /\ Increasing(<<p>>) /\ ToSet(<<p>>) = {p} /\ Len(<<p>>) = 1 /\ <<p>> # <<>>
  <2> HIDE DEF X
  <2> QED
    BY <1>2, ShortSeqs
<1>5. next = IF g # <<>> /\ len + (IF g = <<>> THEN 0 ELSE 2) + size > parentSize
             THEN [groups |-> Append(gs, g), current |-> <<p>>, len |-> headerLen + size]
             ELSE [acc EXCEPT !.current = Append(g, p), !.len = len + (IF g = <<>> THEN 0 ELSE 2) + size]
  BY Zenon DEF Take
<1>9. \A c \in Seq(X), l \in Int :
        LET a == [acc EXCEPT !.current = c, !.len = l] IN
        /\ a \in [groups : Seq(Seq(X)), current : Seq(X), len : Int]
        /\ a.groups = gs /\ a.current = c /\ a.len = l
  <2>1. acc \in [groups : Seq(Seq(X)), current : Seq(X), len : Int]
    BY DEF Taken
  <2> DEFINE S == Seq(Seq(X))  T == Seq(X)
  <2>2. acc \in [groups : S, current : T, len : Int]
    BY <2>1
  <2> HIDE DEF S, T
  <2>3. \A c \in T, l \in Int :
        LET a == [acc EXCEPT !.current = c, !.len = l] IN
        /\ a \in [groups : S, current : T, len : Int]
        /\ a.groups = acc.groups /\ a.current = c /\ a.len = l
    BY <2>2
  <2> QED
    BY <2>3, Zenon DEF S, T
<1>6. Increasing(g) /\ Increasing(Longer(g, p)) /\ Longer(g, p) \in Seq(X)
      /\ Len(g) \in Nat /\ Len(Longer(g, p)) = Len(g) + 1 /\ ToSet(Longer(g, p)) = ToSet(g) \cup {p}
  <2>1. IsGroup(doc, g) /\ \A b \in ToSet(g) : b < p
    BY <1>1 DEF Fits
  <2>2. Len(doc) \in Nat
    BY DEF IsDoc
  <2> HIDE DEF g
  <2>3. IsGroup(doc, Longer(g, p)) /\ Len(g) \in Nat /\ Len(Longer(g, p)) = Len(g) + 1
        /\ ToSet(Longer(g, p)) = ToSet(g) \cup {p}
    BY <2>1, <2>2, LongerGroup
  <2> QED
    BY <2>1, <2>3 DEF IsGroup
<1> HIDE DEF gs, g, len, size, next
<1>7. CASE g # <<>> /\ len + 2 + size > parentSize
  <2>1. next = [groups |-> Longer(gs, g), current |-> <<p>>, len |-> headerLen + size]
    BY <1>5, <1>7 DEF Longer
  <2>2. Buckets(doc, headerLen, parentSize, Longer(gs, g)) /\ Held(Longer(gs, g)) = B
    BY <1>1, BucketsLonger
  <2>3. Fits(doc, headerLen, parentSize, <<p>>)
    BY <1>4 DEF Fits, IsGroup, X
  <2>4. Longer(gs, g) \in Seq(Seq(X))
    BY <2>2 DEF Buckets, X
  <2> DEFINE one == <<p>>  more == Longer(gs, g)
  <2>5. one \in Seq(X) /\ ToSet(one) = {p} /\ one # <<>> /\ TextLen(doc, one) = size
    BY <1>3, <1>4
  <2>6. next.groups = more /\ next.current = one /\ next.len = headerLen + size
    BY <2>1
  <2> HIDE DEF one
  <2>7. next \in [groups : Seq(Seq(X)), current : Seq(X), len : Int]
    <3> HIDE DEF X
    <3> QED
      BY <1>2, <2>1, <2>4, <2>5 DEF one
  <2>8. Held(more) = B
    BY <2>2
  <2>9. Buckets(doc, headerLen, parentSize, more) /\ Fits(doc, headerLen, parentSize, one)
    BY <2>2, <2>3 DEF one
  <2> HIDE DEF more
  <2> QED
    BY <2>5, <2>6, <2>7, <2>8, <2>9 DEF Taken, X
<1>8. CASE ~(g # <<>> /\ len + 2 + size > parentSize)
  <2> DEFINE more == Longer(g, p)
             total == len + (IF g = <<>> THEN 0 ELSE 2) + size
  <2>1. next = [acc EXCEPT !.current = more, !.len = total]
    <3>1. ~(g # <<>> /\ total > parentSize)
      BY <1>8
    <3> QED
      BY <1>5, <3>1 DEF Longer
  <2>2. more # <<>> /\ more \in Seq(X) /\ ToSet(more) = ToSet(g) \cup {p} /\ Increasing(more)
        /\ Len(more) = Len(g) + 1 /\ Len(g) \in Nat
    BY <1>6, ShortSeqs
  <2>3. total \in Int /\ total = headerLen + TextLen(doc, more)
    <3>1. CASE g = <<>>
      <4>1. more = <<p>>
        BY <3>1 DEF Longer
      <4> QED
        BY <1>1, <1>2, <1>3, <3>1, <4>1
    <3>2. CASE g # <<>>
      BY <1>1, <1>2, <1>3, <3>2
    <3> QED
      BY <3>1, <3>2
  <2>4. Len(more) > 1 => total <= parentSize
    <3>1. g = <<>> => Len(more) = 1
      BY <2>2, ShortSeqs
    <3>2. g # <<>> => total = len + 2 + size
      OBVIOUS
    <3>3. total \in Int
      BY <2>3
    <3>4. len \in Int /\ size \in Int
      BY <1>1, <1>2
    <3> HIDE DEF total, more
    <3>5. CASE g = <<>>
      <4>1. Len(more) = 1
        BY <3>1, <3>5, Zenon
      <4>2. ~(1 > 1)
        OBVIOUS
      <4> QED
        BY <4>1, <4>2, Zenon
    <3>6. CASE g # <<>>
      <4>1. ~(len + 2 + size > parentSize) /\ total = len + 2 + size
        BY <1>8, <3>2, <3>6
      <4> QED
        BY <3>3, <3>4, <4>1
    <3> QED
      BY <3>5, <3>6
  <2>5. /\ next.groups = gs /\ next.current = more /\ next.len = total
        /\ next \in [groups : Seq(Seq(X)), current : Seq(X), len : Int]
    BY <1>9, <2>1, <2>2, <2>3, Zenon
  <2> HIDE DEF more, total
  <2>6. Fits(doc, headerLen, parentSize, more)
    BY <2>2, <2>3, <2>4 DEF Fits, IsGroup, X
  <2>8. \A b \in Held(gs), c \in ToSet(more) : b < c
    BY <1>1, <2>2
  <2>9. B \cup {p} = Held(gs) \cup ToSet(more)
    BY <1>1, <2>2
  <2> QED
    BY <1>1, <2>2, <2>3, <2>5, <2>6, <2>8, <2>9 DEF Taken, X
<1> QED
  BY <1>7, <1>8

\* What groupParagraphs goes through.
Accumulators(doc) == [groups : Seq(Seq(1..Len(doc))), current : Seq(1..Len(doc)), len : Int]

LEMMA TakeType ==
  ASSUME NEW doc, IsDoc(doc), NEW headerLen \in Int, NEW parentSize \in Int,
         NEW acc \in Accumulators(doc), NEW p \in 1..Len(doc)
  PROVE  Take(doc, headerLen, parentSize, acc, p) \in Accumulators(doc)
<1> DEFINE X == 1..Len(doc)  T == Seq(X)  S == Seq(T)  A == [groups : S, current : T, len : Int]
           sep == IF acc.current = <<>> THEN 0 ELSE 2
           size == doc[p].size
<1>1. acc \in A /\ acc.groups \in S /\ acc.current \in T /\ acc.len \in Int /\ sep \in Int /\ size \in Int
  BY DEF Accumulators, IsDoc
<1>2. Append(acc.groups, acc.current) \in S /\ Append(acc.current, p) \in T /\ <<p>> \in T
  <2>1. p \in X
    OBVIOUS
  <2> HIDE DEF X
  <2>2. Append(acc.current, p) \in T /\ <<p>> \in T
    BY <1>1, <2>1, AppendProperties
  <2> HIDE DEF T
  <2>3. Append(acc.groups, acc.current) \in S
    BY <1>1, AppendProperties
  <2> QED
    BY <2>2, <2>3
<1> HIDE DEF S, T, sep, size
<1>3. \A c \in T, l \in Int : [acc EXCEPT !.current = c, !.len = l] \in A
  BY <1>1
<1>4. \A b \in S, c \in T, l \in Int : [groups |-> b, current |-> c, len |-> l] \in A
  OBVIOUS
<1>5. headerLen + size \in Int /\ acc.len + sep + size \in Int
  BY <1>1
<1>6. Take(doc, headerLen, parentSize, acc, p)
        = IF acc.current # <<>> /\ acc.len + sep + size > parentSize
          THEN [groups |-> Append(acc.groups, acc.current), current |-> <<p>>, len |-> headerLen + size]
          ELSE [acc EXCEPT !.current = Append(acc.current, p), !.len = acc.len + sep + size]
  BY Zenon DEF Take, sep, size
<1> HIDE DEF A
<1>7. Take(doc, headerLen, parentSize, acc, p) \in A
  BY <1>2, <1>3, <1>4, <1>5, <1>6, Zenon
<1> QED
  BY <1>7 DEF A, S, T, Accumulators

\* The groups of a section hold its paragraphs.
LEMMA GroupsHold ==
  ASSUME NEW doc, IsDoc(doc), NEW section, section.header \in 0..Len(doc), IsGroup(doc, section.body),
         NEW parentSize \in Int
  PROVE  /\ Buckets(doc, HeaderLen(doc, section.header), parentSize, GroupParagraphs(doc, section, parentSize))
         /\ Held(GroupParagraphs(doc, section, parentSize)) = ToSet(section.body)
         /\ Len(GroupParagraphs(doc, section, parentSize)) > 0
<1> DEFINE X == 1..Len(doc)
           body == section.body
           N == Len(body)
           headerLen == HeaderLen(doc, section.header)
           base == [groups |-> <<>>, current |-> <<>>, len |-> headerLen]
           Reads(acc) == acc = [n \in 0..N |-> IF n = 0 THEN base
                                               ELSE Take(doc, headerLen, parentSize, acc[n - 1], body[n])]
           step == [sn \in Accumulators(doc) \X (1..N) |-> Take(doc, headerLen, parentSize, sn[1], body[sn[2]])]
           chosen == CHOOSE acc : Reads(acc)
<1>1. /\ N \in Nat /\ \A n \in 1..N : body[n] \in X
      /\ \A m, n \in 1..N : m < n => body[m] < body[n]
      /\ ToSet(body) = {body[n] : n \in 1..N}
  BY LenProperties, ElementOfSeq DEF IsGroup, Increasing, ToSet
<1>2. headerLen \in Int
  BY DEF HeaderLen, IsDoc
<1>3. base \in Accumulators(doc)
  BY <1>2 DEF Accumulators
<1>4. \A a \in Accumulators(doc), n \in 1..N : Take(doc, headerLen, parentSize, a, body[n]) \in Accumulators(doc)
  <2> HIDE DEF headerLen
  <2> QED
    BY <1>1, <1>2, TakeType
<1>5. \E acc : Reads(acc)
  <2>1. step \in [Accumulators(doc) \X (1..N) -> Accumulators(doc)]
    BY <1>4
  <2>2. \A a \in Accumulators(doc), n \in 1..N : step[<<a, n>>] = Take(doc, headerLen, parentSize, a, body[n])
    OBVIOUS
  <2>3. N \in Nat
    BY <1>1
  <2> HIDE DEF step, N, base, headerLen
  <2>4. PICK g \in [0..N -> Accumulators(doc)] : Runs(g, N, base, step)
    BY <1>3, <2>1, <2>3, Recursion
  <2>5. ASSUME NEW n \in 0..N
        PROVE  g[n] = IF n = 0 THEN base ELSE Take(doc, headerLen, parentSize, g[n - 1], body[n])
    <3>1. CASE n = 0
      BY <2>4, <3>1 DEF Runs
    <3>2. CASE n # 0
      <4>1. n \in 1..N /\ n - 1 \in 0..N /\ g[n - 1] \in Accumulators(doc)
        BY <2>3, <3>2
      <4>2. g[n] = step[<<g[n - 1], n>>]
        BY <2>4, <4>1 DEF Runs
      <4> QED
        BY <2>2, <3>2, <4>1, <4>2
    <3> QED
      BY <3>1, <3>2
  <2>6. Reads(g)
    BY <2>5
  <2> QED
    BY <2>6
<1>6. Reads(chosen)
  BY <1>5
<1>7. GroupParagraphs(doc, section, parentSize) = Longer(chosen[N].groups, chosen[N].current)
  BY DEF GroupParagraphs, Longer
<1> HIDE DEF chosen
<1>8. /\ chosen[0] = base
      /\ \A n \in 1..N : chosen[n] = Take(doc, headerLen, parentSize, chosen[n - 1], body[n])
  <2>1. \A n \in 0..N : chosen[n] = IF n = 0 THEN base
                                    ELSE Take(doc, headerLen, parentSize, chosen[n - 1], body[n])
    BY <1>6
  <2>2. 0 \in 0..N /\ \A n \in 1..N : n \in 0..N /\ n # 0
    BY <1>1
  <2> QED
    BY <2>1, <2>2
<1> DEFINE Before(n) == {body[m] : m \in 1..n}
           T == {n \in 0..N : Taken(doc, headerLen, parentSize, chosen[n], Before(n))}
<1>9. 0 \in T
  <2>1. Before(0) = {}
    OBVIOUS
  <2>2. <<>> \in Seq(Seq(X)) /\ <<>> \in Seq(X) /\ Len(<<>>) = 0 /\ Increasing(<<>>) /\ ToSet(<<>>) = {}
    <3> HIDE DEF X
    <3> QED
      BY ShortSeqs
  <2>3. Held(<<>>) = {}
    BY <2>2 DEF Held
  <2>4. Buckets(doc, headerLen, parentSize, <<>>) /\ Fits(doc, headerLen, parentSize, <<>>)
    BY <2>2 DEF Buckets, Fits, IsGroup
  <2>5. base.groups = <<>> /\ base.current = <<>> /\ base.len = headerLen
    OBVIOUS
  <2> HIDE DEF base, headerLen
  <2>6. Taken(doc, headerLen, parentSize, base, {})
    BY <1>3, <2>2, <2>3, <2>4, <2>5 DEF Taken, Accumulators
  <2>7. Taken(doc, headerLen, parentSize, chosen[0], Before(0))
    BY <1>8, <2>1, <2>6, Zenon
  <2>8. 0 \in 0..N
    BY <1>1
  <2> QED
    BY <2>7, <2>8, Zenon
<1>10. ASSUME NEW n \in 1..N, n - 1 \in T
       PROVE  n \in T
  <2>1. Taken(doc, headerLen, parentSize, chosen[n - 1], Before(n - 1)) /\ body[n] \in X
    BY <1>1, <1>10
  <2>2. \A b \in Before(n - 1) : b < body[n]
    BY <1>1
  <2>3. Before(n) = Before(n - 1) \cup {body[n]}
    <3>1. 1..n = 1..(n - 1) \cup {n}
      BY <1>1
    <3> QED
      BY <3>1
  <2> HIDE DEF headerLen
  <2> DEFINE B == Before(n - 1)  a == chosen[n - 1]  p == body[n]
  <2>4. Taken(doc, headerLen, parentSize, a, B) /\ p \in 1..Len(doc) /\ \A b \in B : b < p
    BY <2>1, <2>2
  <2>5. chosen[n] = Take(doc, headerLen, parentSize, a, p) /\ Before(n) = B \cup {p}
    BY <1>8, <2>3
  <2> HIDE DEF B, a, p
  <2>6. Taken(doc, headerLen, parentSize, Take(doc, headerLen, parentSize, a, p), B \cup {p})
    BY <1>2, <2>4, TakeOne
  <2>7. Taken(doc, headerLen, parentSize, chosen[n], Before(n))
    BY <2>5, <2>6, Zenon
  <2> QED
    BY <1>1, <2>7
<1>11. Taken(doc, headerLen, parentSize, chosen[N], ToSet(body))
  <2>1. N \in Nat /\ Before(N) = ToSet(body)
    BY <1>1
  <2> HIDE DEF T, N
  <2>2. \A n \in 0..N : n \in T
    BY <1>9, <1>10, <2>1, UpTo
  <2>3. N \in T
    BY <2>1, <2>2
  <2> QED
    BY <2>1, <2>3 DEF T
<1> DEFINE gs == chosen[N].groups  g == chosen[N].current
<1>12. /\ Buckets(doc, headerLen, parentSize, gs) /\ Fits(doc, headerLen, parentSize, g)
       /\ \A b \in Held(gs), c \in ToSet(g) : b < c
       /\ ToSet(body) = Held(gs) \cup ToSet(g)
  BY <1>11 DEF Taken
<1>13. GroupParagraphs(doc, section, parentSize) = Longer(gs, g)
  BY <1>7
<1> HIDE DEF gs, g, headerLen
<1>14. Buckets(doc, headerLen, parentSize, Longer(gs, g)) /\ Held(Longer(gs, g)) = Held(gs) \cup ToSet(g)
  BY <1>12, BucketsLonger
<1>15. Len(Longer(gs, g)) > 0
  <2>1. gs \in Seq(Seq(X)) /\ g \in Seq(X)
    BY <1>12 DEF Buckets, Fits, IsGroup
  <2> DEFINE Y == Seq(X)
  <2>2. gs \in Seq(Y) /\ g \in Y
    BY <2>1
  <2> HIDE DEF Y
  <2>3. Len(gs) \in Nat /\ Len(Longer(gs, g)) = Len(gs) + 1
    BY <2>2, LongerSeq
  <2> QED
    BY <2>3
<1> QED
  BY <1>12, <1>13, <1>14, <1>15 DEF headerLen

----------------------------------------------------------------------------
(* Chunks: the sections of a document.                                     *)

\* A filter keeps a group a group.
LEMMA OnlyGroup ==
  ASSUME NEW doc, IsDoc(doc), NEW g, IsGroup(doc, g), NEW S
  PROVE  IsGroup(doc, Only(g, S)) /\ ToSet(Only(g, S)) = ToSet(g) \cap S
<1> DEFINE X == 1..Len(doc)  only == Only(g, S)
<1>1. /\ g \in Seq(X) /\ Len(g) \in Nat /\ DOMAIN g = 1..Len(g)
      /\ \A p \in 1..Len(g) : g[p] \in Int
      /\ \A p, q \in 1..Len(g) : p < q => g[p] < g[q]
  <2>1. g \in Seq(X)
    BY DEF IsGroup
  <2>2. Len(g) \in Nat /\ DOMAIN g = 1..Len(g)
    BY <2>1, LenProperties
  <2>3. \A p \in 1..Len(g) : g[p] \in X
    BY <2>1, ElementOfSeq
  <2>4. \A p, q \in 1..Len(g) : p < q => g[p] < g[q]
    BY <2>2 DEF IsGroup, Increasing
  <2>5. \A p \in 1..Len(g) : g[p] \in Int
    BY <2>3
  <2> QED
    BY <2>1, <2>2, <2>4, <2>5, Zenon
<1>2. \A p, q \in 1..Len(g) : g[p] = g[q] => p = q
  <2> SUFFICES ASSUME NEW p \in 1..Len(g), NEW q \in 1..Len(g), g[p] = g[q] PROVE p = q
    OBVIOUS
  <2>1. ~(p < q) /\ ~(q < p)
    BY <1>1
  <2> QED
    BY <1>1, <2>1
<1> HIDE DEF X
<1>3. /\ only \in Seq(X) /\ Len(only) \in Nat
      /\ \A i \in 1..Len(only) : \E p \in 1..Len(g) : g[p] \in S /\ only[i] = g[p]
      /\ \A p \in 1..Len(g) : g[p] \in S => \E i \in 1..Len(only) : only[i] = g[p]
      /\ \A i, j \in 1..Len(only) : only[i] = only[j] => i = j
      /\ \A i, j \in 1..Len(only) : \A p, q \in 1..Len(g) :
           only[i] = g[p] /\ only[j] = g[q] /\ p < q => i < j
  BY <1>1, <1>2, OnlyOrder
<1>4. DOMAIN only = 1..Len(only)
  BY <1>3, LenProperties
<1> HIDE DEF only
<1>5. ASSUME NEW i \in DOMAIN only, NEW j \in DOMAIN only, i < j
      PROVE  only[i] < only[j]
  <2>1. PICK p \in 1..Len(g) : only[i] = g[p]
    BY <1>3, <1>4
  <2>2. PICK q \in 1..Len(g) : only[j] = g[q]
    BY <1>3, <1>4
  <2>3. i \in 1..Len(only) /\ j \in 1..Len(only) /\ ~(j < i)
    BY <1>3, <1>4, <1>5
  <2>4. p # q
    BY <1>3, <1>5, <2>1, <2>2, <2>3
  <2>5. ~(q < p)
    BY <1>3, <2>1, <2>2, <2>3
  <2>6. p < q
    BY <1>1, <2>4, <2>5
  <2> QED
    BY <1>1, <2>1, <2>2, <2>6
<1>6. Increasing(only)
  BY <1>5 DEF Increasing
<1>7. ToSet(only) = ToSet(g) \cap S
  <2>1. ASSUME NEW y \in ToSet(only) PROVE y \in ToSet(g) \cap S
    <3>1. PICK i \in 1..Len(only) : only[i] = y
      BY <1>4 DEF ToSet
    <3>2. PICK p \in 1..Len(g) : g[p] \in S /\ only[i] = g[p]
      BY <1>3
    <3> QED
      BY <1>1, <3>1, <3>2 DEF ToSet
  <2>2. ASSUME NEW y \in ToSet(g) \cap S PROVE y \in ToSet(only)
    <3>1. PICK p \in 1..Len(g) : g[p] = y
      BY <1>1 DEF ToSet
    <3>2. PICK i \in 1..Len(only) : only[i] = g[p]
      BY <1>3, <3>1
    <3> QED
      BY <1>4, <3>1, <3>2 DEF ToSet
  <2> QED
    BY <2>1, <2>2
<1> QED
  BY <1>3, <1>6, <1>7 DEF IsGroup, X, only

LEMMA EmptyGroup ==
  ASSUME NEW doc
  PROVE  IsGroup(doc, <<>>) /\ ToSet(<<>>) = {}
<1> DEFINE X == 1..Len(doc)
<1> HIDE DEF X
<1>1. <<>> \in Seq(X) /\ Increasing(<<>>) /\ ToSet(<<>>) = {}
  BY ShortSeqs
<1> QED
  BY <1>1 DEF IsGroup, X

\* A header closes those of its level and below.
LEMMA PushOpens ==
  ASSUME NEW doc, IsDoc(doc), NEW stack, IsGroup(doc, stack), NEW i \in 1..Len(doc),
         ToSet(stack) = Enclosing(doc, i - 1), doc[i].level > 0
  PROVE  IsGroup(doc, Push(doc, stack, i)) /\ ToSet(Push(doc, stack, i)) = Enclosing(doc, i)
<1> DEFINE S == {h \in ToSet(stack) : doc[h].level < doc[i].level}
           only == Only(stack, S)
<1>1. IsGroup(doc, only) /\ ToSet(only) = S
  BY OnlyGroup
<1>2. /\ Len(doc) \in Nat /\ \A b \in 1..Len(doc) : doc[b].level \in Nat
      /\ \A h \in ToSet(stack) : h \in 1..(i - 1)
  BY DEF Enclosing, IsDoc
<1>3. \A y \in ToSet(only) : y < i
  BY <1>1, <1>2
<1>4. Push(doc, stack, i) = Longer(only, i)
  BY Zenon DEF Push, Longer
<1> HIDE DEF only
<1>5. IsGroup(doc, Longer(only, i)) /\ ToSet(Longer(only, i)) = ToSet(only) \cup {i}
  BY <1>1, <1>2, <1>3, LongerGroup
<1>6. S \cup {i} = Enclosing(doc, i)
  <2>1. ASSUME NEW h \in S PROVE h \in Enclosing(doc, i)
    <3>1. h \in Enclosing(doc, i - 1) /\ doc[h].level < doc[i].level
      OBVIOUS
    <3>2. h \in 1..(i - 1) /\ doc[h].level > 0
          /\ \A j \in (h + 1)..(i - 1) : doc[j].level = 0 \/ doc[j].level > doc[h].level
      BY <3>1 DEF Enclosing
    <3>3. \A j \in (h + 1)..i : j \in (h + 1)..(i - 1) \/ j = i
      OBVIOUS
    <3>4. \A j \in (h + 1)..i : doc[j].level = 0 \/ doc[j].level > doc[h].level
      <4> TAKE j \in (h + 1)..i
      <4>1. doc[h].level \in Nat /\ doc[i].level \in Nat
        BY <1>2, <3>2
      <4>2. CASE j = i
        BY <3>1, <4>1, <4>2
      <4> QED
        BY <3>2, <3>3, <4>2
    <3> QED
      BY <3>2, <3>4 DEF Enclosing
  <2>2. i \in Enclosing(doc, i)
    BY DEF Enclosing
  <2>3. ASSUME NEW h \in Enclosing(doc, i), h # i PROVE h \in S
    <3>1. h \in 1..(i - 1) /\ doc[h].level > 0
          /\ \A j \in (h + 1)..i : doc[j].level = 0 \/ doc[j].level > doc[h].level
      BY <2>3 DEF Enclosing
    <3>2. h \in Enclosing(doc, i - 1)
      BY <3>1 DEF Enclosing
    <3>3. doc[i].level > doc[h].level /\ doc[h].level \in Nat /\ doc[i].level \in Nat
      BY <1>2, <3>1
    <3> QED
      BY <3>2, <3>3
  <2> HIDE DEF S
  <2> QED
    BY <2>1, <2>2, <2>3
<1> QED
  BY <1>1, <1>4, <1>5, <1>6

\* A paragraph is enclosed by what the block before it is.
LEMMA ParagraphEnclosed ==
  ASSUME NEW doc, IsDoc(doc), NEW i \in 1..Len(doc), doc[i].level = 0
  PROVE  Enclosing(doc, i) = Enclosing(doc, i - 1)
<1>1. ASSUME NEW h \in Enclosing(doc, i) PROVE h \in Enclosing(doc, i - 1)
  BY <1>1 DEF Enclosing
<1>2. ASSUME NEW h \in Enclosing(doc, i - 1) PROVE h \in Enclosing(doc, i)
  <2>1. h \in 1..(i - 1) /\ doc[h].level > 0
        /\ \A j \in (h + 1)..(i - 1) : doc[j].level = 0 \/ doc[j].level > doc[h].level
    BY <1>2 DEF Enclosing
  <2>2. \A j \in (h + 1)..i : j \in (h + 1)..(i - 1) \/ j = i
    OBVIOUS
  <2>3. h \in 1..i
    BY <2>1
  <2> QED
    BY <2>1, <2>2, <2>3 DEF Enclosing
<1> QED
  BY <1>1, <1>2

SectionType(doc) == [path : Seq(1..Len(doc)), header : 0..Len(doc), body : Seq(1..Len(doc))]

\* A section under the headers that enclose it, and sections in order.
SectionOk(doc, s) ==
  /\ IsGroup(doc, s.path) /\ IsGroup(doc, s.body) /\ s.header \in 0..Len(doc)
  /\ \A b \in ToSet(s.body) \cup ({s.header} \ {0}) : ToSet(s.path) = Enclosing(doc, b)

SectionsOk(doc, ss) ==
  /\ ss \in Seq(SectionType(doc))
  /\ \A i \in 1..Len(ss) : SectionOk(doc, ss[i])
  /\ \A i, j \in 1..Len(ss) : i < j => \A b \in ToSet(ss[i].body), c \in ToSet(ss[j].body) : b < c

Bodies(ss) == UNION {ToSet(ss[i].body) : i \in 1..Len(ss)}
Heads(ss)  == {ss[i].header : i \in 1..Len(ss)}

Paragraphs(doc, n) == {b \in 1..n : doc[b].level = 0}
Headers(doc, n)    == {b \in 1..n : doc[b].level > 0}

\* A section behind those with smaller paragraphs.
LEMMA SectionsLonger ==
  ASSUME NEW doc, NEW ss, SectionsOk(doc, ss), NEW s \in SectionType(doc), SectionOk(doc, s),
         \A b \in Bodies(ss), c \in ToSet(s.body) : b < c
  PROVE  /\ SectionsOk(doc, Longer(ss, s))
         /\ Bodies(Longer(ss, s)) = Bodies(ss) \cup ToSet(s.body)
         /\ Heads(Longer(ss, s)) = Heads(ss) \cup {s.header}
<1> DEFINE ts == Longer(ss, s)  n == Len(ss)
<1>1. ss \in Seq(SectionType(doc))
  BY DEF SectionsOk
<1>2. /\ ts \in Seq(SectionType(doc)) /\ n \in Nat /\ Len(ts) = n + 1
      /\ \A i \in 1..n : ts[i] = ss[i]
      /\ ts[n + 1] = s
  BY <1>1, LongerSeq
<1>3. \A i \in 1..n : ToSet(ss[i].body) \subseteq Bodies(ss)
  BY DEF Bodies
<1> HIDE DEF ts
<1>4. /\ \A i \in 1..(n + 1) : i \in 1..n \/ i = n + 1
      /\ \A i \in 1..n : i \in 1..(n + 1)
      /\ n + 1 \in 1..(n + 1)
  BY <1>2
<1>5. /\ \A i \in 1..n : SectionOk(doc, ss[i])
      /\ \A i, j \in 1..n : i < j => \A b \in ToSet(ss[i].body), c \in ToSet(ss[j].body) : b < c
  BY DEF SectionsOk
<1>6. \A i \in 1..(n + 1) : SectionOk(doc, ts[i])
  BY <1>2, <1>4, <1>5
<1>7. ASSUME NEW i \in 1..(n + 1), NEW j \in 1..(n + 1), i < j,
             NEW b \in ToSet(ts[i].body), NEW c \in ToSet(ts[j].body)
      PROVE  b < c
  <2>1. i \in 1..n /\ b \in ToSet(ss[i].body)
    BY <1>2, <1>4, <1>7
  <2>2. CASE j \in 1..n
    <3>1. c \in ToSet(ss[j].body)
      BY <1>2, <1>7, <2>2
    <3> QED
      BY <1>5, <1>7, <2>1, <2>2, <3>1
  <2>3. CASE j = n + 1
    <3>1. b \in Bodies(ss) /\ c \in ToSet(s.body)
      BY <1>2, <1>3, <1>7, <2>1, <2>3
    <3> QED
      BY <3>1
  <2> QED
    BY <1>4, <2>2, <2>3
<1>8. SectionsOk(doc, ts)
  BY <1>2, <1>6, <1>7 DEF SectionsOk
<1>9. Bodies(ts) = Bodies(ss) \cup ToSet(s.body)
  <2>1. ASSUME NEW b \in Bodies(ts) PROVE b \in Bodies(ss) \cup ToSet(s.body)
    <3>1. PICK i \in 1..(n + 1) : b \in ToSet(ts[i].body)
      BY <1>2 DEF Bodies
    <3> QED
      BY <1>2, <1>3, <1>4, <3>1
  <2>2. ASSUME NEW b \in Bodies(ss) PROVE b \in Bodies(ts)
    <3>1. PICK i \in 1..n : b \in ToSet(ss[i].body)
      BY DEF Bodies
    <3>2. i \in 1..(n + 1) /\ b \in ToSet(ts[i].body)
      BY <1>2, <1>4, <3>1
    <3> QED
      BY <1>2, <3>2 DEF Bodies
  <2>3. ASSUME NEW b \in ToSet(s.body) PROVE b \in Bodies(ts)
    BY <1>2, <1>4, <2>3 DEF Bodies
  <2> QED
    BY <2>1, <2>2, <2>3
<1>10. Heads(ts) = Heads(ss) \cup {s.header}
  BY <1>2, <1>4 DEF Heads
<1> QED
  BY <1>8, <1>9, <1>10 DEF ts

\* What splitMarkdownSections has at hand, and what it is after n blocks.
Readings(doc) == [stack : Seq(1..Len(doc)), header : 0..Len(doc), body : Seq(1..Len(doc)),
                  sections : Seq(SectionType(doc))]

Open(acc) == [path |-> acc.stack, header |-> acc.header, body |-> acc.body]

ReadUpTo(doc, n, acc) ==
  /\ acc \in Readings(doc)
  /\ SectionsOk(doc, acc.sections) /\ SectionOk(doc, Open(acc))
  /\ ToSet(acc.stack) = Enclosing(doc, n)
  /\ \A b \in Bodies(acc.sections), c \in ToSet(acc.body) : b < c
  /\ Bodies(acc.sections) \cup ToSet(acc.body) = Paragraphs(doc, n)
  /\ (Heads(acc.sections) \cup {acc.header}) \ {0} = Headers(doc, n)

\* Flush leaves nothing out.
LEMMA FlushKeeps ==
  ASSUME NEW doc, NEW n, NEW acc, ReadUpTo(doc, n, acc)
  PROVE  /\ SectionsOk(doc, Flush(acc))
         /\ Bodies(Flush(acc)) = Paragraphs(doc, n)
         /\ Heads(Flush(acc)) \ {0} = Headers(doc, n)
<1>1. /\ Open(acc) \in SectionType(doc) /\ SectionOk(doc, Open(acc)) /\ SectionsOk(doc, acc.sections)
      /\ Open(acc).body = acc.body /\ Open(acc).header = acc.header
  BY DEF ReadUpTo, Readings, Open, SectionType
<1>2. /\ \A b \in Bodies(acc.sections), c \in ToSet(acc.body) : b < c
      /\ Bodies(acc.sections) \cup ToSet(acc.body) = Paragraphs(doc, n)
      /\ (Heads(acc.sections) \cup {acc.header}) \ {0} = Headers(doc, n)
  BY DEF ReadUpTo
<1>3. CASE acc.header = 0 /\ acc.body = <<>>
  <2>1. Flush(acc) = acc.sections /\ ToSet(acc.body) = {}
    BY <1>3, EmptyGroup DEF Flush
  <2> QED
    BY <1>1, <1>2, <1>3, <2>1
<1>4. CASE ~(acc.header = 0 /\ acc.body = <<>>)
  <2>1. Flush(acc) = Longer(acc.sections, Open(acc))
    BY <1>4, Zenon DEF Flush, Longer, Open
  <2> DEFINE ss == acc.sections  s == Open(acc)
  <2>2. s \in SectionType(doc) /\ SectionOk(doc, s) /\ SectionsOk(doc, ss)
        /\ \A b \in Bodies(ss), c \in ToSet(s.body) : b < c
    BY <1>1, <1>2
  <2> HIDE DEF ss, s
  <2>3. /\ SectionsOk(doc, Longer(ss, s))
        /\ Bodies(Longer(ss, s)) = Bodies(ss) \cup ToSet(s.body)
        /\ Heads(Longer(ss, s)) = Heads(ss) \cup {s.header}
    BY <2>2, SectionsLonger
  <2> QED
    BY <1>1, <1>2, <2>1, <2>3, Zenon DEF ss, s
<1> QED
  BY <1>3, <1>4

LEMMA ReadType ==
  ASSUME NEW doc, IsDoc(doc), NEW acc \in Readings(doc), NEW i \in 1..Len(doc)
  PROVE  Read(doc, acc, i) \in Readings(doc)
<1> DEFINE X == 1..Len(doc)  T == Seq(X)  H == 0..Len(doc)  S == Seq(SectionType(doc))
           R == [stack : T, header : H, body : T, sections : S]
<1>1. acc \in R
  BY DEF Readings
<1>2. acc.stack \in T /\ acc.header \in H /\ acc.body \in T /\ acc.sections \in S
  <2> HIDE DEF T, H, S
  <2> QED
    BY <1>1
<1>3. Open(acc) \in SectionType(doc) /\ i \in H
  BY <1>2 DEF Open, SectionType, IsDoc
<1>4. Flush(acc) \in S
  <2>1. Append(acc.sections, Open(acc)) \in S
    BY <1>2, <1>3, AppendProperties
  <2> QED
    BY <1>2, <2>1, Zenon DEF Flush, Open
<1>5. Push(doc, acc.stack, i) \in T /\ Append(acc.body, i) \in T /\ <<>> \in T
  <2>1. i \in X
    OBVIOUS
  <2> HIDE DEF X
  <2>2. \A Y : Only(acc.stack, Y) \in T
    BY <1>2, OnlyFilters
  <2>3. \A t \in T : Append(t, i) \in T
    BY <2>1, AppendProperties
  <2>4. Push(doc, acc.stack, i) \in T
    BY <2>2, <2>3, Zenon DEF Push
  <2> QED
    BY <1>2, <2>3, <2>4, ShortSeqs
<1> HIDE DEF T, H, S
<1>6. \A t \in T : [acc EXCEPT !.body = t] \in R
  BY <1>1
<1>7. \A s \in T, t \in T, h \in H, ss \in S : [stack |-> s, header |-> h, body |-> t, sections |-> ss] \in R
  OBVIOUS
<1>8. Read(doc, acc, i) = IF doc[i].level = 0 THEN [acc EXCEPT !.body = Append(acc.body, i)]
                          ELSE [stack |-> Push(doc, acc.stack, i), header |-> i, body |-> <<>>,
                                sections |-> Flush(acc)]
  BY Zenon DEF Read
<1> HIDE DEF R
<1>9. Read(doc, acc, i) \in R
  <2>1. [acc EXCEPT !.body = Append(acc.body, i)] \in R
    BY <1>5, <1>6
  <2>2. [stack |-> Push(doc, acc.stack, i), header |-> i, body |-> <<>>, sections |-> Flush(acc)] \in R
    BY <1>3, <1>4, <1>5, <1>7
  <2> QED
    BY <1>8, <2>1, <2>2, Zenon
<1> QED
  BY <1>9 DEF R, T, H, S, Readings

\* One block more.
LEMMA ReadOne ==
  ASSUME NEW doc, IsDoc(doc), NEW i \in 1..Len(doc), NEW acc, ReadUpTo(doc, i - 1, acc)
  PROVE  ReadUpTo(doc, i, Read(doc, acc, i))
<1> DEFINE next == Read(doc, acc, i)
<1> SUFFICES ReadUpTo(doc, i, next)
  OBVIOUS
<1>1. /\ acc \in Readings(doc)
      /\ SectionsOk(doc, acc.sections) /\ SectionOk(doc, Open(acc))
      /\ ToSet(acc.stack) = Enclosing(doc, i - 1)
      /\ \A b \in Bodies(acc.sections), c \in ToSet(acc.body) : b < c
      /\ Bodies(acc.sections) \cup ToSet(acc.body) = Paragraphs(doc, i - 1)
      /\ (Heads(acc.sections) \cup {acc.header}) \ {0} = Headers(doc, i - 1)
  BY DEF ReadUpTo
<1>2. next \in Readings(doc)
  BY <1>1, ReadType
<1>3. /\ IsGroup(doc, acc.stack) /\ IsGroup(doc, acc.body) /\ acc.header \in 0..Len(doc)
      /\ \A b \in ToSet(acc.body) \cup ({acc.header} \ {0}) : ToSet(acc.stack) = Enclosing(doc, b)
  BY <1>1 DEF SectionOk, Open
<1>4. Len(doc) \in Nat /\ \A b \in 1..Len(doc) : doc[b].level \in Nat
  BY DEF IsDoc
<1>5. \A b \in Paragraphs(doc, i - 1) : b < i
  BY DEF Paragraphs
<1>6. CASE doc[i].level = 0
  <2>1. next = [acc EXCEPT !.body = Append(acc.body, i)]
    BY <1>6, Zenon DEF Read
  <2>2. /\ next.stack = acc.stack /\ next.header = acc.header /\ next.sections = acc.sections
        /\ next.body = Longer(acc.body, i)
    BY <1>1, <2>1 DEF Readings, Longer
  <2> DEFINE body == acc.body  more == Longer(acc.body, i)
  <2>3. IsGroup(doc, body) /\ \A y \in ToSet(body) : y < i
    BY <1>1, <1>3, <1>5
  <2> HIDE DEF body
  <2>4. IsGroup(doc, Longer(body, i)) /\ ToSet(Longer(body, i)) = ToSet(body) \cup {i}
    BY <1>4, <2>3, LongerGroup
  <2>5. IsGroup(doc, more) /\ ToSet(more) = ToSet(acc.body) \cup {i}
    BY <2>4, Zenon DEF body
  <2> HIDE DEF more, next
  <2>6. ToSet(next.stack) = Enclosing(doc, i)
    BY <1>1, <1>6, <2>2, ParagraphEnclosed
  <2>7. SectionOk(doc, Open(next))
    <3>1. Open(next).path = acc.stack /\ Open(next).header = acc.header /\ Open(next).body = more
      BY <2>2 DEF Open, more
    <3>2. \A b \in ToSet(more) \cup ({acc.header} \ {0}) : ToSet(acc.stack) = Enclosing(doc, b)
      BY <1>3, <2>2, <2>5, <2>6
    <3> QED
      BY <1>3, <2>5, <3>1, <3>2 DEF SectionOk
  <2>8. Paragraphs(doc, i) = Paragraphs(doc, i - 1) \cup {i} /\ Headers(doc, i) = Headers(doc, i - 1)
    BY <1>6 DEF Paragraphs, Headers
  <2>9. \A b \in Bodies(acc.sections), c \in ToSet(more) : b < c
    BY <1>1, <1>5, <2>5
  <2>10. next.body = more
    BY <2>2 DEF more
  <2>11. Bodies(next.sections) \cup ToSet(next.body) = Paragraphs(doc, i)
    BY <1>1, <2>2, <2>5, <2>8, <2>10
  <2>12. (Heads(next.sections) \cup {next.header}) \ {0} = Headers(doc, i)
    BY <1>1, <2>2, <2>8
  <2> QED
    BY <1>1, <1>2, <2>2, <2>6, <2>7, <2>9, <2>10, <2>11, <2>12 DEF ReadUpTo
<1>7. CASE doc[i].level > 0
  <2>1. next = [stack |-> Push(doc, acc.stack, i), header |-> i, body |-> <<>>, sections |-> Flush(acc)]
    <3>1. doc[i].level # 0
      BY <1>7
    <3> QED
      BY <3>1, Zenon DEF Read
  <2>2. /\ next.stack = Push(doc, acc.stack, i) /\ next.header = i /\ next.body = <<>>
        /\ next.sections = Flush(acc)
    BY <2>1
  <2>3. IsGroup(doc, next.stack) /\ ToSet(next.stack) = Enclosing(doc, i)
    BY <1>1, <1>3, <1>7, <2>2, PushOpens
  <2>4. IsGroup(doc, next.body) /\ ToSet(next.body) = {}
    BY <2>2, EmptyGroup
  <2>5. /\ SectionsOk(doc, next.sections)
        /\ Bodies(next.sections) = Paragraphs(doc, i - 1)
        /\ Heads(next.sections) \ {0} = Headers(doc, i - 1)
    BY <2>2, FlushKeeps
  <2> HIDE DEF next
  <2>6. SectionOk(doc, Open(next))
    <3>1. Open(next).path = next.stack /\ Open(next).header = i /\ Open(next).body = next.body
      BY <2>2 DEF Open
    <3>2. i \in 0..Len(doc)
      BY <1>4
    <3> QED
      BY <2>3, <2>4, <3>1, <3>2 DEF SectionOk
  <2>7. Paragraphs(doc, i) = Paragraphs(doc, i - 1) /\ Headers(doc, i) = Headers(doc, i - 1) \cup {i}
    BY <1>7 DEF Paragraphs, Headers
  <2>8. Bodies(next.sections) \cup ToSet(next.body) = Paragraphs(doc, i)
    BY <2>4, <2>5, <2>7
  <2>9. (Heads(next.sections) \cup {next.header}) \ {0} = Headers(doc, i)
    BY <2>2, <2>5, <2>7
  <2> QED
    BY <1>2, <2>3, <2>4, <2>5, <2>6, <2>8, <2>9 DEF ReadUpTo
<1> QED
  BY <1>4, <1>6, <1>7

\* The sections of a document hold its headers and paragraphs.
LEMMA SectionsHold ==
  ASSUME NEW doc, IsDoc(doc)
  PROVE  /\ SectionsOk(doc, SplitMarkdownSections(doc))
         /\ Bodies(SplitMarkdownSections(doc)) = Paragraphs(doc, Len(doc))
         /\ Heads(SplitMarkdownSections(doc)) \ {0} = Headers(doc, Len(doc))
<1> DEFINE N == Len(doc)
           base == [stack |-> <<>>, header |-> 0, body |-> <<>>, sections |-> <<>>]
           Reads(acc) == acc = [n \in 0..N |-> IF n = 0 THEN base ELSE Read(doc, acc[n - 1], n)]
           step == [sn \in Readings(doc) \X (1..N) |-> Read(doc, sn[1], sn[2])]
           chosen == CHOOSE acc : Reads(acc)
<1>1. N \in Nat
  BY DEF IsDoc
<1>2. base \in Readings(doc)
  BY <1>1 DEF Readings
<1>3. \A a \in Readings(doc), n \in 1..N : Read(doc, a, n) \in Readings(doc)
  BY ReadType
<1>4. \E acc : Reads(acc)
  <2>1. step \in [Readings(doc) \X (1..N) -> Readings(doc)]
    BY <1>3
  <2>2. \A a \in Readings(doc), n \in 1..N : step[<<a, n>>] = Read(doc, a, n)
    OBVIOUS
  <2> HIDE DEF step, N, base
  <2>3. PICK g \in [0..N -> Readings(doc)] : Runs(g, N, base, step)
    BY <1>1, <1>2, <2>1, Recursion
  <2>4. ASSUME NEW n \in 0..N
        PROVE  g[n] = IF n = 0 THEN base ELSE Read(doc, g[n - 1], n)
    <3>1. CASE n = 0
      BY <2>3, <3>1 DEF Runs
    <3>2. CASE n # 0
      <4>1. n \in 1..N /\ n - 1 \in 0..N /\ g[n - 1] \in Readings(doc)
        BY <1>1, <3>2
      <4>2. g[n] = step[<<g[n - 1], n>>]
        BY <2>3, <4>1 DEF Runs
      <4> QED
        BY <2>2, <3>2, <4>1, <4>2
    <3> QED
      BY <3>1, <3>2
  <2>5. Reads(g)
    BY <2>4
  <2> QED
    BY <2>5
<1>5. Reads(chosen)
  BY <1>4
<1>6. SplitMarkdownSections(doc) = Flush(chosen[N])
  BY DEF SplitMarkdownSections
<1> HIDE DEF chosen
<1>7. /\ chosen[0] = base
      /\ \A n \in 1..N : chosen[n] = Read(doc, chosen[n - 1], n)
  <2>1. \A n \in 0..N : chosen[n] = IF n = 0 THEN base ELSE Read(doc, chosen[n - 1], n)
    BY <1>5
  <2>2. 0 \in 0..N /\ \A n \in 1..N : n \in 0..N /\ n # 0
    BY <1>1
  <2> QED
    BY <2>1, <2>2
<1> DEFINE T == {n \in 0..N : ReadUpTo(doc, n, chosen[n])}
<1>8. 0 \in T
  <2>1. base.stack = <<>> /\ base.header = 0 /\ base.body = <<>> /\ base.sections = <<>>
    OBVIOUS
  <2>2. IsGroup(doc, <<>>) /\ ToSet(<<>>) = {}
    BY EmptyGroup
  <2> HIDE DEF base
  <2>3. SectionOk(doc, Open(base)) /\ SectionsOk(doc, base.sections)
    BY <1>1, <2>1, <2>2 DEF SectionOk, SectionsOk, Open
  <2>4. Bodies(base.sections) = {} /\ Heads(base.sections) = {}
    BY <2>1 DEF Bodies, Heads
  <2>5. Enclosing(doc, 0) = {} /\ Paragraphs(doc, 0) = {} /\ Headers(doc, 0) = {}
    BY DEF Enclosing, Paragraphs, Headers
  <2>6. ToSet(base.stack) = {} /\ ToSet(base.body) = {}
    BY <2>1, <2>2
  <2>7. (Heads(base.sections) \cup {base.header}) \ {0} = {}
    BY <2>1, <2>4
  <2>8. ReadUpTo(doc, 0, base)
    BY <1>2, <2>3, <2>4, <2>5, <2>6, <2>7 DEF ReadUpTo
  <2>9. ReadUpTo(doc, 0, chosen[0])
    BY <1>7, <2>8, Zenon
  <2>10. 0 \in 0..N
    BY <1>1
  <2> QED
    BY <2>9, <2>10, Zenon
<1>9. ASSUME NEW n \in 1..N, n - 1 \in T
      PROVE  n \in T
  <2>1. ReadUpTo(doc, n - 1, chosen[n - 1])
    BY <1>9
  <2>2. ReadUpTo(doc, n, Read(doc, chosen[n - 1], n))
    BY <2>1, ReadOne
  <2>3. ReadUpTo(doc, n, chosen[n])
    BY <1>7, <2>2, Zenon
  <2> QED
    BY <1>1, <2>3
<1>10. ReadUpTo(doc, N, chosen[N])
  <2> HIDE DEF T, N
  <2>1. \A n \in 0..N : n \in T
    BY <1>1, <1>8, <1>9, UpTo
  <2>2. N \in T
    BY <1>1, <2>1
  <2> QED
    BY <2>2 DEF T
<1> QED
  BY <1>6, <1>10, FlushKeeps

----------------------------------------------------------------------------
(* Chunks: the parents.                                                    *)

\* A parent of a section.
ParentOk(doc, config, section, p) ==
  /\ p.path = section.path /\ p.header = section.header
  /\ ToSet(p.group) \subseteq ToSet(section.body) /\ Increasing(p.group)
  /\ Len(p.group) > 1 => HeaderLen(doc, section.header) + TextLen(doc, p.group) <= config.parentSize
  /\ ToSet(p.group) = {c.block : c \in ToSet(p.children)}
  /\ GoodWindows(p.children, doc, config)

\* The parents of a section.
ParentsOk(doc, config, section, ps) ==
  /\ Len(ps) \in Nat /\ Len(ps) > 0 /\ ps \in Seq(ToSet(ps))
  /\ \A g \in 1..Len(ps) : ParentOk(doc, config, section, ps[g])
  /\ \A g, h \in 1..Len(ps) : g < h => \A b \in ToSet(ps[g].group), c \in ToSet(ps[h].group) : b < c
  /\ ToSet(section.body) = UNION {ToSet(ps[g].group) : g \in 1..Len(ps)}

LEMMA ParentsHold ==
  ASSUME NEW doc, IsDoc(doc), NEW config, IsConfig(config), NEW section, SectionOk(doc, section)
  PROVE  ParentsOk(doc, config, section, Parents(doc, section, config))
<1> DEFINE gs == GroupParagraphs(doc, section, config.parentSize)
           ps == Parents(doc, section, config)
           headerLen == HeaderLen(doc, section.header)
           parentSize == config.parentSize
<1>1. /\ Buckets(doc, headerLen, parentSize, gs) /\ Held(gs) = ToSet(section.body) /\ Len(gs) > 0
  BY GroupsHold DEF SectionOk, IsConfig
<1>2. gs \in Seq(Seq(1..Len(doc))) /\ Len(gs) \in Nat /\ DOMAIN gs = 1..Len(gs)
  BY <1>1, LenProperties DEF Buckets
<1> DEFINE parent(g) == [path |-> section.path, header |-> section.header, group |-> gs[g],
                         children |-> Children(doc, gs[g], config)]
<1>3. ps = [g \in 1..Len(gs) |-> parent(g)]
  BY <1>2, Zenon DEF Parents
<1> HIDE DEF gs, ps
<1>4. \A g \in 1..Len(gs) : ps[g] = parent(g)
  BY <1>3, Zenon
<1>5. Len(ps) = Len(gs) /\ DOMAIN ps = 1..Len(gs) /\ ps \in Seq(ToSet(ps))
  <2>1. DOMAIN ps = 1..Len(gs) /\ \A g \in 1..Len(gs) : ps[g] \in ToSet(ps)
    BY <1>3 DEF ToSet
  <2> HIDE DEF parent
  <2>2. \A g \in 1..Len(gs) : parent(g) \in ToSet(ps)
    BY <1>4, <2>1
  <2> DEFINE S == ToSet(ps)
  <2>3. \A g \in 1..Len(gs) : parent(g) \in S
    BY <2>2
  <2> HIDE DEF S
  <2>4. Len([g \in 1..Len(gs) |-> parent(g)]) = Len(gs) /\ [g \in 1..Len(gs) |-> parent(g)] \in Seq(S)
    BY <1>2, <2>3, IsASeq
  <2> QED
    BY <1>3, <2>1, <2>4, Zenon DEF S
<1>6. \A g \in 1..Len(gs) : /\ ps[g].path = section.path /\ ps[g].header = section.header
                            /\ ps[g].group = gs[g] /\ ps[g].children = Children(doc, gs[g], config)
  <2> TAKE g \in 1..Len(gs)
  <2>1. /\ parent(g).path = section.path /\ parent(g).header = section.header
        /\ parent(g).group = gs[g] /\ parent(g).children = Children(doc, gs[g], config)
    OBVIOUS
  <2>2. ps[g] = parent(g)
    BY <1>4
  <2> HIDE DEF parent
  <2> QED
    BY <2>1, <2>2, Zenon
<1>7. ASSUME NEW g \in 1..Len(gs)
      PROVE  ParentOk(doc, config, section, ps[g])
  <2>1. Fits(doc, headerLen, parentSize, gs[g])
    BY <1>1 DEF Buckets
  <2>2. IsGroup(doc, gs[g]) /\ Increasing(gs[g])
    BY <2>1 DEF Fits, IsGroup
  <2>3. Len(gs[g]) > 1 => headerLen + TextLen(doc, gs[g]) <= parentSize
    BY <2>1 DEF Fits
  <2>4. ToSet(gs[g]) \subseteq ToSet(section.body)
    BY <1>1 DEF Held
  <2>5. /\ ToSet(gs[g]) = {c.block : c \in ToSet(Children(doc, gs[g], config))}
        /\ GoodWindows(Children(doc, gs[g], config), doc, config)
    BY <2>2, ChildrenCover
  <2> QED
    BY <1>6, <2>2, <2>3, <2>4, <2>5, Zenon DEF ParentOk
<1>8. \A g, h \in 1..Len(gs) : g < h => \A b \in ToSet(ps[g].group), c \in ToSet(ps[h].group) : b < c
  BY <1>1, <1>6 DEF Buckets
<1>9. ToSet(section.body) = UNION {ToSet(ps[g].group) : g \in 1..Len(gs)}
  <2>1. {ToSet(ps[g].group) : g \in 1..Len(gs)} = {ToSet(gs[g]) : g \in 1..Len(gs)}
    BY <1>6
  <2> QED
    BY <1>1, <2>1 DEF Held
<1> QED
  BY <1>1, <1>2, <1>5, <1>7, <1>8, <1>9 DEF ParentsOk, ps

\* What ChunksFaithful says of the parents of a document.
Faithful(doc, config, parents) ==
    /\ UNION {ToSet(parents[i].group) : i \in DOMAIN parents} = {b \in DOMAIN doc : doc[b].level = 0}
    /\ {h \in DOMAIN doc : doc[h].level > 0} = {parents[i].header : i \in DOMAIN parents} \ {0}
    /\ \A i, j \in DOMAIN parents : i < j =>
         \A b \in ToSet(parents[i].group), c \in ToSet(parents[j].group) : b < c
    /\ \A i \in DOMAIN parents :
         LET p == parents[i] IN
         /\ \A b \in ToSet(p.group) \cup ({p.header} \ {0}) :
              ToSet(p.path) = Enclosing(doc, b) /\ Increasing(p.path)
         /\ Increasing(p.group)
         /\ Len(p.group) > 1 => HeaderLen(doc, p.header) + TextLen(doc, p.group) <= config.parentSize
         /\ ToSet(p.group) = {c.block : c \in ToSet(p.children)}
         /\ GoodWindows(p.children, doc, config)

LEMMA ChunkFaithful ==
  ASSUME NEW doc, IsDoc(doc), NEW config, IsConfig(config)
  PROVE  Faithful(doc, config, Chunk(doc, config))
<1> DEFINE ss == SplitMarkdownSections(doc)
           n == Len(ss)
           pp == [s \in 1..n |-> Parents(doc, ss[s], config)]
           parents == Chunk(doc, config)
<1>1. /\ SectionsOk(doc, ss)
      /\ Bodies(ss) = Paragraphs(doc, Len(doc)) /\ Heads(ss) \ {0} = Headers(doc, Len(doc))
      /\ DOMAIN doc = 1..Len(doc)
  BY SectionsHold DEF IsDoc
<1>2. ss \in Seq(SectionType(doc)) /\ n \in Nat /\ DOMAIN ss = 1..n
  BY <1>1, LenProperties DEF SectionsOk
<1>3. /\ \A i \in 1..n : SectionOk(doc, ss[i])
      /\ \A i, j \in 1..n : i < j => \A b \in ToSet(ss[i].body), c \in ToSet(ss[j].body) : b < c
  BY <1>1 DEF SectionsOk
<1>4. parents = Flat(pp)
  BY <1>2, Zenon DEF Chunk
<1>5. \A i \in 1..n : ParentsOk(doc, config, ss[i], pp[i])
  BY <1>3, ParentsHold
<1> DEFINE P == UNION {ToSet(pp[s]) : s \in 1..n}
<1>6. pp \in Seq(Seq(P)) /\ Len(pp) = n
  <2>1. ASSUME NEW i \in 1..n PROVE pp[i] \in Seq(P)
    <3>1. pp[i] \in Seq(ToSet(pp[i])) /\ ToSet(pp[i]) \subseteq P
      BY <1>5 DEF ParentsOk
    <3> HIDE DEF pp, P
    <3> QED
      BY <3>1
  <2> HIDE DEF P
  <2>2. \A i \in 1..n : Parents(doc, ss[i], config) \in Seq(P)
    BY <2>1
  <2> QED
    BY <1>2, <2>2, IsASeq
<1> HIDE DEF ss, n, pp, parents, P
<1>7. parents \in Seq(P) /\ Laid(pp, n, parents)
  BY <1>4, <1>6, FlatLays
<1>8. PICK row, col : Lays(pp, n, parents, row, col)
  BY <1>7 DEF Laid
<1> DEFINE L == Len(parents)
<1>9. L \in Nat /\ DOMAIN parents = 1..L
  BY <1>7, LenProperties
<1>10. /\ \A k \in 1..L : /\ row[k] \in 1..n /\ col[k] \in 1..Len(pp[row[k]])
                          /\ parents[k] = pp[row[k]][col[k]]
       /\ \A k, l \in 1..L : k < l => row[k] < row[l] \/ (row[k] = row[l] /\ col[k] < col[l])
       /\ \A i \in 1..n : \A j \in 1..Len(pp[i]) : \E k \in 1..L : row[k] = i /\ col[k] = j
  BY <1>8 DEF Lays
<1> HIDE DEF L
<1>11. \A k \in 1..L : ParentOk(doc, config, ss[row[k]], parents[k])
  <2> TAKE k \in 1..L
  <2>1. ParentsOk(doc, config, ss[row[k]], pp[row[k]])
    BY <1>5, <1>10
  <2>2. \A g \in 1..Len(pp[row[k]]) : ParentOk(doc, config, ss[row[k]], pp[row[k]][g])
    BY <2>1 DEF ParentsOk
  <2> QED
    BY <1>10, <2>2
<1>12. UNION {ToSet(parents[i].group) : i \in 1..L} = Paragraphs(doc, Len(doc))
  <2>1. ASSUME NEW k \in 1..L, NEW b \in ToSet(parents[k].group) PROVE b \in Bodies(ss)
    <3>1. b \in ToSet(ss[row[k]].body) /\ row[k] \in 1..n
      BY <1>10, <1>11 DEF ParentOk
    <3> QED
      BY <3>1 DEF Bodies, n
  <2>2. ASSUME NEW b \in Bodies(ss) PROVE \E k \in 1..L : b \in ToSet(parents[k].group)
    <3>1. PICK i \in 1..n : b \in ToSet(ss[i].body)
      BY DEF Bodies, n
    <3>2. PICK g \in 1..Len(pp[i]) : b \in ToSet(pp[i][g].group)
      BY <1>5, <3>1 DEF ParentsOk
    <3>3. PICK k \in 1..L : row[k] = i /\ col[k] = g
      BY <1>10
    <3>4. parents[k] = pp[i][g]
      BY <1>10, <3>3
    <3> QED
      BY <3>2, <3>4
  <2> QED
    BY <1>1, <2>1, <2>2
<1>13. {parents[i].header : i \in 1..L} = Heads(ss)
  <2>1. ASSUME NEW k \in 1..L PROVE parents[k].header \in Heads(ss)
    <3>1. parents[k].header = ss[row[k]].header /\ row[k] \in 1..n
      BY <1>10, <1>11 DEF ParentOk
    <3> QED
      BY <3>1 DEF Heads, n
  <2>2. ASSUME NEW h \in Heads(ss) PROVE \E k \in 1..L : parents[k].header = h
    <3>1. PICK i \in 1..n : ss[i].header = h
      BY DEF Heads, n
    <3>2. 1 \in 1..Len(pp[i])
      BY <1>5 DEF ParentsOk
    <3>3. PICK k \in 1..L : row[k] = i /\ col[k] = 1
      BY <1>10, <3>2
    <3>4. parents[k].header = ss[row[k]].header
      BY <1>11 DEF ParentOk
    <3> QED
      BY <3>1, <3>3, <3>4
  <2> QED
    BY <2>1, <2>2
<1>14. ASSUME NEW i \in 1..L, NEW j \in 1..L, i < j,
              NEW b \in ToSet(parents[i].group), NEW c \in ToSet(parents[j].group)
       PROVE  b < c
  <2>1. row[i] \in 1..n /\ row[j] \in 1..n /\ b \in ToSet(ss[row[i]].body) /\ c \in ToSet(ss[row[j]].body)
    BY <1>10, <1>11 DEF ParentOk
  <2>2. row[i] < row[j] \/ (row[i] = row[j] /\ col[i] < col[j])
    BY <1>10, <1>14
  <2>3. CASE row[i] < row[j]
    BY <1>3, <2>1, <2>3
  <2>4. CASE row[i] = row[j] /\ col[i] < col[j]
    <3> DEFINE ps == pp[row[i]]
    <3>1. ParentsOk(doc, config, ss[row[i]], ps)
      BY <1>5, <2>1
    <3>2. /\ col[i] \in 1..Len(ps) /\ col[j] \in 1..Len(ps)
          /\ parents[i] = ps[col[i]] /\ parents[j] = ps[col[j]]
      BY <1>10, <2>4
    <3>3. \A g, h \in 1..Len(ps) : g < h => \A x \in ToSet(ps[g].group), y \in ToSet(ps[h].group) : x < y
      BY <3>1 DEF ParentsOk
    <3> QED
      BY <1>14, <2>4, <3>2, <3>3
  <2> QED
    BY <2>2, <2>3, <2>4
<1>15. ASSUME NEW i \in 1..L
       PROVE  LET p == parents[i] IN
         /\ \A b \in ToSet(p.group) \cup ({p.header} \ {0}) :
              ToSet(p.path) = Enclosing(doc, b) /\ Increasing(p.path)
         /\ Increasing(p.group)
         /\ Len(p.group) > 1 => HeaderLen(doc, p.header) + TextLen(doc, p.group) <= config.parentSize
         /\ ToSet(p.group) = {c.block : c \in ToSet(p.children)}
         /\ GoodWindows(p.children, doc, config)
  <2> DEFINE p == parents[i]  s == ss[row[i]]
  <2>1. ParentOk(doc, config, s, p) /\ SectionOk(doc, s)
    BY <1>3, <1>10, <1>11
  <2> HIDE DEF p, s
  <2>2. p.path = s.path /\ p.header = s.header /\ ToSet(p.group) \subseteq ToSet(s.body)
    BY <2>1 DEF ParentOk
  <2>3. Increasing(s.path) /\ \A b \in ToSet(s.body) \cup ({s.header} \ {0}) : ToSet(s.path) = Enclosing(doc, b)
    BY <2>1 DEF SectionOk, IsGroup
  <2>4. \A b \in ToSet(p.group) \cup ({p.header} \ {0}) : ToSet(p.path) = Enclosing(doc, b) /\ Increasing(p.path)
    BY <2>2, <2>3
  <2> QED
    BY <2>1, <2>2, <2>4, Zenon DEF ParentOk, p
<1>16. /\ Paragraphs(doc, Len(doc)) = {b \in DOMAIN doc : doc[b].level = 0}
       /\ Headers(doc, Len(doc)) = {h \in DOMAIN doc : doc[h].level > 0}
  BY <1>1 DEF Paragraphs, Headers
<1>17. Faithful(doc, config, parents)
  <2>1. UNION {ToSet(parents[i].group) : i \in DOMAIN parents} = {b \in DOMAIN doc : doc[b].level = 0}
    BY <1>9, <1>12, <1>16
  <2>2. {h \in DOMAIN doc : doc[h].level > 0} = {parents[i].header : i \in DOMAIN parents} \ {0}
    BY <1>1, <1>9, <1>13, <1>16
  <2> QED
    BY <1>9, <1>14, <1>15, <2>1, <2>2, Zenon DEF Faithful
<1> QED
  BY <1>17 DEF parents

\* What call and outcome say of a document that is chunked.
ChunkInv ==
  call.op = "chunk" =>
    /\ call.doc \in Documents /\ call.config \in Configs
    /\ outcome = IF call.doc # <<>> /\ ValidConfig(call.config) THEN Resolved(Chunk(call.doc, call.config))
                 ELSE Rejected

\* ChunkDocument establishes it; no other action is about a document.
LEMMA ChunkInvHolds == Spec => []ChunkInv
<1>1. Init => ChunkInv
  <2> SUFFICES ASSUME Init PROVE ChunkInv
    OBVIOUS
  <2>1. call.op = "none"
    BY DEF Init, NoCall
  <2> QED
    BY <2>1 DEF ChunkInv
<1>2. ChunkInv /\ [Next]_vars => ChunkInv'
  <2> SUFFICES ASSUME ChunkInv, [Next]_vars PROVE ChunkInv'
    OBVIOUS
  <2>1. ASSUME NEW doc \in Documents, NEW config \in Configs, ChunkDocument(doc, config) PROVE ChunkInv'
    <3>1. /\ call'.doc = doc /\ call'.config = config
          /\ outcome' = IF doc # <<>> /\ ValidConfig(config) THEN Resolved(Chunk(doc, config)) ELSE Rejected
      BY <2>1 DEF ChunkDocument
    <3> QED
      BY <3>1, Zenon DEF ChunkInv
  <2>2. ASSUME NEW o, Retrieve(o) PROVE ChunkInv'
    <3>1. call'.op = "retrieve"
      BY <2>2 DEF Retrieve
    <3> QED
      BY <3>1 DEF ChunkInv
  <2>3. ASSUME NEW side, NEW answer, ProviderSettles(side, answer) PROVE ChunkInv'
    <3>1. call'.op = "retrieve"
      BY <2>3 DEF ProviderSettles
    <3> QED
      BY <3>1 DEF ChunkInv
  <2>4. ASSUME NEW topK, RerankResults(topK) PROVE ChunkInv'
    <3>1. call'.op = "rerank"
      BY <2>4 DEF RerankResults
    <3> QED
      BY <3>1 DEF ChunkInv
  <2>5. ASSUME NEW flag, NEW value, NEW context, ResolveValue(flag, value, context) PROVE ChunkInv'
    <3>1. call'.op = "resolve"
      BY <2>5 DEF ResolveValue
    <3> QED
      BY <3>1 DEF ChunkInv
  <2>6. CASE Return
    <3>1. call'.op = "none"
      BY <2>6 DEF Return, NoCall
    <3> QED
      BY <3>1 DEF ChunkInv
  <2>7. CASE UNCHANGED vars
    BY <2>7 DEF vars, ChunkInv
  <2> QED
    BY <2>1, <2>2, <2>3, <2>4, <2>5, <2>6, <2>7 DEF Next
<1> QED
  BY <1>1, <1>2, PTL DEF Spec

\* A document that is chunked is all there, once and in its order, under the
\* headers that enclose it, and its windows cover it (splitMarkdownSections,
\* groupParagraphs, splitWithOverlap), for every document and configuration.
THEOREM ChunksCorrect == Spec => []ChunksFaithful
<1>1. ChunkInv => ChunksFaithful
  <2> SUFFICES ASSUME ChunkInv, Returned("chunk")
               PROVE  Faithful(call.doc, call.config, outcome.value)
    BY Zenon DEF ChunksFaithful, Faithful
  <2> DEFINE doc == call.doc  config == call.config
  <2>1. call.op = "chunk" /\ outcome.status = "resolved"
    BY DEF Returned
  <2>2. outcome # Rejected
    BY <2>1 DEF Rejected
  <2>3. doc \in Documents /\ config \in Configs /\ ValidConfig(config) /\ outcome = Resolved(Chunk(doc, config))
    BY <2>1, <2>2, Zenon DEF ChunkInv
  <2> HIDE DEF doc, config
  <2>4. outcome.value = Chunk(doc, config)
    BY <2>3 DEF Resolved
  <2>5. IsDoc(doc)
    <3> DEFINE B == [level : Nat, size : Nat \ {0}, kind : {"text", "table", "code"}]
    <3>1. doc \in Seq(B)
      BY <2>3, ChunkingAssumption
    <3> HIDE DEF B
    <3>2. Len(doc) \in Nat /\ DOMAIN doc = 1..Len(doc) /\ \A b \in 1..Len(doc) : doc[b] \in B
      BY <3>1, LenProperties, ElementOfSeq
    <3>3. \A x \in B : x.level \in Nat /\ x.size \in Nat /\ x.size > 0
      BY DEF B
    <3> QED
      BY <3>2, <3>3 DEF IsDoc
  <2>6. IsConfig(config)
    <3>1. config.chunkSize \in Int /\ config.parentSize \in Int /\ config.overlap \in Int
      BY <2>3, ChunkingAssumption
    <3> QED
      BY <2>3, <3>1 DEF IsConfig, ValidConfig
  <2>7. Faithful(doc, config, Chunk(doc, config))
    BY <2>5, <2>6, ChunkFaithful
  <2> QED
    BY <2>4, <2>7, Zenon DEF doc, config
<1> QED
  BY <1>1, ChunkInvHolds, PTL
=============================================================================
