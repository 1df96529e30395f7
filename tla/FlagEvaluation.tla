---------------------------- MODULE FlagEvaluation ----------------------------
(* Evaluation of a flag, packages/ai/src/sqlite-feature-flag-provider.ts, as *)
(* a function of the flag and of the caller's context.                       *)
EXTENDS Integers, SequencesExt

CONSTANTS
  HashBits,           \* width of the integers of simpleHash: 32
  Global, Anonymous   \* what stands for a missing tenant and a missing user

\* That a power of two is positive is said because the prover knows no powers.
ASSUME HashAssumption ==
  /\ HashBits \in Nat \ {0} /\ 2^HashBits \in Nat \ {0}
  /\ Global \in Int /\ Anonymous \in Int

\* The fields of a context: two of its identifiers, and one that only an
\* attribute can set.
Fields == {"tenantId", "userId", "plan"}

\* hash |= 0: the low bits as a signed integer.
Wrap(x) == ((x + 2^(HashBits - 1)) % 2^HashBits) - 2^(HashBits - 1)
\* % of JavaScript takes the sign of the dividend.
Remainder(a, b) == IF a < 0 THEN -((-a) % b) ELSE a % b

\* (hash << 5) - hash + char, wrapped, over the characters.
Hashed(input) ==
  LET hash[n \in 0..Len(input)] ==
        IF n = 0 THEN 0 ELSE Wrap(31 * hash[n - 1] + input[n])
  IN  hash[Len(input)]

\* Mutant: the sign is left on.
SimpleHashSigned(input) == Hashed(input)

\* And the absolute value at the end.
SimpleHash(input) == IF Hashed(input) < 0 THEN -Hashed(input) ELSE Hashed(input)

----------------------------------------------------------------------------
(* A value has a type and, of that type, a number: a string stands for its   *)
(* character.  A rule compares a field of the context with a value, or with  *)
(* the members of an array.                                                  *)

Number(n) == [type |-> "number", of |-> n]
String(c) == [type |-> "string", of |-> c]
Undefined == [type |-> "undefined", of |-> 0]

\* What an attribute and the value of a rule, both unknown to TypeScript, may be.
IsValue(v) ==
  /\ v = [type |-> v.type, of |-> v.of]
  /\ v.type \in {"number", "string", "undefined"} /\ v.of \in Int
  /\ v.type = "undefined" => v = Undefined

Operators == {"eq", "ne", "in", "not-in", "gt", "gte", "lt", "lte"}
IsRule(rule) ==
  /\ rule = [op |-> rule.op, array |-> rule.array, field |-> rule.field,
             value |-> rule.value, variant |-> rule.variant]
  /\ rule.op \in Operators /\ rule.array \in BOOLEAN /\ rule.field \in Fields
  /\ rule.array \/ \E v \in rule.value : rule.value = {v}
  /\ \A v \in rule.value : IsValue(v)

IsFlag(flag) ==
  /\ flag = [key |-> flag.key, stored |-> flag.stored, enabled |-> flag.enabled,
             rolloutPct |-> flag.rolloutPct, rules |-> flag.rules,
             variants |-> flag.variants, default |-> flag.default]
  /\ flag.key \in Int /\ flag.stored \in BOOLEAN /\ flag.enabled \in BOOLEAN
  /\ flag.rolloutPct \in Int
  /\ flag.rules \in Seq(ToSet(flag.rules)) /\ \A rule \in ToSet(flag.rules) : IsRule(rule)

\* The identifiers are strings, each of them perhaps missing.
Identifiers == {"tenantId", "userId"}
IsContext(context) ==
  /\ context.given \in BOOLEAN
  /\ \A f \in Fields : IsValue(context.attributes[f])
  /\ \A f \in Identifiers : IsValue(context.ids[f]) /\ context.ids[f].type # "number"

\* Attributes come before the context's own identifiers.
CtxValue(context, field) ==
  CASE context.attributes[field] # Undefined -> context.attributes[field]
    [] context.attributes[field] = Undefined /\ field \in Identifiers -> context.ids[field]
    [] OTHER -> Undefined

\* Only numbers are ordered.
Matches(rule, ctxValue) ==
  LET value   == CHOOSE x \in rule.value : TRUE
      ordered == ~rule.array /\ ctxValue.type = "number" /\ value.type = "number" IN
  CASE rule.op = "eq"     -> ~rule.array /\ rule.value = {ctxValue}
    [] rule.op = "ne"     -> rule.array \/ rule.value # {ctxValue}
    [] rule.op = "in"     -> rule.array /\ ctxValue \in rule.value
    [] rule.op = "not-in" -> rule.array /\ ctxValue \notin rule.value
    [] rule.op = "gt"     -> ordered /\ ctxValue.of > value.of
    [] rule.op = "gte"    -> ordered /\ ctxValue.of >= value.of
    [] rule.op = "lt"     -> ordered /\ ctxValue.of < value.of
    [] rule.op = "lte"    -> ordered /\ ctxValue.of <= value.of

\* The first rule that matches and names a variant the flag has.  NoContext
\* and a flag without rules match as they are.
EvaluateTargeting(flag, context) ==
  LET Decides(rule) == /\ Matches(rule, CtxValue(context, rule.field))
                       /\ rule.variant \in DOMAIN flag.variants
      first == SelectInSeq(flag.rules, Decides) IN
  CASE ~context.given \/ flag.rules = <<>> -> [matched |-> TRUE, value |-> flag.default]
    [] context.given /\ flag.rules # <<>> /\ first > 0 ->
         [matched |-> TRUE, value |-> flag.variants[flag.rules[first].variant]]
    [] OTHER -> [matched |-> FALSE, value |-> flag.default]

\* key:tenantId:userId; one character stands for each of the three.
HashInput(flag, context) ==
  LET Colon == 58
      Or(x, other) == IF x = Undefined THEN other ELSE x.of IN
  <<flag.key, Colon, Or(context.ids["tenantId"], Global), Colon,
    Or(context.ids["userId"], Anonymous)>>

EvaluateFlag(flag, defaultValue, context) ==
  CASE ~flag.stored -> [value |-> defaultValue, reason |-> "DEFAULT"]
    [] flag.stored /\ ~flag.enabled -> [value |-> defaultValue, reason |-> "DISABLED"]
    [] flag.stored /\ flag.enabled /\ flag.rolloutPct < 100
         /\ Remainder(SimpleHash(HashInput(flag, context)), 100) >= flag.rolloutPct ->
         [value |-> defaultValue, reason |-> "SPLIT"]
    [] OTHER ->
         LET t == EvaluateTargeting(flag, context) IN
         [value  |-> t.value, reason |-> IF t.matched THEN "TARGETING_MATCH" ELSE "STATIC"]
=============================================================================
