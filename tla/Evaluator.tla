------------------------------- MODULE Evaluator -------------------------------
(***************************************************************************)
(* The deterministic evaluation of an approved package against the facts a *)
(* caller supplies (evaluator/conditions.py, precedence.py, engine.py).    *)
(* A caller that is told what is missing learns it, one fact at a time,    *)
(* and asks again.                                                         *)
(*                                                                         *)
(* A value is a number, a text, or null; what the operators do to dates,   *)
(* lists and strings differs only in the result for two operands that are  *)
(* there.  A condition is a record: a comparison with a literal, one with  *)
(* a multiple of another fact, or a group of conditions.                   *)
(***************************************************************************)
EXTENDS Integers, Sequences, FiniteSets, FiniteSetsExt

CONSTANTS
  Facts,      (* the names of the facts a rule may ask for                   *)
  Values,     (* what a caller may supply for one                            *)
  Conditions, (* the conditions of the rules, and what they are made of      *)
  Depth,      (* how deep each of them is nested                             *)
  Packages    (* the approved packages                                       *)

VARIABLES
  package,    (* the rules and the aggregate limits evaluated                *)
  facts,      (* what the caller has supplied so far, by name                *)
  response    (* the evaluation it got                                       *)

vars == <<package, facts, response>>

Number(n) == [type |-> "number", n |-> n]
Text(n) == [type |-> "text", n |-> n]
Null == [type |-> "null", n |-> 0]

ASSUME ValuesAreTyped == \A v \in Values : v = Null \/ v.type \in {"number", "text"}

Known(f) == f \in DOMAIN facts
-----------------------------------------------------------------------------
(* Conditions.                                                               *)

True == [outcome |-> "TRUE", missing |-> {}]
False == [outcome |-> "FALSE", missing |-> {}]
Indeterminate(names) == [outcome |-> "INDETERMINATE", missing |-> names]

Truth(b) == IF b THEN True ELSE False

\* Absent or null: nothing can be compared with it.
Lacks(known, f) == f \notin DOMAIN known \/ known[f] = Null

Orders == {"greaterThan", "lessThan"}

\* Ordering a number and a text raises a TypeError.
Comparable(op, left, right) == op \in Orders => left.type = right.type

Compare(op, left, right) ==
  CASE op = "equals" -> left = right
    [] op = "notEquals" -> left # right
    [] op = "greaterThan" -> left.n > right.n
    [] op = "lessThan" -> left.n < right.n

\* _evaluate_leaf.
Leaf(c, known) ==
  CASE c.op = "exists" -> Truth(~Lacks(known, c.fact))
    [] c.op = "isNull" ->
         IF c.fact \in DOMAIN known THEN Truth(known[c.fact] = Null)
         ELSE Indeterminate({c.fact})
    [] OTHER ->
         IF Lacks(known, c.fact) \/ ~Comparable(c.op, known[c.fact], c.value)
         THEN Indeterminate({c.fact})
         ELSE Truth(Compare(c.op, known[c.fact], c.value))

\* Mutant: one missing operand is reported at a time.
FirstLacking(c, known) ==
  IF Lacks(known, c.fact) THEN {c.fact}
  ELSE {f \in {c.reference} : Lacks(known, f)}

Lacking(c, known) == {f \in {c.fact, c.reference} : Lacks(known, f)}

\* _evaluate_relative_leaf: a fact against a multiple of another.
RelativeLeaf(c, known) ==
  IF Lacking(c, known) # {} THEN Indeterminate(Lacking(c, known))
  ELSE IF known[c.fact].type # "number" \/ known[c.reference].type # "number"
          \/ c.op \notin Orders \cup {"equals", "notEquals"}
       THEN Indeterminate({c.fact, c.reference})
       ELSE Truth(Compare(c.op, known[c.fact], Number(c.factor * known[c.reference].n)))

\* A group: one child that settles it does so whatever the others are; failing
\* that the missing facts of all children add up.
Group(results, settling, settled, otherwise) ==
  IF \E r \in results : r.outcome = settling THEN settled
  ELSE IF \E r \in results : r.outcome = "INDETERMINATE"
       THEN Indeterminate(UNION {r.missing : r \in results})
       ELSE otherwise

\* Mutant: what cannot be determined is negated like what is false.
NegatedAsFalse(result) == Truth(result.outcome # "TRUE")

Negated(result) ==
  IF result.outcome = "INDETERMINATE" THEN result ELSE Truth(result.outcome = "FALSE")

\* What a condition comes to when its parts come to what value says.
Judge(c, known, value) ==
  CASE c.kind = "fact" -> Leaf(c, known)
    [] c.kind = "relative" -> RelativeLeaf(c, known)
    [] c.kind = "all" -> Group({value[d] : d \in c.of}, "FALSE", False, True)
    [] c.kind = "any" -> Group({value[d] : d \in c.of}, "TRUE", True, False)
    [] c.kind = "not" -> Negated(value[c.of])

\* evaluate_condition.
Judged(known) ==
  LET value[c \in Conditions] == Judge(c, known, value)
  IN  value

Condition(c, known) == Judged(known)[c]

Parts(c) ==
  CASE c.kind \in {"all", "any"} -> c.of
    [] c.kind = "not" -> {c.of}
    [] OTHER -> {}

\* A condition is a tree: it is read from JSON.
ASSUME ConditionsAreTrees ==
  /\ Depth \in [Conditions -> Nat]
  /\ \A c \in Conditions :
       /\ c.kind \in {"fact", "relative", "all", "any", "not"}
       /\ c.kind \in {"fact", "relative"} => c.fact \in Facts
       /\ c.kind = "relative" => c.reference \in Facts
       /\ \A d \in Parts(c) : d \in Conditions /\ Depth[d] < Depth[c]

-----------------------------------------------------------------------------
(* One rule.                                                                 *)

\* _match_scope_dimension: what the dimension says of this request.
Dimension(d, known) ==
  CASE d.only = {} -> "match"
    [] d.only # {} /\ Lacks(known, d.fact) -> "missing"
    [] OTHER -> IF known[d.fact] \in d.only THEN "match" ELSE "mismatch"

\* _match_target: the first dimension that does not match decides.
Mismatches(rule, known) == {i \in DOMAIN rule.scope : Dimension(rule.scope[i], known) # "match"}

Vacuous(c) == c.kind \in {"all", "any"} /\ c.of = {}

Outcome(status, missing) == [status |-> status, missing |-> missing]

NotApplicable == Outcome("NOT_APPLICABLE", {})

\* The exceptions known to hold; one that cannot be determined is not one of them.
Triggered(rule, known) ==
  {e \in rule.exceptions : Condition(e, known).outcome = "TRUE"}

\* Condition and exceptions of a rule whose target matches.
Tested(rule, known) ==
  LET result == Condition(rule.condition, known)
  IN  CASE result.outcome = "INDETERMINATE" -> Outcome("INDETERMINATE", result.missing)
        [] result.outcome = "FALSE" -> Outcome("NOT_SATISFIED", {})
        [] OTHER -> Outcome(IF Triggered(rule, known) = {} THEN "SATISFIED" ELSE "NOT_SATISFIED", {})

\* _evaluate_rule.
EvaluateRule(rule, known) ==
  IF ~rule.executable \/ Vacuous(rule.condition) THEN NotApplicable
  ELSE IF Mismatches(rule, known) = {} THEN Tested(rule, known)
  ELSE LET first == rule.scope[Min(Mismatches(rule, known))]
       IN  IF Dimension(first, known) = "missing"
           THEN Outcome("INDETERMINATE", {first.fact})
           ELSE NotApplicable
-----------------------------------------------------------------------------
(* Precedence and combination.                                               *)

\* precedence.sort_key: seven scores of the rule itself, then whether another rule
\* supersedes it, then its id.
SortKey(rule, rules) ==
  rule.scores
    \o <<IF \E r \in rules : r.id # rule.id /\ rule.id \in r.supersedes THEN 1 ELSE 0>>
    \o <<rule.id>>

\* A publish merges its rules by their id, so a package has one revision of each.
ASSUME PackagesHoldARuleOnce ==
  \A p \in Packages :
    /\ IsFiniteSet(p.rules)
    /\ \A r \in p.rules :
         /\ r.id \in Int /\ r.scores \in Seq(Int) /\ DOMAIN r.scope \subseteq Nat
         /\ {r.condition} \cup r.exceptions \subseteq Conditions
    /\ \A r, s \in p.rules : Len(r.scores) = Len(s.scores) /\ (r.id = s.id => r = s)

Precedes(r, s, rules) ==
  LET a == SortKey(r, rules)
      b == SortKey(s, rules)
  IN  \E i \in DOMAIN a : a[i] < b[i] /\ \A j \in 1 .. i - 1 : a[j] = b[j]

AllowLike == {"allow", "require_action"}

OnAxis == AllowLike \cup {"deny"}

SameSide(r, s) == (r.effect = "deny") = (s.effect = "deny")

First(some, rules) == CHOOSE r \in some : \A s \in some \ {r} : Precedes(r, s, rules)

\* Mutant: whatever comes first decides, on the axis or not.
FirstOfAll(satisfied, rules) == {r \in satisfied : r = First(satisfied, rules)}

\* The rule that decides, if any: the first satisfied one that permits or denies.
Winner(satisfied, rules) ==
  LET competing == {r \in satisfied : r.effect \in OnAxis}
  IN  {r \in competing : r = First(competing, rules)}

\* _apply_combining_algorithm: what is on the other side is overridden.
Overridden(satisfied, rules) ==
  {r \in satisfied :
     r.effect \in OnAxis /\ \E w \in Winner(satisfied, rules) : ~SameSide(r, w)}

\* Where there is a conflict only the winning side contributes; informational rules
\* contribute where there is none.
Contributing(satisfied, rules) ==
  IF Winner(satisfied, rules) = {} THEN {}
  ELSE IF Overridden(satisfied, rules) = {} THEN satisfied
  ELSE {r \in satisfied : r.effect \in OnAxis} \ Overridden(satisfied, rules)

\* The rules that count against an aggregate limit: satisfied, not overridden, their
\* amount a number.
Spending(limit, satisfied, rules, known) ==
  {r \in satisfied \ Overridden(satisfied, rules) : r.id \in DOMAIN limit.amounts
     /\ limit.amounts[r.id] \in DOMAIN known /\ known[limit.amounts[r.id]].type = "number"}

\* _evaluate_aggregate_limits.
Breached(limit, satisfied, rules, known) ==
  LET spending == Spending(limit, satisfied, rules, known)
  IN  /\ spending # {}
      /\ MapThenSumSet(LAMBDA r : known[limit.amounts[r.id]].n, spending) > limit.max

\* evaluate_policy.  Rules outside their dates are left out before anything else.
Evaluate(known) ==
  LET rules == {r \in package.rules : r.current}
      result == [r \in rules |-> EvaluateRule(r, known)]
      satisfied == {r \in rules : result[r].status = "SATISFIED"}
      undecided == {r \in rules : result[r].status = "INDETERMINATE"}
  IN  [overall |-> CASE undecided # {} -> "INDETERMINATE"
                     [] undecided = {} /\ satisfied # {} -> "SATISFIED"
                     [] undecided = {} /\ rules = {} -> "NOT_APPLICABLE"
                     [] OTHER -> "NOT_SATISFIED",
       outcome |-> {r.action : r \in Winner(satisfied, rules)},
       satisfied |-> satisfied,
       overridden |-> Overridden(satisfied, rules),
       missing |-> UNION {result[r].missing : r \in undecided},
       required |-> {r.action : r \in {s \in Contributing(satisfied, rules) : s.effect \in AllowLike}},
       denied |-> {r.action : r \in {s \in Contributing(satisfied, rules) : s.effect = "deny"}},
       breaches |-> {l \in package.limits : Breached(l, satisfied, rules, known)}]

Init ==
  /\ package \in Packages
  /\ facts = [f \in {} |-> Null]
  /\ response = Evaluate(facts)

\* The caller finds out one fact more, null being an answer, and asks again.
Learn(f, v) ==
  /\ ~Known(f)
  /\ facts' = [g \in DOMAIN facts \cup {f} |-> IF g = f THEN v ELSE facts[g]]
  /\ response' = Evaluate(facts')
  /\ UNCHANGED package

Next == \E f \in Facts, v \in Values : Learn(f, v)

Spec == Init /\ [][Next]_vars

-----------------------------------------------------------------------------
\* The comparisons a condition is made of.
LeavesOf[c \in Conditions] ==
  IF c.kind \in {"fact", "relative"} THEN {c} ELSE UNION {LeavesOf[d] : d \in Parts(c)}

\* `exists` asks whether a fact is there, so its answer may change when it is.
AsksForValuesOnly ==
  \A r \in package.rules : \A c \in {r.condition} \cup r.exceptions :
    \A l \in LeavesOf[c] : l.kind = "fact" => l.op # "exists"

\* A verdict that was reached with some facts missing stands whatever they are: what
\* is absent was nowhere taken for false, not under a negation, in a group, as the
\* operand of another fact, or as the target of a rule.  Of rules with exceptions it
\* is not true: one that cannot be determined counts as one that does not hold.
VerdictsStand ==
  [][(/\ AsksForValuesOnly
      /\ \A r \in package.rules : r.exceptions = {}
      /\ response.overall # "INDETERMINATE")
     => \A x \in DOMAIN response \ {"breaches"} : response'[x] = response[x]]_vars

Completions(names) == [names -> {v \in Values : v.type = "number"}]

Completed(known, more) ==
  [f \in DOMAIN known \cup DOMAIN more |-> IF f \in DOMAIN more THEN more[f] ELSE known[f]]

\* A leaf that a number settles: an order is one of numbers.
ComparesNumbers(l) ==
  /\ l.op \in Orders \cup {"equals", "notEquals"}
  /\ l.kind = "fact" /\ l.op \in Orders => l.value.type = "number"

AsksForPresence(l) == l.kind = "fact" /\ l.op \in {"exists", "isNull"}

Compares(c) == \A l \in LeavesOf[c] : ComparesNumbers(l)

Bare(c) == IF c.kind = "not" THEN c.of ELSE c

\* Presence is asked for itself at most.
AsksPlainly(c) == Compares(c) \/ Bare(c).kind \in {"fact", "relative"}

\* Presence is asked in one group at most, of which anything may be a part.
AsksInOneGroup(c) == AsksPlainly(c) \/ \A d \in Parts(Bare(c)) : AsksPlainly(d)

\* A caller asking what it would need to supply gets the complete answer in one pass:
\* if what it has supplied is numbers, then with all that is reported missing the
\* condition is determined, however deep comparisons are nested.  Not so where `exists`
\* or `isNull` is asked in a group in a group: with the fact supplied their answer may
\* turn, and the others of the group matter then.
MissingFactsSuffice ==
  (\A f \in DOMAIN facts : facts[f].type # "text") =>
  \A r \in package.rules :
    LET result == Condition(r.condition, facts)
    IN  (/\ \A l \in LeavesOf[r.condition] : ComparesNumbers(l) \/ AsksForPresence(l)
         /\ AsksInOneGroup(r.condition)
         /\ result.outcome = "INDETERMINATE")
        => /\ result.missing # {}
           /\ \A more \in Completions(result.missing) :
                Condition(r.condition, Completed(facts, more)).outcome # "INDETERMINATE"

\* Where rules conflict, the one that decides is satisfied, outranks every satisfied
\* rule of the other side, and only its side is acted on.
OneSideDecides ==
  LET rules == {r \in package.rules : r.current}
      competing == {r \in response.satisfied : r.effect \in OnAxis}
  IN  /\ response.required = {} \/ response.denied = {}
      /\ competing # {} =>
           \E w \in competing :
             /\ response.outcome = {w.action}
             /\ \A r \in competing : SameSide(r, w) \/ Precedes(w, r, rules)
             /\ response.overridden = {r \in competing : ~SameSide(r, w)}
=============================================================================
