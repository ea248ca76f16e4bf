------------------------------ MODULE MCEvaluator ------------------------------
(***************************************************************************)
(* Packages for TLC: one rule with any condition of two levels, or some of *)
(* three, and up to three simple rules that may conflict.                  *)
(***************************************************************************)
EXTENDS Evaluator

SomeValues == {Number(1), Number(2), Text(1), Null}

FactLeaves ==
  {[kind |-> "fact", fact |-> f, op |-> o, value |-> Number(1)] :
     f \in {"f", "g"}, o \in {"equals", "greaterThan", "isNull"}}
  \cup {[kind |-> "fact", fact |-> "g", op |-> "exists", value |-> Number(1)]}

RelativeLeaves ==
  {[kind |-> "relative", fact |-> "f", op |-> o, reference |-> "g", factor |-> 2] :
     o \in {"lessThan", "equals"}}

Leaves == FactLeaves \cup RelativeLeaves

Groups(some) ==
  {[kind |-> k, of |-> s] : k \in {"all", "any"}, s \in {{}} \cup {{c, d} : c, d \in some}}

Negations(some) == {[kind |-> "not", of |-> c] : c \in some}

Flat == Leaves \cup Groups(Leaves \cup Negations(FactLeaves)) \cup Negations(Leaves \cup Groups(Leaves))

\* A group in a group.
Few == {[kind |-> "fact", fact |-> "f", op |-> "equals", value |-> Number(1)],
        [kind |-> "fact", fact |-> "g", op |-> "exists", value |-> Number(1)],
        [kind |-> "relative", fact |-> "f", op |-> "lessThan", reference |-> "g", factor |-> 2]}

Nested == {[kind |-> k, of |-> {l, g}] : k \in {"all", "any"}, l \in FactLeaves, g \in Groups(Few)}

SomeConditions == Flat \cup Nested

\* Parts before the whole.
SomeDepth ==
  [c \in SomeConditions |->
     IF c \in Leaves THEN 0
     ELSE IF c \in Negations(Leaves) THEN 1
     ELSE IF c \in Groups(Leaves \cup Negations(FactLeaves)) THEN 2
     ELSE 3]

Plain ==
  [id |-> 1, scores |-> <<0>>, supersedes |-> {}, current |-> TRUE, executable |-> TRUE,
   scope |-> <<>>, condition |-> [kind |-> "fact", fact |-> "f", op |-> "equals", value |-> Number(1)],
   exceptions |-> {}, effect |-> "allow", action |-> "a1"]

OneRule == {[rules |-> {[Plain EXCEPT !.condition = c]}, limits |-> {}] : c \in SomeConditions}

WhenG == [kind |-> "fact", fact |-> "g", op |-> "equals", value |-> Number(1)]

\* Two restricted dimensions of a target.
Local == <<[fact |-> "f", only |-> {Number(1)}], [fact |-> "g", only |-> {Number(1)}]>>

Excepted ==
  {[rules |-> {[Plain EXCEPT !.exceptions = {WhenG}, !.scope = s]}, limits |-> {}] :
     s \in {<<>>, Local}}

Second == {[Plain EXCEPT !.id = 2, !.action = "a2", !.effect = e, !.scores = s, !.supersedes = p,
                         !.scope = w, !.condition = c] :
             e \in {"allow", "deny", "informational"}, s \in {<<0>>, <<-1>>},
             p \in {{}, {1}}, w \in {<<>>, Local}, c \in {Plain.condition, WhenG}}

Third == {[Plain EXCEPT !.id = 3, !.action = "a3", !.effect = e, !.supersedes = p, !.executable = x] :
            e \in {"deny", "require_action", "informational"}, p \in {{}, {1}, {2}}, x \in BOOLEAN}

Limit == [amounts |-> [i \in {1, 3} |-> "f"], max |-> 1]

Rivals == {[rules |-> {Plain, [Plain EXCEPT !.id = 4, !.current = FALSE], r, s}, limits |-> {Limit}] :
             r \in Second, s \in Third}

SomePackages == OneRule \cup Excepted \cup Rivals
=============================================================================
