--------------------------- MODULE MCCaseEvaluation ---------------------------
(***************************************************************************)
(* CaseEvaluation for TLC: the decision replies are all those that differ  *)
(* from one that settles the case in at most two of their parts.           *)
(***************************************************************************)
EXTENDS CaseEvaluation

CONSTANTS Rule, Invented, Known, Alias, Stray, Selector

SomeCatalogues ==
  {[n \in {Known, Alias} |-> Selector], [n \in {} |-> Selector]}

SomeReadings ==
  {[information |-> i, verdict |-> v] : i \in {"yes", "no"}, v \in {"no", "unsaid"}}
  \cup {[information |-> "no", verdict |-> "yes"]}

SomeInformations ==
  [holds : SUBSET {"declined", "bears", "answer"}, cited : {{}, {Rule, Invented}}]

Claims ==
  {[disposition |-> "unnamed", rules |-> {}, reason |-> "none"],
   [disposition |-> "unrecognised", rules |-> {Rule}, reason |-> "stated"]}
  \cup {[disposition |-> "used", rules |-> i, reason |-> "none"] : i \in {{Rule}, {Invented}}}
  \cup {[disposition |-> "irrelevant", rules |-> {}, reason |-> w] : w \in {"stated", "none"}}

Full ==
  [holds |-> {"answer", "verdict"}, cited |-> {Rule}, status |-> "answered",
   facts |-> {}, checks |-> {}, hinges |-> {}, settles |-> "yes",
   account |-> [u \in Units |-> [disposition |-> "used", rules |-> {Rule}, reason |-> "none"]]]

\* The replies that differ from r in one part.
Near(r) ==
  {[r EXCEPT !.holds = h] : h \in {{"answer"}, {"verdict"}, {"answer", "verdict", "declined"}}}
  \cup {[r EXCEPT !.cited = i] : i \in {{}, {Invented}, {Rule, Invented}}}
  \cup {[r EXCEPT !.status = x] : x \in (DecisionStatuses \cup {"unrecognised"}) \ {"answered"}}
  \cup {[r EXCEPT !.facts = n] : n \in {{Known}, {Stray}, {Known, Stray}}}
  \cup {[r EXCEPT !.checks = n] : n \in {{Alias}, {Stray}, {Known, Alias}}}
  \cup {[r EXCEPT !.hinges = n] : n \in {{Known}, {Stray}}}
  \cup {[r EXCEPT !.settles = v] : v \in {"no", "unsaid"}}
  \cup {[r EXCEPT !.account[u] = c] : u \in Units, c \in Claims}

SomeDecisions == {Full} \cup Near(Full) \cup UNION {Near(r) : r \in Near(Full)}
=============================================================================
