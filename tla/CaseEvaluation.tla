---------------------------- MODULE CaseEvaluation ----------------------------
(***************************************************************************)
(* What the decider makes of a case once retrieval has kept some records:  *)
(* the question crosses into the processing language (ai_case_language.py), *)
(* several readings of it are taken at once, each track they ask for       *)
(* gathers its answer beside the other (ai_case_intent.py, ai_case_plan.py, *)
(* ai_case_evidence_accounting.py), and what came of it crosses back and   *)
(* becomes the sections of the receipt (policy_case_decision.py).          *)
(*                                                                         *)
(* A model call may return anything or fail at any moment.  A reply is the *)
(* plan that is read from it: which rules, facts and checks it names, and  *)
(* which of its texts are there at all; the texts themselves decide        *)
(* nothing and are left out.  Of two names for one fact the catalogue      *)
(* knows that they are one.                                                *)
(***************************************************************************)
EXTENDS Naturals, FiniteSets

CONSTANTS
  Samples,       (* the readings that are taken of the question              *)
  RuleIds,       (* the rules of the retained records                        *)
  CitableIds,    (* what a reply may cite, rules that do not exist included  *)
  Units,         (* the pieces of evidence a reply has to account for        *)
  Names,         (* what a reply may call a fact                             *)
  Catalogues,    (* what the records may declare: a selector for some names  *)
  Readings,      (* how one sample may read the question                     *)
  Informations,  (* the informational replies                                *)
  Decisions      (* the decision replies                                     *)

Tracks == {"information", "verdict"}
Votes == {"yes", "no", "unsaid"}
Texts == {"declined", "bears", "answer", "verdict"}

Claim == [disposition : {"unnamed", "used", "irrelevant", "unrecognised"},
          rules : SUBSET CitableIds, reason : {"stated", "none"}]

DecisionStatuses ==
  {"answered", "missing_required_facts", "not_settled_by_rules", "no_rule_bears", "declined"}

\* holds: of its flags and texts, those that are true or there.
Information == [holds : SUBSET Texts, cited : SUBSET CitableIds]

\* facts: named as missing.  checks: named as conditions for acting on the verdict.
\* hinges: named as such, and not said to leave the judgement as it is.
Decision ==
  [holds : SUBSET Texts, cited : SUBSET CitableIds,
   status : DecisionStatuses \cup {"unrecognised"},
   facts : SUBSET Names, checks : SUBSET Names, hinges : SUBSET Names,
   settles : Votes, account : [Units -> Claim]]

ASSUME CaseEvaluationAssumption ==
  /\ IsFiniteSet(Samples) /\ Samples # {}
  /\ Samples \cap Tracks = {}
  /\ RuleIds \subseteq CitableIds
  /\ "none" \notin Names
  /\ \A k \in Catalogues : \A n \in DOMAIN k : k[n] # "none"
  /\ Readings \subseteq [Tracks -> Votes]
  /\ Informations \subseteq Information
  /\ Decisions \subseteq Decision

VARIABLES
  pc,         (* where the evaluation is                                     *)
  language,   (* of the question, as far as it could be told                 *)
  catalogue,  (* the selectors the retained records declare                  *)
  call,       (* each model call: which attempt, with reasoning effort or not *)
  read,       (* the readings that came back                                 *)
  asked,      (* the tracks that run                                         *)
  reply,      (* history: what each track made its answer of                 *)
  branch,     (* the evaluation: what each track returned                    *)
  receipt     (* its sections, as they are served                            *)

vars == <<pc, language, catalogue, call, read, asked, reply, branch, receipt>>

-----------------------------------------------------------------------------
(* From a reply to a decision.                                               *)

Nothing == [status |-> "none", holds |-> {}, cited |-> {}, missing |-> {}, checks |-> {}]

\* An answer without content, whatever the reason.
Empty(status) == [Nothing EXCEPT !.status = status]

\* _checked_citation_ids: what names no retained rule is dropped.
Cited(r) == r.cited \cap RuleIds

\* answer_informational_over_policies.
Informed(r) ==
  IF "declined" \in r.holds THEN Empty("declined")
  ELSE IF "bears" \notin r.holds \/ Cited(r) = {} THEN Empty("no_rule_bears")
  ELSE IF "answer" \notin r.holds THEN Empty("declined")
  ELSE [Empty("answered") EXCEPT !.holds = {"answer"}, !.cited = Cited(r)]

\* _selector_resolver: records that declare nothing refuse nothing.
Resolve(k, n) ==
  IF DOMAIN k = {} THEN n ELSE IF n \in DOMAIN k THEN k[n] ELSE "none"

Keys(k, names) == {Resolve(k, n) : n \in names} \ {"none"}

\* Mutant: what is marked as deciding the outcome stays a condition.
OutstandingAsNamed(r, k) == Keys(k, r.facts)

\* The missing facts, and the checks that were promoted to them.
Outstanding(r, k) == Keys(k, r.facts \cup r.hinges)

\* The conditions that are left.
Conditions(r, k) == Keys(k, r.checks) \ Outstanding(r, k)

\* A name the records do not know was given for something that is outstanding.
Refused(r, k) == \E n \in r.facts \cup r.hinges : Resolve(k, n) = "none"

\* account_for_evidence, of the first claim about each unit.
Accounted(claim) ==
  \/ claim.disposition = "used" /\ claim.rules \cap RuleIds # {}
  \/ claim.disposition = "irrelevant" /\ claim.reason = "stated"

AccountsForEvidence(r) == \A u \in Units : Accounted(r.account[u])

\* A label that is none is inferred.
Labelled(r, k) ==
  IF r.status \in DecisionStatuses THEN r.status
  ELSE IF Outstanding(r, k) # {} THEN "missing_required_facts"
  ELSE IF Cited(r) # {} /\ "answer" \in r.holds THEN "answered"
  ELSE "no_rule_bears"

\* Mutant: facts that were all refused do not count.
WaitingForKnown(r, k) ==
  IF Labelled(r, k) \in {"answered", "not_settled_by_rules"} /\ Outstanding(r, k) # {}
  THEN "missing_required_facts"
  ELSE Labelled(r, k)

\* What names an outstanding fact waits for it, whatever it calls itself; if only names
\* were given that mean nothing, nobody can say for what.
Waiting(r, k) ==
  IF Labelled(r, k) \notin {"answered", "not_settled_by_rules"} THEN Labelled(r, k)
  ELSE IF Outstanding(r, k) # {} THEN "missing_required_facts"
  ELSE IF Refused(r, k) THEN "declined"
  ELSE Labelled(r, k)

\* No state stands with nothing to show for it.
Explained(r, k) ==
  IF \/ Waiting(r, k) = "missing_required_facts" /\ Outstanding(r, k) = {}
     \/ "answer" \notin r.holds
  THEN "declined" ELSE Waiting(r, k)

\* A verdict is named, is on what was asked, and rests on all the evidence.
Settled(r, k) ==
  IF /\ Explained(r, k) = "answered"
     /\ \/ "verdict" \notin r.holds
        \/ r.settles = "no"
        \/ ~AccountsForEvidence(r)
  THEN "not_settled_by_rules" ELSE Explained(r, k)

\* _decision_from_parsed.
Decided(r, k) ==
  IF "declined" \in r.holds THEN Empty("declined")
  ELSE IF Labelled(r, k) = "no_rule_bears" \/ Cited(r) = {} THEN Empty("no_rule_bears")
  ELSE IF Settled(r, k) = "declined" THEN Empty("declined")
  ELSE [status |-> Settled(r, k),
        holds |-> {"answer"} \cup (IF Settled(r, k) = "answered" THEN {"verdict"} ELSE {}),
        cited |-> Cited(r),
        missing |-> IF Settled(r, k) = "missing_required_facts" THEN Outstanding(r, k) ELSE {},
        checks |-> IF Settled(r, k) = "answered" THEN Conditions(r, k) ELSE {}]

-----------------------------------------------------------------------------
(* Model calls (_chat_json).                                                 *)

Calls == Samples \cup Tracks

InFlight == {"first", "first_plain", "second", "second_plain"}

Waits(c) ==
  /\ call[c] \in InFlight
  /\ pc = IF c \in Samples THEN "reading" ELSE "gathering"

\* Mutant: the fault of one track is that of the evaluation.
EscapesGather(c) ==
  /\ call' = [call EXCEPT ![c] = "failed"]
  /\ pc' = "raised"
  /\ UNCHANGED branch

\* A reading that fails is nobody's answer, and the evaluation raises at once; a track
\* that fails is reported beside the other.
Fails(c) ==
  /\ call' = [call EXCEPT ![c] = "failed"]
  /\ IF c \in Samples THEN pc' = "raised" /\ UNCHANGED branch
     ELSE branch' = [branch EXCEPT ![c] = Empty("failed")] /\ UNCHANGED pc

\* Mutant: it is asked again until it can be read.
AskAgain ==
  [first |-> "second", first_plain |-> "second_plain",
   second |-> "first", second_plain |-> "first_plain"]

\* The attempt after one whose reply cannot be read, if there is another.
NextAttempt == [first |-> "second", first_plain |-> "second_plain"]

Garbled(c) ==
  /\ Waits(c)
  /\ \/ /\ call[c] \in DOMAIN NextAttempt
        /\ call' = [call EXCEPT ![c] = NextAttempt[@]]
        /\ UNCHANGED <<pc, branch>>
     \/ call[c] \notin DOMAIN NextAttempt /\ Fails(c)
  /\ UNCHANGED <<language, catalogue, read, asked, reply, receipt>>

Plain == [first |-> "first_plain", second |-> "second_plain"]

\* A deployment that knows no reasoning effort is called again without, and so are
\* the attempts after it.
RefuseEffort(c) ==
  /\ Waits(c)
  /\ call[c] \in DOMAIN Plain
  /\ call' = [call EXCEPT ![c] = Plain[@]]
  /\ UNCHANGED <<pc, language, catalogue, read, asked, reply, branch, receipt>>

\* Anything else that is raised.
Break(c) ==
  /\ Waits(c)
  /\ Fails(c)
  /\ UNCHANGED <<language, catalogue, read, asked, reply, receipt>>

-----------------------------------------------------------------------------
(* The evaluation.                                                           *)

Unread == [t \in Tracks |-> "unsaid"]

NoReply == [holds |-> {}, cited |-> {}]

Init ==
  /\ pc = "crossing"
  /\ language = "processing"
  /\ catalogue \in Catalogues
  /\ call = [c \in Calls |-> "idle"]
  /\ read = [s \in Samples |-> Unread]
  /\ asked = {}
  /\ reply = [t \in Tracks |-> NoReply]
  /\ branch = [t \in Tracks |-> Nothing]
  /\ receipt = [t \in Tracks |-> Nothing]

\* normalise_scenario: the question is refused or read in the language of the
\* pipeline.  Then all readings start.
CrossIn ==
  /\ pc = "crossing"
  /\ \/ /\ pc' = "reading"
        /\ language' \in {"processing", "other", "unknown"}
        /\ call' = [c \in Calls |-> IF c \in Samples THEN "first" ELSE "idle"]
     \/ /\ pc' = "raised"
        /\ UNCHANGED <<language, call>>
  /\ UNCHANGED <<catalogue, read, asked, reply, branch, receipt>>

Sample(s, reading) ==
  /\ Waits(s)
  /\ call' = [call EXCEPT ![s] = "answered"]
  /\ read' = [read EXCEPT ![s] = reading]
  /\ UNCHANGED <<pc, language, catalogue, asked, reply, branch, receipt>>

Voting(t, vote) == Cardinality({s \in Samples : read[s][t] = vote})

\* _majority, of those that stated one.
Majority(t) ==
  IF Voting(t, "yes") > Voting(t, "no") THEN "yes"
  ELSE IF Voting(t, "no") > Voting(t, "yes") THEN "no" ELSE "unsaid"

\* classify_case_needs: in doubt, both.
Requested ==
  LET wanted == {t \in Tracks : Majority(t) = "yes"}
  IN  IF wanted = {} \/ \E t \in Tracks : Majority(t) = "unsaid" THEN Tracks ELSE wanted

\* All readings are there.  The tracks they ask for start, at once, over the same
\* records; one whose prompt these do not fit declines without a call.  That of the
\* verdict carries the selectors as well.
Classify ==
  /\ pc = "reading"
  /\ \A s \in Samples : call[s] = "answered"
  /\ pc' = "gathering"
  /\ asked' = Requested
  /\ read' = [s \in Samples |-> Unread]
  /\ \E oversize \in {{}, {"verdict"}, Tracks} :
       /\ call' = [c \in Calls |-> IF c \in Requested \ oversize THEN "first" ELSE "idle"]
       /\ branch' = [t \in Tracks |-> IF t \in Requested \cap oversize
                                      THEN Empty("declined") ELSE Nothing]
  /\ UNCHANGED <<language, catalogue, reply, receipt>>

Return(t, r, answer) ==
  /\ Waits(t)
  /\ call' = [call EXCEPT ![t] = "answered"]
  /\ reply' = [reply EXCEPT ![t] = r]
  /\ branch' = [branch EXCEPT ![t] = answer]
  /\ UNCHANGED <<pc, language, catalogue, read, asked, receipt>>

Inform(r) == Return("information", r, Informed(r))

Decide(r) == Return("verdict", r, Decided(r, catalogue))

Reported == pc = "gathering" /\ \A t \in asked : branch[t] # Nothing

\* Mutant: a section is there if its track answered.
AnsweredSections(t) ==
  IF branch[t].status = "answered" THEN branch[t] ELSE Nothing

\* _information_section, _verdict_section: each assures again that an answer that
\* was reached is there and that nothing else comes with what belongs to it.
Section(t) ==
  LET b == branch[t]
      owed == IF t = "information" THEN "answer" ELSE "verdict"
      reached == b.status = "answered" /\ owed \in b.holds
  IN  [status |-> IF b.status # "answered" \/ reached THEN b.status
                  ELSE IF t = "information" THEN "declined" ELSE "not_settled_by_rules",
       holds |-> IF reached THEN b.holds ELSE b.holds \ {owed},
       cited |-> b.cited,
       missing |-> IF b.status = "missing_required_facts" THEN b.missing ELSE {},
       checks |-> IF reached THEN b.checks ELSE {}]

\* cross_out_to_the_reader and build_envelope: the texts come back whole, and none
\* of them empty, or the evaluation raises.
Serve ==
  /\ Reported
  /\ \/ /\ pc' = "served"
        /\ receipt' = [t \in Tracks |-> IF t \in asked THEN Section(t) ELSE Nothing]
     \/ /\ language = "other"
        /\ pc' = "raised"
        /\ UNCHANGED receipt
  /\ UNCHANGED <<language, catalogue, call, read, asked, reply, branch>>

Next ==
  \/ CrossIn \/ Classify \/ Serve
  \/ \E c \in Calls : Garbled(c) \/ RefuseEffort(c) \/ Break(c)
  \/ \E s \in Samples, reading \in Readings : Sample(s, reading)
  \/ \E r \in Informations : Inform(r)
  \/ \E r \in Decisions : Decide(r)

Spec == Init /\ [][Next]_vars

Expires(c, attempt) == call[c] = attempt /\ Break(c)

\* Every attempt at a call has a timeout; the rest is the event loop's.
FairSpec ==
  /\ Spec
  /\ WF_vars(CrossIn) /\ WF_vars(Classify) /\ WF_vars(Serve)
  /\ \A c \in Calls, attempt \in InFlight : WF_vars(Expires(c, attempt))

-----------------------------------------------------------------------------
Keyed == UNION {{Resolve(k, n) : n \in Names} : k \in Catalogues}

Branch ==
  [status : DecisionStatuses \cup {"none", "failed"}, holds : SUBSET Texts,
   cited : SUBSET RuleIds, missing : SUBSET Keyed, checks : SUBSET Keyed]

TypeOK ==
  /\ pc \in {"crossing", "reading", "gathering", "served", "raised"}
  /\ language \in {"processing", "other", "unknown"}
  /\ catalogue \in Catalogues
  /\ call \in [Calls -> InFlight \cup {"idle", "answered", "failed"}]
  /\ read \in [Samples -> Readings \cup {Unread}]
  /\ asked \subseteq Tracks
  /\ reply \in [Tracks -> Information \cup Decision]
  /\ branch \in [Tracks -> Branch]
  /\ receipt \in [Tracks -> Branch]

Heard(t) == pc = "served" /\ call[t] = "answered"

\* A reply that decides the case: it says so or says nothing else, shows a verdict and
\* an answer, cites a retained rule, answers what was asked, accounts for all it was
\* given, and waits for nothing under any name, known or not, in any list.
Decisive(r) ==
  /\ r.status \in {"answered", "unrecognised"}
  /\ {"answer", "verdict"} \subseteq r.holds /\ "declined" \notin r.holds
  /\ Cited(r) # {}
  /\ r.facts = {} /\ r.hinges = {}
  /\ r.settles # "no"
  /\ AccountsForEvidence(r)

\* A reply that bears on the case and names a fact the records know as outstanding,
\* however it labels itself, short of declining.
Blocked(r) ==
  /\ r.status \notin {"no_rule_bears", "declined"}
  /\ "answer" \in r.holds /\ "declined" \notin r.holds
  /\ Cited(r) # {}
  /\ \E n \in r.facts \cup r.hinges : Resolve(catalogue, n) # "none"

\* A verdict is served for a decisive reply and for no other, and comes with every
\* condition the reply names and the records know; missing facts are served for a
\* blocked reply and for no other, and they are all that it waits for.
StatusIsEarned ==
  Heard("verdict") =>
    LET r == reply["verdict"]
        s == receipt["verdict"]
    IN  /\ s.status = "answered" <=> Decisive(r)
        /\ s.status = "missing_required_facts" <=> Blocked(r)
        /\ s.missing = IF Blocked(r) THEN Keys(catalogue, r.facts \cup r.hinges) ELSE {}
        /\ s.checks = IF Decisive(r) THEN Keys(catalogue, r.checks) ELSE {}
        /\ "verdict" \in s.holds <=> Decisive(r)

\* Every track that was asked for is in the receipt and no other, with what it made of
\* its own reply, whatever became of the other; and no track's call is left running
\* when the evaluation is over, however it ended.
EachTrackIsReported ==
  /\ pc = "served" =>
       /\ asked # {}
       /\ receipt = branch
       /\ \A t \in Tracks :
            /\ t \in asked <=> receipt[t].status # "none"
            /\ call[t] = "failed" <=> receipt[t].status = "failed"
            /\ receipt[t].status \in {"answered", "missing_required_facts", "not_settled_by_rules"}
                 => receipt[t].cited # {} /\ receipt[t].cited \subseteq reply[t].cited
  /\ pc \in {"served", "raised"} => \A t \in Tracks : call[t] \notin InFlight

\* Whatever the model returns or fails to, the evaluation comes to an end.
EvaluationEnds == <>(pc \in {"served", "raised"})
=============================================================================
