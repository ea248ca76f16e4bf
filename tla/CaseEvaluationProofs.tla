------------------------- MODULE CaseEvaluationProofs -------------------------
(***************************************************************************)
(* Theorems about CaseEvaluation, for any number of readings and of pieces *)
(* of evidence, and any replies.                                           *)
(***************************************************************************)
EXTENDS CaseEvaluation, TLAPS

-----------------------------------------------------------------------------
(* What a reply becomes.                                                     *)

LEMMA EmptyIs ==
  ASSUME NEW s
  PROVE  Empty(s) = [status |-> s, holds |-> {}, cited |-> {}, missing |-> {}, checks |-> {}]
BY DEF Empty, Nothing

LEMMA EmptyTyped ==
  ASSUME NEW s \in DecisionStatuses \cup {"none", "failed"}
  PROVE  Empty(s) \in Branch
BY EmptyIs DEF Branch

LEMMA NothingTyped == Nothing \in Branch /\ Nothing.status = "none"
BY DEF Nothing, Branch

LEMMA KeysTyped ==
  ASSUME NEW k \in Catalogues, NEW names \in SUBSET Names
  PROVE  Keys(k, names) \in SUBSET Keyed
BY DEF Keys, Keyed

LEMMA LabelledTyped ==
  ASSUME NEW k, NEW r
  PROVE  Labelled(r, k) \in DecisionStatuses
BY DEF Labelled, DecisionStatuses

\* Every repair ends in a status of the decision.
LEMMA StatusesTyped ==
  ASSUME NEW k \in Catalogues, NEW r \in Decision
  PROVE  /\ Labelled(r, k) \in DecisionStatuses
         /\ Waiting(r, k) \in DecisionStatuses
         /\ Explained(r, k) \in DecisionStatuses
         /\ Settled(r, k) \in DecisionStatuses
<1>1. Labelled(r, k) \in DecisionStatuses
  BY LabelledTyped
<1>2. Waiting(r, k) \in DecisionStatuses
  BY <1>1 DEF Waiting, DecisionStatuses
<1>3. Explained(r, k) \in DecisionStatuses
  BY <1>2 DEF Explained, DecisionStatuses
<1>4. Settled(r, k) \in DecisionStatuses
  BY <1>3 DEF Settled, DecisionStatuses
<1>5. QED
  BY <1>1, <1>2, <1>3, <1>4

\* A verdict holds a decision that was reached and nothing else does; only what is
\* missing names missing facts.
Coherent(t, b) ==
  /\ b.status = "answered" <=> (IF t = "information" THEN "answer" ELSE "verdict") \in b.holds
  /\ b.status # "missing_required_facts" => b.missing = {}
  /\ b.status # "answered" => b.checks = {}

LEMMA EmptyCoherent ==
  ASSUME NEW t, NEW s, s # "answered"
  PROVE  Coherent(t, Empty(s))
BY EmptyIs DEF Coherent

LEMMA NothingCoherent == \A t : Coherent(t, Nothing)
BY DEF Coherent, Nothing

LEMMA InformedTyped ==
  ASSUME NEW r \in Information
  PROVE  /\ Informed(r) \in Branch
         /\ Informed(r).status \in {"answered", "no_rule_bears", "declined"}
         /\ Informed(r).status = "answered" => Informed(r).cited = Cited(r) /\ Cited(r) # {}
         /\ Coherent("information", Informed(r))
<1>1. CASE Informed(r) = [Empty("answered") EXCEPT !.holds = {"answer"}, !.cited = Cited(r)]
             /\ Cited(r) # {}
  <2>1. Informed(r) = [status |-> "answered", holds |-> {"answer"}, cited |-> Cited(r),
                       missing |-> {}, checks |-> {}]
    BY <1>1, EmptyIs
  <2>2. Cited(r) \in SUBSET RuleIds
    BY DEF Cited
  <2>3. Informed(r) \in Branch
    <3>1. {"answer"} \in SUBSET Texts /\ {} \in SUBSET Keyed
      BY DEF Texts
    <3>2. "answered" \in DecisionStatuses \cup {"none", "failed"}
      BY DEF DecisionStatuses
    <3>3. QED
      BY <2>1, <2>2, <3>1, <3>2 DEF Branch
  <2>4. Coherent("information", Informed(r))
    BY <2>1 DEF Coherent
  <2>5. Cited(r) # {}
    BY <1>1
  <2>6. Informed(r).status = "answered" /\ Informed(r).cited = Cited(r)
    BY <2>1
  <2>7. QED
    BY <2>3, <2>4, <2>5, <2>6
<1>2. CASE Informed(r) = Empty("declined") \/ Informed(r) = Empty("no_rule_bears")
  BY <1>2, EmptyIs, EmptyTyped, EmptyCoherent DEF DecisionStatuses
<1>3. QED
  BY <1>1, <1>2 DEF Informed

LEMMA DecidedTyped ==
  ASSUME NEW k \in Catalogues, NEW r \in Decision
  PROVE  /\ Decided(r, k) \in Branch
         /\ Decided(r, k).status \in DecisionStatuses
         /\ Decided(r, k).status \in {"answered", "missing_required_facts", "not_settled_by_rules"}
              => Decided(r, k).cited = Cited(r) /\ Cited(r) # {}
         /\ Coherent("verdict", Decided(r, k))
<1>1. CASE \/ "declined" \in r.holds
           \/ Labelled(r, k) = "no_rule_bears" \/ Cited(r) = {}
           \/ Settled(r, k) = "declined"
  <2>1. Decided(r, k) = Empty("declined") \/ Decided(r, k) = Empty("no_rule_bears")
    BY <1>1 DEF Decided
  <2>2. QED
    BY <2>1, EmptyIs, EmptyTyped, EmptyCoherent DEF DecisionStatuses
<1>2. CASE ~ (\/ "declined" \in r.holds
              \/ Labelled(r, k) = "no_rule_bears" \/ Cited(r) = {}
              \/ Settled(r, k) = "declined")
  <2> DEFINE d == Decided(r, k)
  <2>1. d = [status |-> Settled(r, k),
             holds |-> {"answer"} \cup (IF Settled(r, k) = "answered" THEN {"verdict"} ELSE {}),
             cited |-> Cited(r),
             missing |-> IF Settled(r, k) = "missing_required_facts"
                         THEN Outstanding(r, k) ELSE {},
             checks |-> IF Settled(r, k) = "answered" THEN Conditions(r, k) ELSE {}]
    BY <1>2 DEF Decided
  <2>2. Settled(r, k) \in DecisionStatuses
    BY StatusesTyped
  <2>3. Cited(r) \in SUBSET RuleIds /\ Cited(r) # {}
    BY <1>2 DEF Cited
  <2>4. r.facts \cup r.hinges \in SUBSET Names /\ r.checks \in SUBSET Names
    BY DEF Decision
  <2>5. Outstanding(r, k) \in SUBSET Keyed /\ Conditions(r, k) \in SUBSET Keyed
    BY <2>4, KeysTyped DEF Outstanding, Conditions
  <2>6. d \in Branch
    BY <2>1, <2>2, <2>3, <2>5 DEF Branch, Texts
  <2>7. Coherent("verdict", d)
    BY <2>1 DEF Coherent
  <2>8. QED
    BY <2>1, <2>2, <2>3, <2>6, <2>7
<1>3. QED
  BY <1>1, <1>2

\* The sections repeat what the tracks made of it.
LEMMA SectionKeeps ==
  ASSUME NEW t \in Tracks, branch[t] \in Branch, Coherent(t, branch[t])
  PROVE  Section(t) = branch[t]
<1> DEFINE b == branch[t]
           owed == IF t = "information" THEN "answer" ELSE "verdict"
           reached == b.status = "answered" /\ owed \in b.holds
<1>1. b = [status |-> b.status, holds |-> b.holds, cited |-> b.cited, missing |-> b.missing,
           checks |-> b.checks]
  BY DEF Branch
<1>2. reached <=> b.status = "answered"
  BY DEF Coherent
<1>3. ~reached => b.holds \ {owed} = b.holds /\ b.checks = {}
  BY DEF Coherent
<1>4. b.status # "missing_required_facts" => b.missing = {}
  BY DEF Coherent
<1>5. Section(t) =
        [status |-> IF b.status # "answered" \/ reached THEN b.status
                    ELSE IF t = "information" THEN "declined" ELSE "not_settled_by_rules",
         holds |-> IF reached THEN b.holds ELSE b.holds \ {owed},
         cited |-> b.cited,
         missing |-> IF b.status = "missing_required_facts" THEN b.missing ELSE {},
         checks |-> IF reached THEN b.checks ELSE {}]
  BY DEF Section
<1> HIDE DEF b, owed, reached
<1>6. QED
  BY <1>1, <1>2, <1>3, <1>4, <1>5 DEF b
\* What the repairs of a reply amount to, one after the other.
LEMMA RepairsAreRight ==
  ASSUME NEW r \in Decision
  PROVE  LET d == Decided(r, catalogue)
         IN  /\ d.status = "answered" <=> Decisive(r)
             /\ d.status = "missing_required_facts" <=> Blocked(r)
             /\ d.missing = IF Blocked(r) THEN Keys(catalogue, r.facts \cup r.hinges) ELSE {}
             /\ d.checks = IF Decisive(r) THEN Keys(catalogue, r.checks) ELSE {}
             /\ "verdict" \in d.holds <=> Decisive(r)
<1> DEFINE k == catalogue
           d == Decided(r, k)
           known == \E n \in r.facts \cup r.hinges : Resolve(k, n) # "none"
           shown == "answer" \in r.holds
           through == "declined" \notin r.holds /\ Labelled(r, k) # "no_rule_bears" /\ Cited(r) # {}
<1>1. Outstanding(r, k) # {} <=> known
  BY DEF Outstanding, Keys
<1>2. r.facts = {} /\ r.hinges = {} <=> ~known /\ ~Refused(r, k)
  BY DEF Refused
<1>3. r.status \in DecisionStatuses \cup {"unrecognised"} /\ "unrecognised" \notin DecisionStatuses
  BY DEF Decision, DecisionStatuses
<1>4. Labelled(r, k) = "answered" <=>
        r.status = "answered" \/ (r.status = "unrecognised" /\ ~known /\ Cited(r) # {} /\ shown)
  BY <1>1, <1>3 DEF Labelled, DecisionStatuses
<1>5. known => (Labelled(r, k) \in {"no_rule_bears", "declined"}
                  <=> r.status \in {"no_rule_bears", "declined"})
  BY <1>1, <1>3 DEF Labelled, DecisionStatuses
<1>6. Waiting(r, k) = "answered" <=>
        Labelled(r, k) = "answered" /\ ~known /\ ~Refused(r, k)
  BY <1>1 DEF Waiting
<1>7. known => (Waiting(r, k) = "missing_required_facts"
                  <=> Labelled(r, k) \notin {"no_rule_bears", "declined"})
  BY <1>1, LabelledTyped DEF Waiting, DecisionStatuses
<1>8. Settled(r, k) = "answered" <=>
        /\ Waiting(r, k) = "answered" /\ shown
        /\ "verdict" \in r.holds /\ r.settles # "no" /\ AccountsForEvidence(r)
  BY DEF Settled, Explained
<1>9. Settled(r, k) = "missing_required_facts" <=>
        Waiting(r, k) = "missing_required_facts" /\ known /\ shown
  BY <1>1 DEF Settled, Explained
<1>10. (through /\ Settled(r, k) = "answered") <=> Decisive(r)
  BY <1>2, <1>4, <1>6, <1>8 DEF Decisive
<1>11. (through /\ Settled(r, k) = "missing_required_facts") <=> Blocked(r)
  BY <1>5, <1>7, <1>9 DEF Blocked
<1>12. CASE ~through \/ Settled(r, k) = "declined"
  <2>1. d = Empty("declined") \/ d = Empty("no_rule_bears")
    BY <1>12 DEF Decided
  <2>2. ~Decisive(r) /\ ~Blocked(r)
    BY <1>10, <1>11, <1>12
  <2>3. QED
    BY <2>1, <2>2, EmptyIs
<1>13. CASE through /\ Settled(r, k) # "declined"
  <2>1. d = [status |-> Settled(r, k),
             holds |-> {"answer"} \cup (IF Settled(r, k) = "answered" THEN {"verdict"} ELSE {}),
             cited |-> Cited(r),
             missing |-> IF Settled(r, k) = "missing_required_facts"
                         THEN Outstanding(r, k) ELSE {},
             checks |-> IF Settled(r, k) = "answered" THEN Conditions(r, k) ELSE {}]
    BY <1>13 DEF Decided
  <2>2. Settled(r, k) = "answered" <=> Decisive(r)
    BY <1>10, <1>13
  <2>3. Settled(r, k) = "missing_required_facts" <=> Blocked(r)
    BY <1>11, <1>13
  <2>4. Decisive(r) => Conditions(r, k) = Keys(k, r.checks)
    BY <1>1, <1>2 DEF Decisive, Conditions
  <2>5. Outstanding(r, k) = Keys(k, r.facts \cup r.hinges)
    BY DEF Outstanding
  <2>6. d.checks = IF Decisive(r) THEN Keys(k, r.checks) ELSE {}
    BY <2>1, <2>2, <2>4
  <2>7. d.missing = IF Blocked(r) THEN Keys(k, r.facts \cup r.hinges) ELSE {}
    BY <2>1, <2>3, <2>5
  <2>8. "verdict" \in d.holds <=> Decisive(r)
    BY <2>1, <2>2
  <2>9. QED
    BY <2>1, <2>2, <2>3, <2>6, <2>7, <2>8
<1>14. QED
  BY <1>12, <1>13
-----------------------------------------------------------------------------
(* Type correctness.                                                         *)

LEMMA CallsSplit ==
  /\ \A c \in Calls : c \in Samples <=> c \notin Tracks
  /\ \A c \in Calls : c \in Samples \/ c \in Tracks
BY CaseEvaluationAssumption DEF Calls

LEMMA RequestedIs == Requested \in SUBSET Tracks /\ Requested # {}
BY DEF Requested, Tracks

LEMMA UnreadTyped == Unread \in [Tracks -> Votes]
BY DEF Unread, Votes

LEMMA NoReplyTyped == NoReply \in Information
BY DEF NoReply, Information

LEMMA FailsTyped ==
  ASSUME TypeOK, NEW c \in Calls, Fails(c)
  PROVE  /\ pc' \in {"crossing", "reading", "gathering", "served", "raised"}
         /\ call' \in [Calls -> InFlight \cup {"idle", "answered", "failed"}]
         /\ branch' \in [Tracks -> Branch]
<1>1. Empty("failed") \in Branch
  BY EmptyTyped
<1>2. QED
  BY <1>1, CallsSplit DEF Fails, TypeOK

LEMMA SectionTyped ==
  ASSUME NEW t \in Tracks, branch[t] \in Branch
  PROVE  Section(t) \in Branch
<1> DEFINE b == branch[t]
           owed == IF t = "information" THEN "answer" ELSE "verdict"
           reached == b.status = "answered" /\ owed \in b.holds
           status == IF b.status # "answered" \/ reached THEN b.status
                     ELSE IF t = "information" THEN "declined" ELSE "not_settled_by_rules"
           holds == IF reached THEN b.holds ELSE b.holds \ {owed}
           missing == IF b.status = "missing_required_facts" THEN b.missing ELSE {}
           checks == IF reached THEN b.checks ELSE {}
<1>1. status \in DecisionStatuses \cup {"none", "failed"}
  BY DEF Branch, DecisionStatuses
<1>2. holds \in SUBSET Texts
  BY DEF Branch
<1>3. b.cited \in SUBSET RuleIds /\ missing \in SUBSET Keyed /\ checks \in SUBSET Keyed
  BY DEF Branch
<1>4. Section(t) = [status |-> status, holds |-> holds, cited |-> b.cited,
                    missing |-> missing, checks |-> checks]
  BY DEF Section
<1> HIDE DEF b, owed, reached, status, holds, missing, checks
<1>5. QED
  BY <1>1, <1>2, <1>3, <1>4 DEF Branch

\* Every step keeps every variable in its type.
THEOREM TypeStep ==
  ASSUME TypeOK, [Next]_vars
  PROVE  TypeOK'
<1> USE DEF TypeOK
<1>1. CASE CrossIn
  BY <1>1 DEF CrossIn, InFlight
<1>2. CASE Classify
  <2>1. Nothing \in Branch /\ Empty("declined") \in Branch
    BY NothingTyped, EmptyTyped DEF DecisionStatuses
  <2>2. PICK oversize \in {{}, {"verdict"}, Tracks} :
       /\ call' = [c \in Calls |-> IF c \in Requested \ oversize THEN "first" ELSE "idle"]
       /\ branch' = [t \in Tracks |-> IF t \in Requested \cap oversize
                                      THEN Empty("declined") ELSE Nothing]
    BY <1>2 DEF Classify
  <2>3. branch' \in [Tracks -> Branch]
    BY <2>1, <2>2
  <2>4. call' \in [Calls -> InFlight \cup {"idle", "answered", "failed"}]
    BY <2>2 DEF InFlight
  <2>5. asked' \in SUBSET Tracks
    BY <1>2, RequestedIs DEF Classify
  <2>6. read' \in [Samples -> Readings \cup {Unread}]
    BY <1>2 DEF Classify
  <2>7. QED
    BY <1>2, <2>3, <2>4, <2>5, <2>6 DEF Classify
<1>3. CASE Serve
  <2>1. \A t \in Tracks : Section(t) \in Branch
    BY SectionTyped
  <2>2. receipt' \in [Tracks -> Branch]
    <3>1. CASE receipt' = [t \in Tracks |-> IF t \in asked THEN Section(t) ELSE Nothing]
      BY <2>1, <3>1, NothingTyped
    <3>2. CASE UNCHANGED receipt
      BY <3>2
    <3>3. QED
      BY <1>3, <3>1, <3>2 DEF Serve
  <2>3. QED
    BY <1>3, <2>2 DEF Serve
<1>4. ASSUME NEW c \in Calls, Garbled(c)
      PROVE  TypeOK'
  <2>1. CASE Fails(c)
    BY <1>4, <2>1, FailsTyped DEF Garbled
  <2>2. CASE call' = [call EXCEPT ![c] = NextAttempt[@]] /\ call[c] \in DOMAIN NextAttempt
               /\ UNCHANGED <<pc, branch>>
    <3>1. NextAttempt[call[c]] \in InFlight
      BY <2>2 DEF NextAttempt, InFlight
    <3>2. QED
      BY <1>4, <2>2, <3>1 DEF Garbled
  <2>3. QED
    BY <1>4, <2>1, <2>2 DEF Garbled
<1>5. ASSUME NEW c \in Calls, RefuseEffort(c)
      PROVE  TypeOK'
  <2>1. Plain[call[c]] \in InFlight
    BY <1>5 DEF RefuseEffort, Plain, InFlight
  <2>2. QED
    BY <1>5, <2>1 DEF RefuseEffort
<1>6. ASSUME NEW c \in Calls, Break(c)
      PROVE  TypeOK'
  BY <1>6, FailsTyped DEF Break
<1>7. ASSUME NEW s \in Samples, NEW reading \in Readings, Sample(s, reading)
      PROVE  TypeOK'
  BY <1>7 DEF Sample, Calls
<1>8. ASSUME NEW r \in Informations, Inform(r)
      PROVE  TypeOK'
  <2>1. r \in Information /\ Informed(r) \in Branch
    BY CaseEvaluationAssumption, InformedTyped
  <2>2. "information" \in Tracks /\ "information" \in Calls
    BY DEF Tracks, Calls
  <2>3. QED
    BY <1>8, <2>1, <2>2 DEF Inform, Return
<1>9. ASSUME NEW r \in Decisions, Decide(r)
      PROVE  TypeOK'
  <2>1. r \in Decision /\ Decided(r, catalogue) \in Branch
    BY CaseEvaluationAssumption, DecidedTyped
  <2>2. "verdict" \in Tracks /\ "verdict" \in Calls
    BY DEF Tracks, Calls
  <2>3. QED
    BY <1>9, <2>1, <2>2 DEF Decide, Return
<1>10. CASE UNCHANGED vars
  BY <1>10 DEF vars
<1>11. QED
  BY <1>1, <1>2, <1>3, <1>4, <1>5, <1>6, <1>7, <1>8, <1>9, <1>10 DEF Next
-----------------------------------------------------------------------------
(* The inductive invariant.                                                  *)

\* What a track that answered made of its reply.
AnswersItsReply(t) ==
  IF t = "information" THEN reply[t] \in Information /\ branch[t] = Informed(reply[t])
  ELSE reply[t] \in Decision /\ branch[t] = Decided(reply[t], catalogue)

\* The call of a track says what its branch may be.
TrackInv(t) ==
  /\ call[t] \in InFlight => pc = "gathering" /\ t \in asked /\ branch[t] = Nothing
  /\ call[t] = "idle" => branch[t] = IF t \in asked THEN Empty("declined") ELSE Nothing
  /\ call[t] = "failed" => t \in asked /\ branch[t] = Empty("failed")
  /\ call[t] = "answered" => t \in asked /\ AnswersItsReply(t)

\* No track is asked for before the readings are all there.
AskedInv ==
  /\ pc \in {"crossing", "reading"} => asked = {}
  /\ pc \in {"gathering", "served"} => asked # {}

ServedInv == pc = "served" => receipt = branch

IInv ==
  /\ TypeOK
  /\ \A t \in Tracks : TrackInv(t)
  /\ AskedInv
  /\ ServedInv

LEMMA InitIInv ==
  ASSUME Init
  PROVE  IInv
<1>1. TypeOK
  <2>1. NoReply \in Information
    BY NoReplyTyped
  <2>2. QED
    BY <2>1, NothingTyped DEF Init, TypeOK
<1>2. \A t \in Tracks : TrackInv(t)
  BY DEF Init, TrackInv, Calls, InFlight
<1>3. AskedInv /\ ServedInv
  BY DEF Init, AskedInv, ServedInv
<1>4. QED
  BY <1>1, <1>2, <1>3 DEF IInv

\* What a track reports is coherent.
LEMMA TracksAreCoherent ==
  ASSUME IInv, NEW t \in Tracks
  PROVE  branch[t] \in Branch /\ Coherent(t, branch[t])
<1>1. branch[t] \in Branch
  BY DEF IInv, TypeOK
<1>2. call[t] \in InFlight \cup {"idle", "answered", "failed"}
  BY DEF IInv, TypeOK, Calls
<1>3. CASE call[t] # "answered"
  <2>1. branch[t] \in {Nothing, Empty("declined"), Empty("failed")}
    BY <1>2, <1>3 DEF IInv, TrackInv
  <2>2. QED
    BY <1>1, <2>1, NothingCoherent, EmptyCoherent
<1>4. CASE call[t] = "answered"
  <2>1. AnswersItsReply(t) /\ catalogue \in Catalogues
    BY <1>4 DEF IInv, TrackInv, TypeOK
  <2>2. t = "information" \/ t = "verdict"
    BY DEF Tracks
  <2>3. QED
    BY <1>1, <2>1, <2>2, InformedTyped, DecidedTyped DEF AnswersItsReply
<1>5. QED
  BY <1>3, <1>4

\* A call is waited for by the readings or by the tracks.
LEMMA WaitingCall ==
  ASSUME IInv, NEW c \in Calls, Waits(c)
  PROVE  \/ c \in Samples /\ c \notin Tracks /\ pc = "reading"
         \/ /\ c \in Tracks /\ c \notin Samples /\ pc = "gathering"
            /\ c \in asked /\ branch[c] = Nothing
BY CallsSplit DEF IInv, TrackInv, Waits

\* While the question is read no track is at work.
LEMMA ReadingIsIdle ==
  ASSUME IInv, pc \in {"crossing", "reading"}, NEW t \in Tracks
  PROVE  asked = {} /\ call[t] = "idle" /\ branch[t] = Nothing
<1>1. call[t] \in InFlight \cup {"idle", "answered", "failed"}
  BY DEF IInv, TypeOK, Calls
<1>2. QED
  BY <1>1 DEF IInv, TrackInv, AskedInv

\* Another attempt.
LEMMA RetriedKeeps ==
  ASSUME IInv, NEW c \in Calls, Waits(c), NEW x \in InFlight, TypeOK',
         call' = [call EXCEPT ![c] = x],
         UNCHANGED <<pc, catalogue, asked, reply, branch, receipt>>
  PROVE  IInv'
<1>1. call \in [Calls -> InFlight \cup {"idle", "answered", "failed"}]
  BY DEF IInv, TypeOK
<1>2. ASSUME NEW t \in Tracks
      PROVE  TrackInv(t)'
  <2>1. CASE t # c
    BY <1>1, <1>2, <2>1 DEF IInv, TrackInv, AnswersItsReply, Calls
  <2>2. CASE t = c
    BY <1>1, <1>2, <2>2, WaitingCall DEF TrackInv, InFlight
  <2>3. QED
    BY <2>1, <2>2
<1>3. AskedInv' /\ ServedInv'
  BY DEF IInv, AskedInv, ServedInv
<1>4. QED
  BY <1>2, <1>3 DEF IInv

\* A call that fails.
LEMMA FailedKeeps ==
  ASSUME IInv, NEW c \in Calls, Waits(c), Fails(c), TypeOK',
         UNCHANGED <<catalogue, asked, reply, receipt>>
  PROVE  IInv'
<1>1. /\ call \in [Calls -> InFlight \cup {"idle", "answered", "failed"}]
      /\ branch \in [Tracks -> Branch]
  BY DEF IInv, TypeOK
<1>2. call' = [call EXCEPT ![c] = "failed"]
  BY DEF Fails
<1>3. CASE c \in Samples
  <2>1. pc = "reading" /\ c \notin Tracks /\ pc' = "raised" /\ branch' = branch
    BY <1>3, WaitingCall, CallsSplit DEF Fails
  <2>2. ASSUME NEW t \in Tracks
        PROVE  TrackInv(t)'
    <3>1. call'[t] = "idle" /\ branch'[t] = Nothing /\ asked' = {}
      BY <1>1, <1>2, <2>1, ReadingIsIdle DEF Calls
    <3>2. QED
      BY <3>1 DEF TrackInv, InFlight
  <2>3. AskedInv' /\ ServedInv'
    BY <2>1 DEF AskedInv, ServedInv
  <2>4. QED
    BY <2>2, <2>3 DEF IInv
<1>4. CASE c \notin Samples
  <2>1. /\ c \in Tracks /\ pc = "gathering" /\ c \in asked /\ pc' = pc
        /\ branch' = [branch EXCEPT ![c] = Empty("failed")]
    BY <1>4, WaitingCall DEF Fails
  <2>2. ASSUME NEW t \in Tracks
        PROVE  TrackInv(t)'
    <3>1. CASE t # c
      <4>1. call'[t] = call[t] /\ branch'[t] = branch[t]
        BY <1>1, <1>2, <2>1, <3>1 DEF Calls
      <4>2. QED
        BY <2>1, <4>1 DEF IInv, TrackInv, AnswersItsReply
    <3>2. CASE t = c
      BY <1>1, <1>2, <2>1, <3>2 DEF TrackInv, InFlight
    <3>3. QED
      BY <3>1, <3>2
  <2>3. AskedInv' /\ ServedInv'
    BY <2>1 DEF IInv, AskedInv, ServedInv
  <2>4. QED
    BY <2>2, <2>3 DEF IInv
<1>5. QED
  BY <1>3, <1>4

\* A track that answers.
LEMMA ReturnedKeeps ==
  ASSUME IInv, NEW t \in Tracks, NEW r, NEW answer, Return(t, r, answer), TypeOK',
         AnswersItsReply(t)'
  PROVE  IInv'
<1>1. /\ call \in [Calls -> InFlight \cup {"idle", "answered", "failed"}]
      /\ branch \in [Tracks -> Branch]
      /\ DOMAIN reply = Tracks
  BY DEF IInv, TypeOK
<1>2. t \in Calls /\ pc = "gathering" /\ t \in asked
  BY WaitingCall, CallsSplit DEF Return, Calls
<1>3. ASSUME NEW u \in Tracks
      PROVE  TrackInv(u)'
  <2>1. CASE u # t
    <3>1. call'[u] = call[u] /\ branch'[u] = branch[u] /\ reply'[u] = reply[u]
      BY <1>1, <2>1 DEF Return, Calls
    <3>2. QED
      BY <3>1 DEF IInv, TrackInv, AnswersItsReply, Return
  <2>2. CASE u = t
    BY <1>1, <1>2, <2>2 DEF TrackInv, InFlight, Return
  <2>3. QED
    BY <2>1, <2>2
<1>4. AskedInv' /\ ServedInv'
  BY <1>2 DEF IInv, AskedInv, ServedInv, Return
<1>5. QED
  BY <1>3, <1>4 DEF IInv
LEMMA ClassifyKeeps ==
  ASSUME IInv, Classify, TypeOK'
  PROVE  IInv'
<1>1. PICK oversize \in {{}, {"verdict"}, Tracks} :
       /\ call' = [c \in Calls |-> IF c \in Requested \ oversize THEN "first" ELSE "idle"]
       /\ branch' = [t \in Tracks |-> IF t \in Requested \cap oversize
                                      THEN Empty("declined") ELSE Nothing]
  BY DEF Classify
<1>2. pc' = "gathering" /\ asked' = Requested /\ asked' # {}
  BY RequestedIs DEF Classify
<1>3. ASSUME NEW t \in Tracks
      PROVE  TrackInv(t)'
  <2>1. call'[t] = IF t \in Requested \ oversize THEN "first" ELSE "idle"
    BY <1>1 DEF Calls
  <2>2. branch'[t] = IF t \in Requested \cap oversize THEN Empty("declined") ELSE Nothing
    BY <1>1
  <2>3. QED
    BY <1>2, <2>1, <2>2 DEF TrackInv, InFlight
<1>4. AskedInv' /\ ServedInv'
  BY <1>2 DEF AskedInv, ServedInv
<1>5. QED
  BY <1>3, <1>4 DEF IInv

LEMMA ServeKeeps ==
  ASSUME IInv, Serve, TypeOK'
  PROVE  IInv'
<1>1. pc = "gathering" /\ (\A t \in asked : branch[t] # Nothing)
  BY DEF Serve, Reported
<1>2. ASSUME NEW t \in Tracks
      PROVE  TrackInv(t)'
  <2>1. call[t] \notin InFlight
    BY <1>1 DEF IInv, TrackInv
  <2>2. QED
    BY <2>1 DEF IInv, TrackInv, AnswersItsReply, Serve
<1>3. AskedInv'
  BY <1>1 DEF IInv, AskedInv, Serve
<1>4. ServedInv'
  <2>1. CASE receipt' = [t \in Tracks |-> IF t \in asked THEN Section(t) ELSE Nothing]
    <3>1. \A t \in Tracks : Section(t) = branch[t]
      BY TracksAreCoherent, SectionKeeps
    <3>2. \A t \in Tracks : t \notin asked => branch[t] = Nothing
      BY DEF IInv, TrackInv, TypeOK, Calls
    <3>3. branch \in [Tracks -> Branch]
      BY DEF IInv, TypeOK
    <3>4. receipt' = branch
      BY <2>1, <3>1, <3>2, <3>3
    <3>5. QED
      BY <3>4 DEF Serve, ServedInv
  <2>2. CASE pc' = "raised"
    BY <2>2 DEF ServedInv
  <2>3. QED
    BY <2>1, <2>2 DEF Serve
<1>5. QED
  BY <1>2, <1>3, <1>4 DEF IInv

\* The invariant is inductive.
THEOREM StepIInv ==
  ASSUME IInv, [Next]_vars
  PROVE  IInv'
<1>0. TypeOK'
  BY TypeStep DEF IInv
<1>1. CASE CrossIn
  <2>1. ASSUME NEW t \in Tracks
        PROVE  TrackInv(t)'
    <3>1. pc = "crossing" /\ asked' = {} /\ branch'[t] = Nothing /\ call[t] = "idle"
      BY <1>1, ReadingIsIdle DEF CrossIn
    <3>2. call'[t] = "idle"
      BY <1>1, <3>1, CallsSplit DEF CrossIn, Calls
    <3>3. QED
      BY <3>1, <3>2 DEF TrackInv, InFlight
  <2>2. AskedInv' /\ ServedInv'
    BY <1>1 DEF IInv, AskedInv, ServedInv, CrossIn
  <2>3. QED
    BY <1>0, <2>1, <2>2 DEF IInv
<1>2. CASE Classify
  BY <1>0, <1>2, ClassifyKeeps
<1>3. CASE Serve
  BY <1>0, <1>3, ServeKeeps
<1>4. ASSUME NEW c \in Calls, Garbled(c)
      PROVE  IInv'
  <2>1. Waits(c) /\ UNCHANGED <<language, catalogue, read, asked, reply, receipt>>
    BY <1>4 DEF Garbled
  <2>2. CASE Fails(c)
    BY <1>0, <2>1, <2>2, FailedKeeps
  <2>3. CASE call' = [call EXCEPT ![c] = NextAttempt[@]] /\ call[c] \in DOMAIN NextAttempt
               /\ UNCHANGED <<pc, branch>>
    <3>1. NextAttempt[call[c]] \in InFlight
      BY <2>3 DEF NextAttempt, InFlight
    <3>2. QED
      BY <1>0, <2>1, <2>3, <3>1, RetriedKeeps
  <2>4. QED
    BY <1>4, <2>2, <2>3 DEF Garbled
<1>5. ASSUME NEW c \in Calls, RefuseEffort(c)
      PROVE  IInv'
  <2>1. Plain[call[c]] \in InFlight
    BY <1>5 DEF RefuseEffort, Plain, InFlight
  <2>2. QED
    BY <1>0, <1>5, <2>1, RetriedKeeps DEF RefuseEffort
<1>6. ASSUME NEW c \in Calls, Break(c)
      PROVE  IInv'
  BY <1>0, <1>6, FailedKeeps DEF Break
<1>7. ASSUME NEW s \in Samples, NEW reading \in Readings, Sample(s, reading)
      PROVE  IInv'
  <2>1. call \in [Calls -> InFlight \cup {"idle", "answered", "failed"}]
    BY DEF IInv, TypeOK
  <2>2. \A t \in Tracks : call'[t] = call[t]
    BY <1>7, <2>1, CallsSplit DEF Sample, Calls
  <2>3. \A t \in Tracks : TrackInv(t)'
    BY <1>7, <2>2 DEF IInv, TrackInv, AnswersItsReply, Sample
  <2>4. AskedInv' /\ ServedInv'
    BY <1>7 DEF IInv, AskedInv, ServedInv, Sample
  <2>5. QED
    BY <1>0, <2>3, <2>4 DEF IInv
<1>8. ASSUME NEW r \in Informations, Inform(r)
      PROVE  IInv'
  <2>1. "information" \in Tracks /\ r \in Information
    BY CaseEvaluationAssumption DEF Tracks
  <2>2. AnswersItsReply("information")'
    BY <1>8, <2>1 DEF IInv, TypeOK, AnswersItsReply, Inform, Return
  <2>3. QED
    BY <1>0, <1>8, <2>1, <2>2, ReturnedKeeps DEF Inform
<1>9. ASSUME NEW r \in Decisions, Decide(r)
      PROVE  IInv'
  <2>1. "verdict" \in Tracks /\ r \in Decision
    BY CaseEvaluationAssumption DEF Tracks
  <2>2. AnswersItsReply("verdict")'
    BY <1>9, <2>1 DEF IInv, TypeOK, AnswersItsReply, Decide, Return
  <2>3. QED
    BY <1>0, <1>9, <2>1, <2>2, ReturnedKeeps DEF Decide
<1>10. CASE UNCHANGED vars
  <2>1. \A t \in Tracks : TrackInv(t)'
    BY <1>10 DEF IInv, TrackInv, AnswersItsReply, vars
  <2>2. AskedInv' /\ ServedInv'
    BY <1>10 DEF IInv, AskedInv, ServedInv, vars
  <2>3. QED
    BY <1>0, <2>1, <2>2 DEF IInv
<1>11. QED
  BY <1>1, <1>2, <1>3, <1>4, <1>5, <1>6, <1>7, <1>8, <1>9, <1>10 DEF Next

THEOREM InductiveInvariant == Spec => []IInv
BY InitIInv, StepIInv, PTL DEF Spec

-----------------------------------------------------------------------------
(* What follows from it.                                                     *)

\* Every variable stays in its type.
THEOREM TypeCorrect == Spec => []TypeOK
<1>1. IInv => TypeOK
  BY DEF IInv
<1>2. QED
  BY <1>1, InductiveInvariant, PTL

\* A verdict is served for the decisive replies and missing facts for the blocked ones,
\* whatever else a reply calls itself (_decision_from_parsed, _verdict_section).
THEOREM EarnedStatus == Spec => []StatusIsEarned
<1>1. IInv => StatusIsEarned
  <2>1. SUFFICES ASSUME IInv, Heard("verdict")
                 PROVE  StatusIsEarned
    BY DEF StatusIsEarned
  <2>2. "verdict" \in Tracks /\ pc = "served" /\ call["verdict"] = "answered"
    BY <2>1 DEF Heard, Tracks
  <2>3. /\ reply["verdict"] \in Decision
        /\ branch["verdict"] = Decided(reply["verdict"], catalogue)
    BY <2>1, <2>2 DEF IInv, TrackInv, AnswersItsReply
  <2>4. receipt["verdict"] = Decided(reply["verdict"], catalogue)
    BY <2>1, <2>2, <2>3 DEF IInv, ServedInv
  <2>5. QED
    BY <2>3, <2>4, RepairsAreRight DEF StatusIsEarned
<1>2. QED
  BY <1>1, InductiveInvariant, PTL

\* The receipt has what every track that was asked for made of its reply and nothing of
\* one that was not, and no call outlives the evaluation (gather, build_envelope).
THEOREM TracksAreReported == Spec => []EachTrackIsReported
<1>1. IInv => EachTrackIsReported
  <2>1. SUFFICES ASSUME IInv
                 PROVE  EachTrackIsReported
    OBVIOUS
  <2>2. ASSUME pc \in {"served", "raised"}, NEW t \in Tracks
        PROVE  call[t] \in {"idle", "answered", "failed"}
    BY <2>1, <2>2 DEF IInv, TrackInv, TypeOK, Calls
  <2>3. ASSUME pc = "served"
        PROVE  asked # {} /\ receipt = branch
    BY <2>1, <2>3 DEF IInv, AskedInv, ServedInv
  <2>4. ASSUME pc = "served", NEW t \in Tracks
        PROVE  /\ t \in asked <=> branch[t].status # "none"
               /\ call[t] = "failed" <=> branch[t].status = "failed"
               /\ branch[t].status \in {"answered", "missing_required_facts", "not_settled_by_rules"}
                    => branch[t].cited # {} /\ branch[t].cited \subseteq reply[t].cited
    <3>1. CASE call[t] = "idle"
      BY <2>1, <3>1, EmptyIs, NothingTyped DEF IInv, TrackInv, Nothing
    <3>2. CASE call[t] = "failed"
      BY <2>1, <3>2, EmptyIs DEF IInv, TrackInv
    <3>3. CASE call[t] = "answered"
      <4>1. t \in asked /\ AnswersItsReply(t) /\ catalogue \in Catalogues
        BY <2>1, <3>3 DEF IInv, TrackInv, TypeOK
      <4>2. Cited(reply[t]) \subseteq reply[t].cited
        BY DEF Cited
      <4>3. CASE t = "information"
        <5>1. branch[t] = Informed(reply[t]) /\ reply[t] \in Information
          BY <4>1, <4>3 DEF AnswersItsReply
        <5>2. QED
          BY <3>3, <4>1, <4>2, <5>1, InformedTyped
      <4>4. CASE t = "verdict"
        <5>1. branch[t] = Decided(reply[t], catalogue) /\ reply[t] \in Decision
          BY <4>1, <4>4 DEF AnswersItsReply
        <5>2. branch[t].status \in DecisionStatuses
          BY <4>1, <5>1, DecidedTyped
        <5>3. branch[t].status # "none" /\ branch[t].status # "failed"
          BY <5>2 DEF DecisionStatuses
        <5>4. QED
          BY <3>3, <4>1, <4>2, <5>1, <5>3, DecidedTyped
      <4>5. QED
        BY <4>3, <4>4 DEF Tracks
    <3>4. QED
      BY <2>2, <2>4, <3>1, <3>2, <3>3
  <2>5. ASSUME NEW t \in Tracks, pc \in {"served", "raised"}
        PROVE  call[t] \notin InFlight
    BY <2>2, <2>5 DEF InFlight
  <2>6. QED
    BY <2>3, <2>4, <2>5 DEF EachTrackIsReported
<1>2. QED
  BY <1>1, InductiveInvariant, PTL

=============================================================================
