------------------------- MODULE CaseDecisionProofs -------------------------
(***************************************************************************)
(* Proofs about CaseDecision for every number of calls, keys, requests and *)
(* verdicts, and every way in which commits may fail; and, where no commit *)
(* takes effect without being acknowledged, that it keeps the promise of   *)
(* DecisionRegister and what follows for those who are shown a verdict.    *)
(***************************************************************************)
EXTENDS CaseDecisionRegister, TLAPS

(***************************************************************************)
(* Type correctness.                                                       *)
(***************************************************************************)
LEMMA ResolutionType ==
  ASSUME NEW row \in Row, NEW request \in Requests
  PROVE  Resolution(row, request) \in Answers
BY DEF Resolution, Row, Answers, Refused, Codes, Refusals

LEMMA ResolveType ==
  ASSUME TypeOK, NEW c \in Calls, NEW d \in RowsForKey(input[c].key), Resolve(c, d)
  PROVE  answer' \in [Calls -> Answers] /\ shown' \subseteq Calls \X Envelopes
<1>1. d \in Calls /\ rows[d] \in Row /\ input[c].request \in Requests
  BY DEF RowsForKey, Exists, TypeOK, Inputs
<1> DEFINE a == Resolution(rows[d], input[c].request)
<1>2. a \in Answers
  BY <1>1, ResolutionType
<1>3. answer' = [answer EXCEPT ![c] = a] /\ Show(d, a.verdict)
  BY DEF Resolve, Reply
<1>4. a.verdict \in Envelopes \cup {NoVerdict}
  BY <1>2 DEF Answers
<1> HIDE DEF a
<1>5. QED
  BY <1>1, <1>2, <1>3, <1>4 DEF Show, TypeOK

LEMMA TypeInit == Init => TypeOK
BY DEF Init, TypeOK, Silence, Answers, Codes

LEMMA TypeStep == TypeOK /\ [Next]_vars => TypeOK'
<1> SUFFICES ASSUME TypeOK, [Next]_vars PROVE TypeOK'
  OBVIOUS
<1>1. ASSUME NEW c \in Calls, Arrive(c) PROVE TypeOK'
  <2>1. Refused("refused") \in Answers
    BY DEF Refused, Answers, Codes
  <2>2. answer' \in [Calls -> Answers]
    BY <1>1, <2>1 DEF Arrive, Reply, TypeOK
  <2>3. pc' \in [Calls -> InFlight \cup {"idle", "done", "lost"}]
    BY <1>1 DEF Arrive, Goto, InFlight, TypeOK
  <2>4. QED
    BY <1>1, <2>2, <2>3 DEF TypeOK, Arrive
<1>2. ASSUME NEW c \in Calls, LookUp(c) PROVE TypeOK'
  <2>1. answer' \in [Calls -> Answers] /\ shown' \subseteq Calls \X Envelopes
    BY <1>2, ResolveType DEF LookUp, TypeOK
  <2>2. QED
    BY <1>2, <2>1 DEF TypeOK, LookUp, Goto, InFlight
<1>3. ASSUME NEW c \in Calls, Reserve(c) PROVE TypeOK'
  <2>1. PendingRow(c) \in Row
    BY DEF PendingRow, Row, TypeOK, Inputs
  <2>2. Refused("decision_receipt_unavailable") \in Answers /\ answer[c] \in Answers
    BY DEF Refused, Answers, Codes, TypeOK
  <2>3. rows' \in [Calls -> Row \cup {NoRow}]
    BY <1>3, <2>1 DEF Reserve, TypeOK
  <2>4. answer' \in [Calls -> Answers]
    BY <1>3, <2>2 DEF Reserve, Reply, TypeOK
  <2>5. pc' \in [Calls -> InFlight \cup {"idle", "done", "lost"}]
    BY <1>3 DEF Reserve, Goto, InFlight, TypeOK
  <2>6. QED
    BY <1>3, <2>3, <2>4, <2>5 DEF Reserve, TypeOK
<1>4. ASSUME NEW c \in Calls, Reselect(c) PROVE TypeOK'
  <2>1. Refused("decision_reservation_conflict") \in Answers
    BY DEF Refused, Answers, Codes
  <2>2. answer' \in [Calls -> Answers] /\ shown' \subseteq Calls \X Envelopes
    BY <1>4, <2>1, ResolveType DEF Reselect, Reply, TypeOK
  <2>3. QED
    BY <1>4, <2>2 DEF TypeOK, Reselect, Goto, InFlight
<1>5. ASSUME NEW c \in Calls, CrossIn(c) PROVE TypeOK'
  BY <1>5 DEF TypeOK, CrossIn, Advance, Goto, InFlight, Faults
<1>6. ASSUME NEW c \in Calls, Decide(c) PROVE TypeOK'
  <2>1. decision' \in [Calls -> Envelopes \cup {NoVerdict}]
    BY <1>6 DEF Decide, TypeOK, Inputs, Envelopes
  <2>2. QED
    BY <1>6, <2>1 DEF TypeOK, Decide, Advance, Goto, InFlight, Faults
<1>7. ASSUME NEW c \in Calls, CrossOut(c) PROVE TypeOK'
  BY <1>7 DEF TypeOK, CrossOut, Advance, Goto, InFlight, Faults
<1>8. ASSUME NEW c \in Calls, Assemble(c) PROVE TypeOK'
  <2>1. Refused("internal_error") \in Answers
    BY DEF Refused, Answers, Codes
  <2>2. answer' \in [Calls -> Answers]
    BY <1>8, <2>1 DEF Assemble, Reply, TypeOK
  <2>3. pc' \in [Calls -> InFlight \cup {"idle", "done", "lost"}]
    BY <1>8 DEF Assemble, Goto, InFlight, TypeOK
  <2>4. QED
    BY <1>8, <2>2, <2>3 DEF TypeOK, Assemble
<1>9. ASSUME NEW c \in Calls, Finalise(c) PROVE TypeOK'
  <2>1. Exists(c) => CompletedRow(c) \in Row
    BY DEF TypeOK, Exists, CompletedRow, Row
  <2>2. rows' \in [Calls -> Row \cup {NoRow}]
    BY <1>9, <2>1 DEF Finalise, TypeOK, UpdateOutcomes
  <2>3. answer' \in [Calls -> Answers]
    BY <1>9 DEF Finalise, TypeOK, Reply, Answers, Codes
  <2>4. shown' \subseteq Calls \X Envelopes
    BY <1>9 DEF Finalise, TypeOK, Show
  <2>5. QED
    BY <1>9, <2>2, <2>3, <2>4 DEF TypeOK, Finalise, Goto, InFlight, Faults
<1>10. ASSUME NEW c \in Calls, Fail(c) PROVE TypeOK'
  <2>1. Exists(c) => FailedRow(c) \in Row
    BY DEF TypeOK, Exists, FailedRow, Row
  <2>2. rows' \in [Calls -> Row \cup {NoRow}]
    BY <1>10, <2>1 DEF Fail, TypeOK, UpdateOutcomes
  <2>3. answer' \in [Calls -> Answers]
    BY <1>10 DEF Fail, TypeOK, Reply, Refused, Answers, Codes
  <2>4. QED
    BY <1>10, <2>2, <2>3 DEF TypeOK, Fail, Goto, InFlight
<1>11. ASSUME NEW c \in Calls, Lose(c) PROVE TypeOK'
  BY <1>11 DEF TypeOK, Lose
<1>12. ASSUME NEW c \in Calls, ReadReceipt(c) PROVE TypeOK'
  <2>1. rows[c].response \in Envelopes
    BY <1>12 DEF ReadReceipt, Exists, TypeOK, Row
  <2>2. shown' \subseteq Calls \X Envelopes
    BY <1>12, <2>1 DEF ReadReceipt, Show, TypeOK
  <2>3. QED
    BY <1>12, <2>2 DEF TypeOK, ReadReceipt
<1>13. ASSUME DeleteProject PROVE TypeOK'
  BY <1>13 DEF TypeOK, DeleteProject
<1>14. CASE UNCHANGED vars
  BY <1>14 DEF TypeOK, vars
<1>15. QED
  BY <1>1, <1>2, <1>3, <1>4, <1>5, <1>6, <1>7, <1>8, <1>9, <1>10, <1>11, <1>12,
     <1>13, <1>14 DEF Next, Step

\* Every variable keeps its type, whatever fails.
THEOREM TypeCorrect == Spec => []TypeOK
<1>1. QED
  BY TypeInit, TypeStep, PTL DEF Spec

-----------------------------------------------------------------------------
(***************************************************************************)
(* The inductive invariant.  OneModelRunPerKey is not inductive: that two  *)
(* runs of one key are one run follows from what the reservations of the   *)
(* table say, so the table, the history of reservations and the position   *)
(* of each call have to be tied together.                                  *)
(***************************************************************************)
BeforeReserve == {"idle", "lookup", "reserve", "reselect"}

AfterReserve == {"language_in", "deciding", "language_out", "assemble", "finalise", "failing"}

\* Calls and reservations: who has one, and that no key has two.
Reservations ==
  /\ ran \subseteq reserved
  /\ \A c \in Calls : pc[c] \in AfterReserve => c \in reserved
  /\ \A c \in Calls : pc[c] \in BeforeReserve => c \notin reserved
  /\ \A c, d \in reserved : SameKey(c, d) => c = d

\* Reservations and rows: a row is what its call reserved, and only the
\* project's deletion takes it away.
Table ==
  /\ \A c \in Calls : Exists(c) =>
       /\ c \in reserved
       /\ rows[c].key = input[c].key
       /\ rows[c].request = input[c].request
  /\ project = "live" => \A c \in reserved : Exists(c)

LEMMA TableInit == Init => Reservations /\ Table
BY DEF Init, Reservations, Table, Exists, BeforeReserve, AfterReserve

LEMMA TableStep == TypeOK /\ Reservations /\ Table /\ [Next]_vars => Reservations' /\ Table'
<1> SUFFICES ASSUME TypeOK, Reservations, Table, [Next]_vars
             PROVE  Reservations' /\ Table'
  OBVIOUS
<1> USE DEF BeforeReserve, AfterReserve
\* A step of c that neither reserves nor touches the table.
<1>0. ASSUME NEW c \in Calls, NEW to, pc' = [pc EXCEPT ![c] = to],
             ran' \subseteq reserved, UNCHANGED <<project, rows, input, reserved>>,
             to \in AfterReserve => pc[c] \in AfterReserve,
             to \in BeforeReserve => pc[c] \in BeforeReserve
      PROVE  Reservations' /\ Table'
  <2>1. Reservations'
    BY <1>0 DEF Reservations, TypeOK, SameKey
  <2>2. Table'
    BY <1>0 DEF Table, Exists
  <2>3. QED
    BY <2>1, <2>2
\* A step of c that rewrites its own row, keeping the key and the request.
<1>a. ASSUME NEW c \in Calls, NEW to, pc' = [pc EXCEPT ![c] = to], to \notin BeforeReserve,
             pc[c] \in AfterReserve,
             UNCHANGED <<project, input, reserved, ran>>,
             NEW row, row # NoRow,
             Exists(c) => row.key = rows[c].key /\ row.request = rows[c].request,
             \/ rows' = rows
             \/ Exists(c) /\ rows' = [rows EXCEPT ![c] = row]
      PROVE  Reservations' /\ Table'
  <2>1. Reservations'
    BY <1>a DEF Reservations, TypeOK, SameKey
  <2>2. Table'
    BY <1>a DEF Table, Exists, TypeOK
  <2>3. QED
    BY <2>1, <2>2
<1>1. ASSUME NEW c \in Calls, Arrive(c) PROVE Reservations' /\ Table'
  BY <1>0, <1>1 DEF Arrive, Goto, Reservations
<1>2. ASSUME NEW c \in Calls, LookUp(c) PROVE Reservations' /\ Table'
  BY <1>0, <1>2 DEF LookUp, Goto, Reservations
<1>3. ASSUME NEW c \in Calls, Reserve(c) PROVE Reservations' /\ Table'
  <2>1. CASE reserved' = reserved /\ rows' = rows /\ pc'[c] \in {"reselect", "done"}
    BY <1>0, <1>3, <2>1 DEF Reserve, Goto, Reservations
  <2>2. CASE /\ ~Conflicts(c) /\ reserved' = reserved \cup {c}
             /\ rows' = [rows EXCEPT ![c] = PendingRow(c)]
    <3>1. PendingRow(c) \in Row /\ PendingRow(c) # NoRow
      BY CaseDecisionAssumption DEF PendingRow, Row, TypeOK, Inputs, Envelopes
    <3>2. \A d \in reserved : ~SameKey(c, d) /\ ~SameKey(d, c)
      BY <2>2 DEF Conflicts, RowsForKey, Table, SameKey, TypeOK
    <3>3. pc'[c] \in {"language_in", "done"} /\ pc' = [pc EXCEPT ![c] = pc'[c]]
      BY <1>3, <2>2 DEF Reserve, Goto, TypeOK
    <3>4. UNCHANGED <<project, input, ran>>
      BY <1>3 DEF Reserve
    <3>5. Reservations'
      BY <2>2, <3>2, <3>3, <3>4 DEF Reservations, SameKey, TypeOK
    <3>6. Table'
      BY <2>2, <3>1, <3>4 DEF Table, Exists, PendingRow, TypeOK
    <3>7. QED
      BY <3>5, <3>6
  <2>3. QED
    BY <1>3, <2>1, <2>2 DEF Reserve, Goto, TypeOK, CommitOutcomes
<1>4. ASSUME NEW c \in Calls, Reselect(c) PROVE Reservations' /\ Table'
  BY <1>0, <1>4 DEF Reselect, Goto, Reservations
<1>5. ASSUME NEW c \in Calls, CrossIn(c) PROVE Reservations' /\ Table'
  BY <1>0, <1>5 DEF CrossIn, Advance, Goto, Reservations
<1>6. ASSUME NEW c \in Calls, Decide(c) PROVE Reservations' /\ Table'
  <2>1. ran' \subseteq reserved
    BY <1>6 DEF Decide, Advance, Goto, Reservations
  <2>2. QED
    BY <1>0, <1>6, <2>1 DEF Decide, Advance, Goto
<1>7. ASSUME NEW c \in Calls, CrossOut(c) PROVE Reservations' /\ Table'
  BY <1>0, <1>7 DEF CrossOut, Advance, Goto, Reservations
<1>8. ASSUME NEW c \in Calls, Assemble(c) PROVE Reservations' /\ Table'
  BY <1>0, <1>8 DEF Assemble, Goto, Reservations
<1>9. ASSUME NEW c \in Calls, Finalise(c) PROVE Reservations' /\ Table'
  <2>1. Exists(c) => /\ CompletedRow(c).key = rows[c].key
                     /\ CompletedRow(c).request = rows[c].request
                     /\ CompletedRow(c) # NoRow
    <3> SUFFICES ASSUME Exists(c) PROVE /\ CompletedRow(c).key = rows[c].key
                                        /\ CompletedRow(c).request = rows[c].request
                                        /\ CompletedRow(c) # NoRow
      OBVIOUS
    <3>1. rows[c] \in Row /\ decision[c] \in Envelopes \cup {NoVerdict}
      BY DEF Exists, TypeOK
    <3>2. CompletedRow(c) \in Row
      BY <3>1 DEF CompletedRow, Row
    <3>3. NoRow \notin Row
      BY CaseDecisionAssumption DEF Row, Envelopes
    <3>4. CompletedRow(c).key = rows[c].key /\ CompletedRow(c).request = rows[c].request
      BY <3>1 DEF CompletedRow, Row
    <3>5. QED
      BY <3>2, <3>3, <3>4
  <2>2. CASE ~Exists(c)
    BY <1>0, <1>9, <2>2 DEF Finalise, Goto, Reservations, UpdateOutcomes
  <2>3. CASE Exists(c)
    BY <1>a, <1>9, <2>1, <2>3 DEF Finalise, Goto
  <2>4. QED
    BY <2>2, <2>3
<1>10. ASSUME NEW c \in Calls, Fail(c) PROVE Reservations' /\ Table'
  <2>1. Exists(c) => /\ FailedRow(c).key = rows[c].key
                     /\ FailedRow(c).request = rows[c].request
                     /\ FailedRow(c) # NoRow
    BY CaseDecisionAssumption DEF FailedRow, Exists, TypeOK, Row, Envelopes
  <2>2. CASE ~Exists(c)
    <3>1. rows' = rows
      BY <1>10, <2>2 DEF Fail, UpdateOutcomes
    <3>2. QED
      BY <1>0, <1>10, <3>1 DEF Fail, Goto, Reservations
  <2>3. CASE Exists(c)
    BY <1>a, <1>10, <2>1, <2>3 DEF Fail, Goto
  <2>4. QED
    BY <2>2, <2>3
<1>11. ASSUME NEW c \in Calls, Lose(c) PROVE Reservations' /\ Table'
  BY <1>0, <1>11 DEF Lose, Reservations
<1>12. ASSUME NEW c \in Calls, ReadReceipt(c) PROVE Reservations' /\ Table'
  BY <1>12 DEF ReadReceipt, Reservations, Table, Exists, SameKey
<1>13. ASSUME DeleteProject PROVE Reservations' /\ Table'
  BY <1>13 DEF DeleteProject, Reservations, Table, Exists, SameKey
<1>14. CASE UNCHANGED vars
  BY <1>14 DEF vars, Reservations, Table, Exists, SameKey
<1>15. QED
  BY <1>1, <1>2, <1>3, <1>4, <1>5, <1>6, <1>7, <1>8, <1>9, <1>10, <1>11, <1>12,
     <1>13, <1>14 DEF Next, Step

LEMMA TableInvariant == Spec => [](TypeOK /\ Reservations /\ Table)
<1>1. QED
  BY TypeInit, TypeStep, TableInit, TableStep, PTL DEF Spec

\* The model runs at most once per Idempotency-Key, whatever the number of
\* racing calls and whichever commits fail or go unacknowledged.
THEOREM ModelRunsOncePerKey == Spec => []OneModelRunPerKey
<1>1. Reservations => OneModelRunPerKey
  BY DEF Reservations, OneModelRunPerKey
<1>2. QED
  BY <1>1, TableInvariant, PTL

-----------------------------------------------------------------------------
(***************************************************************************)
(* What rows and answers hold.                                             *)
(***************************************************************************)
Answering == {"language_out", "assemble", "finalise"}

\* A verdict on its way, stored, or handed over is about the request it
\* belongs to; for a replay that rests on the comparison of request hashes.
Contents ==
  /\ \A c \in Calls : pc[c] \in Answering =>
       decision[c] \in Envelopes /\ decision[c].about = input[c].request
  /\ \A c \in Calls : Exists(c) /\ rows[c].response # NoVerdict =>
       rows[c].response.about = rows[c].request
  /\ VerdictAnswersTheRequest

LEMMA ContentsInit == Init => Contents
BY DEF Init, Contents, Exists, Answering, VerdictAnswersTheRequest, Silence

LEMMA ResolvedContents ==
  ASSUME TypeOK, Contents, NEW c \in Calls, NEW d \in RowsForKey(input[c].key), Resolve(c, d),
         UNCHANGED input
  PROVE  VerdictAnswersTheRequest'
<1>1. d \in Calls /\ Exists(d)
  BY DEF RowsForKey
<1> DEFINE a == Resolution(rows[d], input[c].request)
<1>2. a.verdict # NoVerdict => a.verdict.about = input[c].request
  BY <1>1 DEF Resolution, Refused, Contents
<1>3. answer' = [answer EXCEPT ![c] = a]
  BY DEF Resolve, Reply
<1> HIDE DEF a
<1>4. QED
  BY <1>2, <1>3 DEF VerdictAnswersTheRequest, Contents, TypeOK

LEMMA ContentsStep == TypeOK /\ Table /\ Contents /\ [Next]_vars => Contents'
<1> SUFFICES ASSUME TypeOK, Table, Contents, [Next]_vars PROVE Contents'
  OBVIOUS
<1> USE DEF Answering
\* A step of c that leaves the table alone and answers with no verdict, if at all.
<1>0. ASSUME NEW c \in Calls, NEW to, pc' = [pc EXCEPT ![c] = to],
             to \in Answering => pc[c] \in Answering,
             UNCHANGED <<rows, input, decision>>,
             UNCHANGED answer \/ \E code : answer' = [answer EXCEPT ![c] = Refused(code)]
      PROVE  Contents'
  BY <1>0 DEF Contents, TypeOK, Exists, VerdictAnswersTheRequest, Refused
<1>1. ASSUME NEW c \in Calls, Arrive(c) PROVE Contents'
  BY <1>0, <1>1 DEF Arrive, Goto, Reply
<1>2. ASSUME NEW c \in Calls, LookUp(c) PROVE Contents'
  <2>1. CASE \E d \in RowsForKey(input[c].key) : Goto(c, "lookup", "done") /\ Resolve(c, d)
    <3>1. VerdictAnswersTheRequest'
      BY <1>2, <2>1, ResolvedContents DEF LookUp
    <3>2. QED
      BY <1>2, <2>1, <3>1 DEF LookUp, Goto, Contents, TypeOK, Exists
  <2>2. CASE Goto(c, "lookup", "reserve") /\ UNCHANGED <<answer, shown>>
    BY <1>0, <1>2, <2>2 DEF LookUp, Goto
  <2>3. QED
    BY <1>2, <2>1, <2>2 DEF LookUp
<1>3. ASSUME NEW c \in Calls, Reserve(c) PROVE Contents'
  <2>1. PendingRow(c).response = NoVerdict
    BY DEF PendingRow
  <2>2. rows' = rows \/ rows' = [rows EXCEPT ![c] = PendingRow(c)]
    BY <1>3 DEF Reserve
  <2>3. UNCHANGED answer \/ \E code : answer' = [answer EXCEPT ![c] = Refused(code)]
    BY <1>3 DEF Reserve, Reply, TypeOK
  <2>4. VerdictAnswersTheRequest'
    BY <1>3, <2>3 DEF Contents, VerdictAnswersTheRequest, Refused, Reserve, TypeOK
  <2>5. UNCHANGED <<input, decision>> /\ \A d \in Calls : pc'[d] \in Answering => pc[d] = pc'[d]
    BY <1>3 DEF Reserve, Goto, TypeOK
  <2>6. QED
    BY <2>1, <2>2, <2>4, <2>5 DEF Contents, Exists, TypeOK
<1>4. ASSUME NEW c \in Calls, Reselect(c) PROVE Contents'
  <2>1. CASE \E d \in RowsForKey(input[c].key) : Resolve(c, d)
    <3>1. VerdictAnswersTheRequest'
      BY <1>4, <2>1, ResolvedContents DEF Reselect
    <3>2. QED
      BY <1>4, <2>1, <3>1 DEF Reselect, Goto, Contents, TypeOK, Exists
  <2>2. CASE Reply(c, Refused("decision_reservation_conflict"))
    BY <1>0, <1>4, <2>2 DEF Reselect, Goto, Reply
  <2>3. QED
    BY <1>4, <2>1, <2>2 DEF Reselect
<1>5. ASSUME NEW c \in Calls, CrossIn(c) PROVE Contents'
  BY <1>0, <1>5 DEF CrossIn, Advance, Goto
<1>6. ASSUME NEW c \in Calls, Decide(c) PROVE Contents'
  <2>1. \/ pc' = [pc EXCEPT ![c] = "failing"] /\ UNCHANGED decision
        \/ /\ pc' = [pc EXCEPT ![c] = "language_out"]
           /\ \E v \in Verdicts :
                decision' = [decision EXCEPT ![c] = [about |-> input[c].request, says |-> v]]
    BY <1>6 DEF Decide, Advance, Goto, TypeOK
  <2>2. \A d \in Calls : pc'[d] \in Answering =>
          decision'[d] \in Envelopes /\ decision'[d].about = input[d].request
    BY <2>1 DEF TypeOK, Contents, Inputs, Envelopes
  <2>3. QED
    BY <1>6, <2>2 DEF Decide, Contents, Exists, VerdictAnswersTheRequest
<1>7. ASSUME NEW c \in Calls, CrossOut(c) PROVE Contents'
  BY <1>0, <1>7 DEF CrossOut, Advance, Goto
<1>8. ASSUME NEW c \in Calls, Assemble(c) PROVE Contents'
  BY <1>0, <1>8 DEF Assemble, Goto, Reply
<1>9. ASSUME NEW c \in Calls, Finalise(c) PROVE Contents'
  <2>1. decision[c] \in Envelopes /\ decision[c].about = input[c].request
    BY <1>9 DEF Finalise, Goto, Contents
  <2>2. \/ rows' = rows
        \/ Exists(c) /\ rows' = [rows EXCEPT ![c] = CompletedRow(c)]
    BY <1>9 DEF Finalise, UpdateOutcomes
  <2>3. Exists(c) => /\ CompletedRow(c).response = decision[c]
                     /\ CompletedRow(c).request = input[c].request
    BY DEF CompletedRow, Table, TypeOK, Exists, Row
  <2>4. \A d \in Calls : Exists(d)' /\ rows'[d].response # NoVerdict =>
          rows'[d].response.about = rows'[d].request
    BY <2>1, <2>2, <2>3 DEF Contents, Exists, TypeOK
  <2>5. VerdictAnswersTheRequest'
    BY <1>9, <2>1 DEF Finalise, Reply, Contents, VerdictAnswersTheRequest, TypeOK
  <2>6. UNCHANGED <<input, decision>> /\ \A d \in Calls : pc'[d] \in Answering => pc[d] = pc'[d]
    BY <1>9 DEF Finalise, Goto, TypeOK
  <2>7. QED
    BY <2>4, <2>5, <2>6 DEF Contents
<1>10. ASSUME NEW c \in Calls, Fail(c) PROVE Contents'
  <2>1. Exists(c) => /\ FailedRow(c).response = rows[c].response
                     /\ FailedRow(c).request = rows[c].request
    BY DEF FailedRow, TypeOK, Exists, Row
  <2>2. \/ rows' = rows
        \/ Exists(c) /\ rows' = [rows EXCEPT ![c] = FailedRow(c)]
    BY <1>10 DEF Fail, UpdateOutcomes
  <2>3. \A d \in Calls : Exists(d)' /\ rows'[d].response # NoVerdict =>
          rows'[d].response.about = rows'[d].request
    BY <2>1, <2>2 DEF Contents, Exists, TypeOK
  <2>4. VerdictAnswersTheRequest'
    BY <1>10 DEF Fail, Reply, Refused, Contents, VerdictAnswersTheRequest, TypeOK
  <2>5. UNCHANGED <<input, decision>> /\ \A d \in Calls : pc'[d] \in Answering => pc[d] = pc'[d]
    BY <1>10 DEF Fail, Goto, TypeOK
  <2>6. QED
    BY <2>3, <2>4, <2>5 DEF Contents
<1>11. ASSUME NEW c \in Calls, Lose(c) PROVE Contents'
  BY <1>0, <1>11 DEF Lose
<1>12. ASSUME NEW c \in Calls, ReadReceipt(c) PROVE Contents'
  BY <1>12 DEF ReadReceipt, Contents, Exists, VerdictAnswersTheRequest
<1>13. ASSUME DeleteProject PROVE Contents'
  BY <1>13 DEF DeleteProject, Contents, Exists, VerdictAnswersTheRequest
<1>14. CASE UNCHANGED vars
  BY <1>14 DEF vars, Contents, Exists, VerdictAnswersTheRequest
<1>15. QED
  BY <1>1, <1>2, <1>3, <1>4, <1>5, <1>6, <1>7, <1>8, <1>9, <1>10, <1>11, <1>12,
     <1>13, <1>14 DEF Next, Step

LEMMA ContentsInvariant == Spec => []Contents
<1>1. QED
  BY TableInvariant, ContentsInit, ContentsStep, PTL DEF Spec

\* A caller is only ever told a verdict on the request it sent.
THEOREM VerdictsAnswerTheirRequests == Spec => []VerdictAnswersTheRequest
<1>1. Contents => VerdictAnswersTheRequest
  BY DEF Contents
<1>2. QED
  BY <1>1, ContentsInvariant, PTL

-----------------------------------------------------------------------------
(***************************************************************************)
(* Verdicts and receipts.                                                  *)
(***************************************************************************)

\* A call told "decided" is over, and its row holds what it was told.
Receipted ==
  /\ \A c \in Calls : answer[c].code = "decided" => pc[c] = "done"
  /\ DecidedIsCitable

LEMMA ReceiptedStep == TypeOK /\ Reservations /\ Table /\ Receipted /\ [Next]_vars => Receipted'
<1> SUFFICES ASSUME TypeOK, Reservations, Table, Receipted, [Next]_vars PROVE Receipted'
  OBVIOUS
<1> USE DEF Receipted, DecidedIsCitable
\* A step of a call c that is not over, which can change only the row of c and
\* does not tell it "decided".
<1>0. ASSUME NEW c \in Calls, pc[c] # "done", NEW to, pc' = [pc EXCEPT ![c] = to],
             UNCHANGED project,
             UNCHANGED answer \/ \E a : a.code # "decided" /\ answer' = [answer EXCEPT ![c] = a],
             rows' = rows \/ \E row : rows' = [rows EXCEPT ![c] = row]
      PROVE  Receipted'
  <2>1. answer[c].code # "decided"
    BY <1>0
  <2>2. answer'[c].code # "decided"
    BY <1>0, <2>1 DEF TypeOK
  <2>3. \A d \in Calls \ {c} : answer'[d] = answer[d] /\ rows'[d] = rows[d] /\ pc'[d] = pc[d]
    BY <1>0 DEF TypeOK
  <2>4. QED
    BY <1>0, <2>2, <2>3 DEF Exists
<1>1. ASSUME NEW c \in Calls, Arrive(c) PROVE Receipted'
  BY <1>0, <1>1 DEF Arrive, Goto, Reply, Refused
<1>b. ASSUME NEW c \in Calls, NEW d \in RowsForKey(input[c].key), Resolve(c, d)
      PROVE  \E a : a.code # "decided" /\ answer' = [answer EXCEPT ![c] = a]
  BY <1>b DEF Resolve, Reply, Resolution, Refused
<1>2. ASSUME NEW c \in Calls, LookUp(c) PROVE Receipted'
  BY <1>0, <1>b, <1>2 DEF LookUp, Goto
<1>3. ASSUME NEW c \in Calls, Reserve(c) PROVE Receipted'
  <2>1. answer[c] \in Answers /\ answer[c].code # "decided"
    BY <1>3 DEF Reserve, Goto, TypeOK
  <2>2. UNCHANGED answer \/ \E a : a.code # "decided" /\ answer' = [answer EXCEPT ![c] = a]
    BY <1>3, <2>1 DEF Reserve, Reply, Refused
  <2>3. rows' = rows \/ \E row : rows' = [rows EXCEPT ![c] = row]
    BY <1>3 DEF Reserve
  <2>4. \E to : pc[c] # "done" /\ pc' = [pc EXCEPT ![c] = to]
    BY <1>3 DEF Reserve, Goto
  <2>5. QED
    BY <1>0, <1>3, <2>2, <2>3, <2>4 DEF Reserve
<1>4. ASSUME NEW c \in Calls, Reselect(c) PROVE Receipted'
  BY <1>0, <1>b, <1>4 DEF Reselect, Goto, Reply, Refused
<1>5. ASSUME NEW c \in Calls, CrossIn(c) PROVE Receipted'
  BY <1>0, <1>5 DEF CrossIn, Advance, Goto
<1>6. ASSUME NEW c \in Calls, Decide(c) PROVE Receipted'
  BY <1>0, <1>6 DEF Decide, Advance, Goto
<1>7. ASSUME NEW c \in Calls, CrossOut(c) PROVE Receipted'
  BY <1>0, <1>7 DEF CrossOut, Advance, Goto
<1>8. ASSUME NEW c \in Calls, Assemble(c) PROVE Receipted'
  BY <1>0, <1>8 DEF Assemble, Goto, Reply, Refused
<1>9. ASSUME NEW c \in Calls, Finalise(c) PROVE Receipted'
  <2>0. Exists(c) => /\ CompletedRow(c).status = "completed"
                     /\ CompletedRow(c).response = decision[c]
                     /\ CompletedRow(c) # NoRow
    <3>1. NoRow \notin Row
      BY CaseDecisionAssumption DEF Row, Envelopes
    <3>2. Exists(c) => rows[c] \in Row
      BY DEF Exists, TypeOK
    <3>3. decision[c] \in Envelopes \cup {NoVerdict}
      BY DEF TypeOK
    <3>4. QED
      BY <3>1, <3>2, <3>3 DEF CompletedRow, Row
  <2>1. CASE pc'[c] = "failing"
    <3>1. pc[c] # "done" /\ pc' = [pc EXCEPT ![c] = "failing"] /\ UNCHANGED answer
      BY <1>9, <2>1 DEF Finalise, Goto, TypeOK
    <3>2. rows' = rows \/ \E row : rows' = [rows EXCEPT ![c] = row]
      BY <1>9 DEF Finalise
    <3>3. UNCHANGED project
      BY <1>9 DEF Finalise
    <3>4. QED
      BY ONLY <1>0, <3>1, <3>2, <3>3
  <2>2. CASE pc'[c] = "done"
    <3>1. /\ pc' = [pc EXCEPT ![c] = "done"]
          /\ answer' = [answer EXCEPT ![c] = [code |-> "decided", verdict |-> decision[c]]]
          /\ rows' = [rows EXCEPT ![c] = CompletedRow(c)]
          /\ Exists(c) /\ UNCHANGED project
      BY <1>9, <2>2 DEF Finalise, Goto, Reply, TypeOK, CommitOutcomes, UpdateOutcomes
    <3>2. \A d \in Calls \ {c} : answer'[d] = answer[d] /\ rows'[d] = rows[d] /\ pc'[d] = pc[d]
      BY <3>1 DEF TypeOK
    <3>3. answer'[c].verdict = decision[c] /\ rows'[c] = CompletedRow(c) /\ pc'[c] = "done"
      BY <3>1 DEF TypeOK
    <3>4. QED
      BY <2>0, <3>1, <3>2, <3>3 DEF Exists
  <2>3. QED
    BY <1>9, <2>1, <2>2 DEF Finalise, Goto, TypeOK
<1>10. ASSUME NEW c \in Calls, Fail(c) PROVE Receipted'
  <2>1. Refused(failure[c]).code # "decided"
    BY DEF Refused, TypeOK, Faults
  <2>2. QED
    BY <1>0, <1>10, <2>1 DEF Fail, Goto, Reply
<1>11. ASSUME NEW c \in Calls, Lose(c) PROVE Receipted'
  BY <1>0, <1>11 DEF Lose, InFlight
<1>12. ASSUME NEW c \in Calls, ReadReceipt(c) PROVE Receipted'
  BY <1>12 DEF ReadReceipt, Exists
<1>13. ASSUME DeleteProject PROVE Receipted'
  BY <1>13 DEF DeleteProject
<1>14. CASE UNCHANGED vars
  BY <1>14 DEF vars, Exists
<1>15. QED
  BY <1>1, <1>2, <1>3, <1>4, <1>5, <1>6, <1>7, <1>8, <1>9, <1>10, <1>11, <1>12,
     <1>13, <1>14 DEF Next, Step

\* The call that ran the decider is told its verdict only if the receipt is
\* stored, and the receipt keeps it: even when other commits go unacknowledged.
THEOREM DecidedVerdictsAreCitable == Spec => []DecidedIsCitable
<1>1. Init => Receipted
  BY DEF Init, Receipted, DecidedIsCitable, Silence
<1>2. Receipted => DecidedIsCitable
  BY DEF Receipted
<1>3. QED
  BY <1>1, <1>2, TableInvariant, ReceiptedStep, PTL DEF Spec
-----------------------------------------------------------------------------
(***************************************************************************)
(* One verdict for one key.  That two answers agree is not inductive: each *)
(* is traced to the reservation it comes from, of which a key has one.     *)
(***************************************************************************)

\* What the call decided, it does not decide again.
HasDecided(c) == pc[c] \notin BeforeReserve \cup {"language_in", "deciding"}

Origins ==
  /\ \A c \in Calls : Exists(c) /\ rows[c].response # NoVerdict =>
       HasDecided(c) /\ rows[c].response = decision[c]
  /\ \A c \in Calls : answer[c].verdict # NoVerdict =>
       \E d \in reserved : /\ HasDecided(d) /\ answer[c].verdict = decision[d]
                           /\ d = c \/ SameKey(c, d)

LEMMA OriginsOfReplay ==
  ASSUME TypeOK, Table, Origins, NEW c \in Calls, NEW d \in RowsForKey(input[c].key),
         Resolve(c, d), Goto(c, "lookup", "done") \/ Goto(c, "reselect", "done"),
         UNCHANGED <<rows, input, decision, reserved>>
  PROVE  Origins'
<1>1. d \in Calls /\ Exists(d) /\ rows[d].key = input[c].key /\ input[c].key # NoKey
  BY DEF RowsForKey
<1>2. d \in reserved /\ SameKey(c, d)
  BY <1>1 DEF Table, SameKey
<1> DEFINE a == Resolution(rows[d], input[c].request)
<1>3. a.verdict # NoVerdict => a.verdict = rows[d].response
  BY DEF Resolution, Refused
<1>4. answer' = [answer EXCEPT ![c] = a]
  BY DEF Resolve, Reply
<1> HIDE DEF a
<1>5. \A e \in Calls : HasDecided(e) => HasDecided(e)'
  BY DEF Goto, HasDecided, BeforeReserve, TypeOK
<1>6. a.verdict # NoVerdict => HasDecided(d) /\ a.verdict = decision[d]
  BY <1>1, <1>3 DEF Origins
<1>7. \A e \in Calls : Exists(e)' /\ rows'[e].response # NoVerdict =>
        HasDecided(e)' /\ rows'[e].response = decision'[e]
  BY <1>5 DEF Origins, Exists
<1>8. ASSUME NEW e \in Calls, answer'[e].verdict # NoVerdict
      PROVE  \E f \in reserved' : /\ HasDecided(f)' /\ answer'[e].verdict = decision'[f]
                                  /\ f = e \/ SameKey(e, f)'
  <2>1. CASE e = c
    <3>1. answer'[e] = a
      BY <1>4, <2>1 DEF TypeOK
    <3>2. SameKey(e, d)'
      BY <1>2, <2>1 DEF SameKey
    <3>3. QED
      BY <1>1, <1>2, <1>5, <1>6, <1>8, <3>1, <3>2
  <2>2. CASE e # c
    <3>1. answer'[e] = answer[e]
      BY <1>4, <2>2 DEF TypeOK
    <3>2. PICK f \in reserved : /\ HasDecided(f) /\ answer[e].verdict = decision[f]
                                /\ f = e \/ SameKey(e, f)
      BY <1>8, <3>1 DEF Origins
    <3>3. f \in Calls /\ (f = e \/ SameKey(e, f)')
      BY <3>2 DEF TypeOK, SameKey
    <3>4. QED
      BY <1>5, <3>1, <3>2, <3>3
  <2>3. QED
    BY <2>1, <2>2
<1>9. QED
  BY <1>7, <1>8 DEF Origins

LEMMA RefusalsAreSilent == \A code : Refused(code).verdict = NoVerdict
BY DEF Refused

LEMMA OriginsStep ==
  TypeOK /\ Reservations /\ Table /\ Origins /\ [Next]_vars => Origins'
<1> SUFFICES ASSUME TypeOK, Reservations, Table, Origins, [Next]_vars PROVE Origins'
  OBVIOUS
\* A step of c that answers with no verdict or with its own, and stores no other.
<1>0. ASSUME NEW c \in Calls, NEW to, pc' = [pc EXCEPT ![c] = to],
             HasDecided(c) => HasDecided(c)',
             UNCHANGED input, reserved \subseteq reserved',
             \A d \in Calls : HasDecided(d) => decision'[d] = decision[d],
             \/ rows' = rows
             \/ \E row : /\ rows' = [rows EXCEPT ![c] = row]
                         /\ \/ row.response = NoVerdict
                            \/ row.response = decision'[c] /\ HasDecided(c)'
                            \/ Exists(c) /\ row.response = rows[c].response,
             \/ UNCHANGED answer
             \/ \E a : /\ answer' = [answer EXCEPT ![c] = a]
                       /\ \/ a.verdict = NoVerdict
                          \/ a.verdict = decision'[c] /\ HasDecided(c)' /\ c \in reserved'
      PROVE  Origins'
  <2>1. \A d \in Calls : HasDecided(d) => HasDecided(d)'
    BY <1>0 DEF HasDecided, TypeOK
  <2>2. ASSUME NEW d \in Calls, Exists(d)', rows'[d].response # NoVerdict
        PROVE  HasDecided(d)' /\ rows'[d].response = decision'[d]
    <3>1. CASE rows'[d] = rows[d]
      BY <1>0, <2>1, <2>2, <3>1 DEF Origins, Exists
    <3>2. CASE d = c /\ rows' # rows
      <4>1. PICK row : /\ rows' = [rows EXCEPT ![c] = row]
                       /\ \/ row.response = NoVerdict
                          \/ row.response = decision'[c] /\ HasDecided(c)'
                          \/ Exists(c) /\ row.response = rows[c].response
        BY <1>0, <3>2
      <4>2. rows'[c] = row
        BY <4>1 DEF TypeOK
      <4>3. QED
        BY <1>0, <2>1, <2>2, <3>2, <4>1, <4>2 DEF Origins
    <3>3. QED
      BY <1>0, <3>1, <3>2 DEF TypeOK
  <2>3. ASSUME NEW e \in Calls, answer'[e].verdict # NoVerdict
        PROVE  \E f \in reserved' : /\ HasDecided(f)' /\ answer'[e].verdict = decision'[f]
                                    /\ f = e \/ SameKey(e, f)'
    <3>1. CASE answer'[e] = answer[e]
      <4>1. PICK f \in reserved : /\ HasDecided(f) /\ answer[e].verdict = decision[f]
                                  /\ f = e \/ SameKey(e, f)
        BY <2>3, <3>1 DEF Origins
      <4>2. f \in Calls /\ (f = e \/ SameKey(e, f)')
        BY <1>0, <4>1 DEF TypeOK, SameKey
      <4>3. QED
        BY <1>0, <2>1, <3>1, <4>1, <4>2
    <3>2. CASE e = c /\ answer' # answer
      <4>1. PICK a : /\ answer' = [answer EXCEPT ![c] = a]
                     /\ \/ a.verdict = NoVerdict
                        \/ a.verdict = decision'[c] /\ HasDecided(c)' /\ c \in reserved'
        BY <1>0, <3>2
      <4>2. answer'[c] = a
        BY <4>1 DEF TypeOK
      <4>3. QED
        BY <2>3, <3>2, <4>1, <4>2
    <3>3. QED
      BY <1>0, <3>1, <3>2 DEF TypeOK
  <2>4. QED
    BY <2>2, <2>3 DEF Origins
<1> USE DEF HasDecided, BeforeReserve, TypeOK
<1>1. ASSUME NEW c \in Calls, Arrive(c) PROVE Origins'
  BY <1>0, <1>1 DEF Arrive, Goto, Reply, Refused
<1>2. ASSUME NEW c \in Calls, LookUp(c) PROVE Origins'
  <2>1. CASE \E d \in RowsForKey(input[c].key) : Goto(c, "lookup", "done") /\ Resolve(c, d)
    BY <1>2, <2>1, OriginsOfReplay DEF LookUp
  <2>2. CASE Goto(c, "lookup", "reserve") /\ UNCHANGED <<answer, shown>>
    BY <1>0, <1>2, <2>2 DEF LookUp, Goto
  <2>3. QED
    BY <1>2, <2>1, <2>2 DEF LookUp
<1>3. ASSUME NEW c \in Calls, Reserve(c) PROVE Origins'
  <2>1. PendingRow(c).response = NoVerdict
    BY DEF PendingRow
  <2>2. rows' = rows \/ rows' = [rows EXCEPT ![c] = PendingRow(c)]
    BY <1>3 DEF Reserve
  <2>3. \/ UNCHANGED answer
        \/ \E a : answer' = [answer EXCEPT ![c] = a] /\ a.verdict = NoVerdict
    BY <1>3 DEF Reserve, Reply, Refused
  <2>4. /\ pc[c] = "reserve" /\ pc' = [pc EXCEPT ![c] = pc'[c]]
        /\ UNCHANGED <<input, decision>> /\ reserved \subseteq reserved'
    BY <1>3 DEF Reserve, Goto
  <2>5. ~HasDecided(c)
    BY <2>4
  <2> HIDE DEF HasDecided
  <2>6. QED
    BY <1>0, <2>1, <2>2, <2>3, <2>4, <2>5
<1>4. ASSUME NEW c \in Calls, Reselect(c) PROVE Origins'
  <2>1. CASE \E d \in RowsForKey(input[c].key) : Resolve(c, d)
    BY <1>4, <2>1, OriginsOfReplay DEF Reselect
  <2>2. CASE Reply(c, Refused("decision_reservation_conflict"))
    <3>1. /\ pc[c] = "reselect" /\ pc' = [pc EXCEPT ![c] = "done"]
          /\ UNCHANGED <<input, decision, reserved, rows>>
      BY <1>4 DEF Reselect, Goto
    <3>2. \E a : answer' = [answer EXCEPT ![c] = a] /\ a.verdict = NoVerdict
      BY <2>2, RefusalsAreSilent DEF Reply
    <3>3. ~HasDecided(c)
      BY <3>1
    <3> HIDE DEF HasDecided
    <3>4. QED
      BY <1>0, <3>1, <3>2, <3>3
  <2>3. QED
    BY <1>4, <2>1, <2>2 DEF Reselect
<1>5. ASSUME NEW c \in Calls, CrossIn(c) PROVE Origins'
  BY <1>0, <1>5 DEF CrossIn, Advance, Goto
<1>6. ASSUME NEW c \in Calls, Decide(c) PROVE Origins'
  <2>1. /\ pc[c] = "deciding" /\ pc' = [pc EXCEPT ![c] = pc'[c]]
        /\ UNCHANGED <<input, rows, answer, reserved>>
    BY <1>6 DEF Decide, Advance, Goto
  <2>2. \A d \in Calls : HasDecided(d) => decision'[d] = decision[d]
    BY <1>6, <2>1 DEF Decide
  <2>3. ~HasDecided(c)
    BY <2>1
  <2> HIDE DEF HasDecided
  <2>4. QED
    BY <1>0, <2>1, <2>2, <2>3
<1>7. ASSUME NEW c \in Calls, CrossOut(c) PROVE Origins'
  BY <1>0, <1>7 DEF CrossOut, Advance, Goto
<1>8. ASSUME NEW c \in Calls, Assemble(c) PROVE Origins'
  BY <1>0, <1>8 DEF Assemble, Goto, Reply, Refused
<1>9. ASSUME NEW c \in Calls, Finalise(c) PROVE Origins'
  <2>1. /\ pc[c] = "finalise" /\ pc' = [pc EXCEPT ![c] = pc'[c]]
        /\ pc'[c] \in {"done", "failing"}
        /\ UNCHANGED <<input, decision, reserved>>
    BY <1>9 DEF Finalise, Goto
  <2>2. HasDecided(c)' /\ c \in reserved'
    BY <2>1 DEF Reservations, AfterReserve
  <2>3. \/ rows' = rows
        \/ Exists(c) /\ rows' = [rows EXCEPT ![c] = CompletedRow(c)]
    BY <1>9 DEF Finalise, UpdateOutcomes
  <2>4. Exists(c) => CompletedRow(c).response = decision[c]
    BY DEF CompletedRow, Exists, Row
  <2>5. \/ UNCHANGED answer
        \/ \E a : answer' = [answer EXCEPT ![c] = a] /\ a.verdict = decision[c]
    BY <1>9 DEF Finalise, Reply
  <2> HIDE DEF HasDecided
  <2>6. QED
    BY <1>0, <2>1, <2>2, <2>3, <2>4, <2>5
<1>10. ASSUME NEW c \in Calls, Fail(c) PROVE Origins'
  <2>1. /\ pc[c] = "failing" /\ pc' = [pc EXCEPT ![c] = "done"]
        /\ UNCHANGED <<input, decision, reserved>>
    BY <1>10 DEF Fail, Goto
  <2>2. HasDecided(c)'
    BY <2>1
  <2>3. \/ rows' = rows
        \/ Exists(c) /\ rows' = [rows EXCEPT ![c] = FailedRow(c)]
    BY <1>10 DEF Fail, UpdateOutcomes
  <2>4. Exists(c) => FailedRow(c).response = rows[c].response
    BY DEF FailedRow, Exists, Row
  <2>5. \E a : answer' = [answer EXCEPT ![c] = a] /\ a.verdict = NoVerdict
    BY <1>10, RefusalsAreSilent DEF Fail, Reply
  <2> HIDE DEF HasDecided
  <2>6. QED
    BY <1>0, <2>1, <2>2, <2>3, <2>4, <2>5
<1>11. ASSUME NEW c \in Calls, Lose(c) PROVE Origins'
  BY <1>0, <1>11 DEF Lose
<1>12. ASSUME NEW c \in Calls, ReadReceipt(c) PROVE Origins'
  BY <1>12 DEF ReadReceipt, Origins, Exists, SameKey
<1>13. ASSUME DeleteProject PROVE Origins'
  BY <1>13 DEF DeleteProject, Origins, Exists, SameKey
<1>14. CASE UNCHANGED vars
  BY <1>14 DEF vars, Origins, Exists, SameKey
<1>15. QED
  BY <1>1, <1>2, <1>3, <1>4, <1>5, <1>6, <1>7, <1>8, <1>9, <1>10, <1>11, <1>12,
     <1>13, <1>14 DEF Next, Step

\* Every call of a key that is answered with a verdict is answered with the same, by the
\* deciding call or by a replay, even when commits go unacknowledged.
THEOREM OneVerdictForOneKey == Spec => []SameKeySameVerdict
<1>1. Init => Origins
  BY DEF Init, Origins, Exists, Silence
<1>2. TypeOK /\ Reservations /\ Origins => SameKeySameVerdict
  <2> SUFFICES ASSUME TypeOK, Reservations, Origins, NEW c \in Calls, NEW d \in Calls,
                      SameKey(c, d), answer[c].verdict # NoVerdict,
                      answer[d].verdict # NoVerdict
               PROVE  answer[c].verdict = answer[d].verdict
    BY DEF SameKeySameVerdict
  <2>1. PICK e \in reserved : answer[c].verdict = decision[e] /\ (e = c \/ SameKey(c, e))
    BY DEF Origins
  <2>2. PICK f \in reserved : answer[d].verdict = decision[f] /\ (f = d \/ SameKey(d, f))
    BY DEF Origins
  <2>3. SameKey(e, f)
    BY <2>1, <2>2 DEF SameKey
  <2>4. QED
    BY <2>1, <2>2, <2>3 DEF Reservations
<1>3. QED
  BY <1>1, <1>2, TableInvariant, OriginsStep, PTL DEF Spec

-----------------------------------------------------------------------------
(* Where no commit takes effect without being acknowledged.                  *)

Acknowledged == "unacknowledged" \notin CommitFaults

-----------------------------------------------------------------------------
(* Settled receipts.                                                         *)

\* A settled row is that of a call that is over; it has a verdict if it is completed
\* and none otherwise.
SettledInv ==
  /\ \A c \in Calls : Exists(c) /\ rows[c].status # "pending" => pc[c] = "done"
  /\ \A c \in Calls : Exists(c) => (rows[c].status = "completed" <=> rows[c].response # NoVerdict)
  /\ project = "deleted" => \A c \in Calls : ~Exists(c)
  /\ ShownStaysCitable

LEMMA RowsAreRows ==
  ASSUME TypeOK, NEW c \in Calls
  PROVE  /\ rows[c] \in Row \cup {NoRow} /\ NoRow \notin Row
         /\ Exists(c) <=> rows[c] \in Row
         /\ project \in {"live", "deleted"}
<1>1. NoRow \notin Row
  BY CaseDecisionAssumption DEF Row, Envelopes
<1>2. QED
  BY <1>1 DEF TypeOK, Exists

LEMMA CommitsAreHeard ==
  ASSUME Acknowledged, NEW o \in CommitOutcomes
  PROVE  o.applied <=> o.ok
<1>1. CASE o = [applied |-> TRUE, ok |-> TRUE]
  <2>1. o.applied = TRUE /\ o.ok = TRUE
    BY <1>1
  <2>2. QED
    BY <2>1
<1>2. ASSUME NEW f \in CommitFaults, o = [applied |-> f = "unacknowledged", ok |-> FALSE]
      PROVE  o.applied <=> o.ok
  <2>1. (f = "unacknowledged") = FALSE
    BY DEF Acknowledged
  <2>2. o = [applied |-> FALSE, ok |-> FALSE]
    BY <1>2, <2>1
  <2>3. o.applied = FALSE /\ o.ok = FALSE
    BY <2>2
  <2>4. QED
    BY <2>3
<1>3. QED
  BY <1>1, <1>2 DEF CommitOutcomes

\* The two ways out of the finalisation, and of the recording of a failure.
LEMMA FinaliseWays ==
  ASSUME Acknowledged, TypeOK, NEW c \in Calls, Finalise(c)
  PROVE  /\ pc[c] = "finalise" /\ UNCHANGED <<project, input, reserved, ran, decision>>
         /\ \/ /\ Exists(c) /\ pc' = [pc EXCEPT ![c] = "done"]
               /\ rows' = [rows EXCEPT ![c] = CompletedRow(c)]
               /\ Show(c, decision[c])
            \/ /\ pc' = [pc EXCEPT ![c] = "failing"]
               /\ UNCHANGED <<rows, shown>>
<1>1. PICK o \in UpdateOutcomes(c) :
        /\ rows' = IF o.applied THEN [rows EXCEPT ![c] = CompletedRow(c)] ELSE rows
        /\ \/ /\ o.ok
              /\ Goto(c, "finalise", "done")
              /\ Reply(c, [code |-> "decided", verdict |-> decision[c]])
              /\ Show(c, decision[c])
              /\ UNCHANGED failure
           \/ /\ ~o.ok
              /\ Goto(c, "finalise", "failing")
              /\ failure' = [failure EXCEPT ![c] = "decision_receipt_failed"]
              /\ UNCHANGED <<answer, shown>>
  BY DEF Finalise
<1>2. (o.applied <=> o.ok) /\ (o.applied => Exists(c))
  BY CommitsAreHeard DEF UpdateOutcomes
<1>3. QED
  BY <1>1, <1>2 DEF Finalise, Goto

LEMMA FailWays ==
  ASSUME NEW c \in Calls, Fail(c)
  PROVE  /\ pc[c] = "failing" /\ pc' = [pc EXCEPT ![c] = "done"]
         /\ UNCHANGED <<project, input, reserved, ran, decision, shown>>
         /\ \/ Exists(c) /\ rows' = [rows EXCEPT ![c] = FailedRow(c)]
            \/ rows' = rows
BY DEF Fail, Goto, UpdateOutcomes

LEMMA ReserveWays ==
  ASSUME NEW c \in Calls, Reserve(c)
  PROVE  /\ pc[c] = "reserve" /\ pc' = [pc EXCEPT ![c] = pc'[c]]
         /\ UNCHANGED <<project, input, ran, decision, shown>>
         /\ \/ ~Conflicts(c) /\ rows' = [rows EXCEPT ![c] = PendingRow(c)]
            \/ rows' = rows
BY DEF Reserve, Goto

LEMMA WrittenRows ==
  ASSUME TypeOK, NEW c \in Calls
  PROVE  /\ PendingRow(c) \in Row
         /\ PendingRow(c).status = "pending" /\ PendingRow(c).response = NoVerdict
         /\ PendingRow(c).key = input[c].key
         /\ Exists(c) =>
              /\ CompletedRow(c) \in Row /\ CompletedRow(c).status = "completed"
              /\ CompletedRow(c).response = decision[c] /\ CompletedRow(c).key = rows[c].key
              /\ FailedRow(c) \in Row /\ FailedRow(c).status = "failed"
              /\ FailedRow(c).response = rows[c].response /\ FailedRow(c).key = rows[c].key
<1>1. /\ PendingRow(c) \in Row
      /\ PendingRow(c).status = "pending" /\ PendingRow(c).response = NoVerdict
      /\ PendingRow(c).key = input[c].key
  BY DEF PendingRow, Row, TypeOK, Inputs
<1>2. ASSUME Exists(c)
      PROVE  /\ CompletedRow(c) \in Row /\ CompletedRow(c).status = "completed"
             /\ CompletedRow(c).response = decision[c] /\ CompletedRow(c).key = rows[c].key
             /\ FailedRow(c) \in Row /\ FailedRow(c).status = "failed"
             /\ FailedRow(c).response = rows[c].response /\ FailedRow(c).key = rows[c].key
  <2>1. rows[c] \in Row /\ decision[c] \in Envelopes \cup {NoVerdict}
    BY <1>2, RowsAreRows DEF TypeOK
  <2>2. QED
    BY <2>1 DEF CompletedRow, FailedRow, Row
<1>3. QED
  BY <1>1, <1>2

\* A verdict that is shown is that of a completed row.
Shows(d) ==
  /\ d \in Calls /\ Exists(d) /\ rows[d].status = "completed"
  /\ shown' = shown \cup {<<d, rows[d].response>>}

LEMMA ResolveShows ==
  ASSUME TypeOK, NEW c \in Calls, NEW d \in RowsForKey(input[c].key), Resolve(c, d)
  PROVE  shown' = shown \/ Shows(d)
<1> DEFINE a == Resolution(rows[d], input[c].request)
<1>1. d \in Calls /\ Exists(d)
  BY DEF RowsForKey
<1>2. a.verdict # NoVerdict => a.verdict = rows[d].response /\ rows[d].status = "completed"
  BY DEF Resolution, Refused
<1>3. Show(d, a.verdict)
  BY DEF Resolve
<1> HIDE DEF a
<1>4. QED
  BY <1>1, <1>2, <1>3 DEF Show, Shows

LEMMA SettledStep ==
  Acknowledged /\ TypeOK /\ Reservations /\ Table /\ Contents /\ SettledInv /\ [Next]_vars
    => SettledInv'
<1> SUFFICES ASSUME Acknowledged, TypeOK, Reservations, Table, Contents, SettledInv, [Next]_vars
             PROVE  SettledInv'
  OBVIOUS
\* A step that writes no row, and shows nothing or a completed row.
<1>0. ASSUME UNCHANGED <<rows, project>>,
             \A c \in Calls : pc[c] = "done" => pc'[c] = "done",
             \/ shown' = shown
             \/ \E d \in Calls : Shows(d)
      PROVE  SettledInv'
  <2>1. \A s \in shown' : s \in shown \/ \E d \in Calls : /\ s = <<d, rows[d].response>>
                                                         /\ s[1] = d /\ s[2] = rows[d].response
                                                         /\ Exists(d)
                                                         /\ rows[d].status = "completed"
    BY <1>0 DEF Shows
  <2>2. ShownStaysCitable'
    BY <1>0, <2>1 DEF SettledInv, ShownStaysCitable, Exists
  <2>3. QED
    BY <1>0, <2>2 DEF SettledInv, Exists
\* A step of c that writes its row, which was not settled.
<1>a. ASSUME NEW c \in Calls, NEW row \in Row, rows' = [rows EXCEPT ![c] = row],
             pc[c] # "done", project' = project, project = "live",
             \A d \in Calls \ {c} : pc'[d] = pc[d],
             row.status # "pending" => pc'[c] = "done",
             row.status = "completed" <=> row.response # NoVerdict,
             \/ shown' = shown
             \/ row.status = "completed" /\ shown' = shown \cup {<<c, row.response>>}
      PROVE  SettledInv'
  <2>1. rows'[c] = row /\ Exists(c)' /\ \A d \in Calls \ {c} : rows'[d] = rows[d]
    BY <1>a, RowsAreRows DEF TypeOK, Exists
  <2>2. ~(Exists(c) /\ rows[c].status = "completed")
    BY <1>a DEF SettledInv
  <2>3. \A s \in shown : s[1] \in Calls \ {c}
    BY <1>a, <2>2 DEF SettledInv, ShownStaysCitable, TypeOK
  <2>4. \A s \in shown' : \/ s \in shown
                          \/ s[1] = c /\ s[2] = row.response /\ row.status = "completed"
    BY <1>a
  <2>5. ShownStaysCitable'
    <3>1. ASSUME NEW s \in shown'
          PROVE  /\ rows'[s[1]] # NoRow /\ rows'[s[1]].status = "completed"
                 /\ rows'[s[1]].response = s[2]
      <4>1. CASE s \in shown
        BY <1>a, <2>1, <2>3, <4>1 DEF SettledInv, ShownStaysCitable, Exists
      <4>2. CASE s[1] = c /\ s[2] = row.response /\ row.status = "completed"
        BY <2>1, <4>2 DEF Exists
      <4>3. QED
        BY <2>4, <4>1, <4>2
    <3>2. QED
      BY <3>1 DEF ShownStaysCitable, Exists
  <2>6. \A d \in Calls : Exists(d)' /\ rows'[d].status # "pending" => pc'[d] = "done"
    BY <1>a, <2>1 DEF SettledInv, Exists
  <2>7. \A d \in Calls : Exists(d)' => (rows'[d].status = "completed"
                                          <=> rows'[d].response # NoVerdict)
    BY <1>a, <2>1 DEF SettledInv, Exists
  <2>8. QED
    BY <1>a, <2>5, <2>6, <2>7 DEF SettledInv
<1>b. \A c \in Calls : Exists(c) => project = "live"
  BY RowsAreRows DEF SettledInv
<1>1. ASSUME NEW c \in Calls, Arrive(c) PROVE SettledInv'
  BY <1>0, <1>1 DEF Arrive, Goto, TypeOK
<1>2. ASSUME NEW c \in Calls, LookUp(c) PROVE SettledInv'
  <2>1. \A d \in Calls : pc[d] = "done" => pc'[d] = "done"
    BY <1>2 DEF LookUp, Goto, TypeOK
  <2>2. shown' = shown \/ \E d \in Calls : Shows(d)
    BY <1>2, ResolveShows DEF LookUp, RowsForKey
  <2>3. QED
    BY <1>0, <1>2, <2>1, <2>2 DEF LookUp
<1>3. ASSUME NEW c \in Calls, Reserve(c) PROVE SettledInv'
  <2>1. CASE rows' = rows
    BY <1>0, <1>3, <2>1, ReserveWays DEF TypeOK
  <2>2. CASE ~Conflicts(c) /\ rows' = [rows EXCEPT ![c] = PendingRow(c)]
    <3>1. project = "live"
      BY <2>2, RowsAreRows DEF Conflicts
    <3>2. pc[c] = "reserve" /\ (\A d \in Calls \ {c} : pc'[d] = pc[d])
      BY <1>3, ReserveWays DEF TypeOK
    <3>3. QED
      BY <1>a, <1>3, <2>2, <3>1, <3>2, ReserveWays, WrittenRows
  <2>3. QED
    BY <1>3, <2>1, <2>2, ReserveWays
<1>4. ASSUME NEW c \in Calls, Reselect(c) PROVE SettledInv'
  <2>1. \A d \in Calls : pc[d] = "done" => pc'[d] = "done"
    BY <1>4 DEF Reselect, Goto, TypeOK
  <2>2. shown' = shown \/ \E d \in Calls : Shows(d)
    BY <1>4, ResolveShows DEF Reselect, RowsForKey
  <2>3. QED
    BY <1>0, <1>4, <2>1, <2>2 DEF Reselect
<1>5. ASSUME NEW c \in Calls, CrossIn(c) PROVE SettledInv'
  BY <1>0, <1>5 DEF CrossIn, Advance, Goto, TypeOK
<1>6. ASSUME NEW c \in Calls, Decide(c) PROVE SettledInv'
  BY <1>0, <1>6 DEF Decide, Advance, Goto, TypeOK
<1>7. ASSUME NEW c \in Calls, CrossOut(c) PROVE SettledInv'
  BY <1>0, <1>7 DEF CrossOut, Advance, Goto, TypeOK
<1>8. ASSUME NEW c \in Calls, Assemble(c) PROVE SettledInv'
  BY <1>0, <1>8 DEF Assemble, Goto, TypeOK
<1>9. ASSUME NEW c \in Calls, Finalise(c) PROVE SettledInv'
  <2>1. CASE rows' = rows /\ shown' = shown /\ pc' = [pc EXCEPT ![c] = "failing"]
    BY <1>0, <1>9, <2>1, FinaliseWays DEF TypeOK
  <2>2. CASE /\ Exists(c) /\ pc' = [pc EXCEPT ![c] = "done"]
             /\ rows' = [rows EXCEPT ![c] = CompletedRow(c)]
             /\ Show(c, decision[c])
    <3>1. decision[c] # NoVerdict
      BY <1>9, CaseDecisionAssumption, FinaliseWays DEF Contents, Answering, Envelopes
    <3>2. pc[c] = "finalise" /\ pc'[c] = "done" /\ (\A d \in Calls \ {c} : pc'[d] = pc[d])
      BY <1>9, <2>2, FinaliseWays DEF TypeOK
    <3>3. shown' = shown \cup {<<c, CompletedRow(c).response>>}
      BY <2>2, <3>1, WrittenRows DEF Show
    <3>4. project = "live" /\ project' = project
      BY <1>9, <1>b, <2>2, FinaliseWays
    <3>5. QED
      BY <1>a, <2>2, <3>1, <3>2, <3>3, <3>4, WrittenRows
  <2>3. QED
    BY <1>9, <2>1, <2>2, FinaliseWays
<1>10. ASSUME NEW c \in Calls, Fail(c) PROVE SettledInv'
  <2>1. CASE rows' = rows
    BY <1>0, <1>10, <2>1, FailWays DEF TypeOK
  <2>2. CASE Exists(c) /\ rows' = [rows EXCEPT ![c] = FailedRow(c)]
    <3>1. pc[c] = "failing" /\ pc'[c] = "done" /\ (\A d \in Calls \ {c} : pc'[d] = pc[d])
      BY <1>10, FailWays DEF TypeOK
    <3>2. rows[c].response = NoVerdict
      BY <2>2, <3>1 DEF SettledInv
    <3>3. project = "live" /\ project' = project /\ shown' = shown
      BY <1>10, <1>b, <2>2, FailWays
    <3>4. QED
      BY <1>a, <2>2, <3>1, <3>2, <3>3, WrittenRows
  <2>3. QED
    BY <1>10, <2>1, <2>2, FailWays
<1>11. ASSUME NEW c \in Calls, Lose(c) PROVE SettledInv'
  BY <1>0, <1>11 DEF Lose, InFlight, TypeOK
<1>12. ASSUME NEW c \in Calls, ReadReceipt(c) PROVE SettledInv'
  BY <1>0, <1>12 DEF ReadReceipt, Show, Shows
<1>13. ASSUME DeleteProject PROVE SettledInv'
  BY <1>13 DEF DeleteProject, SettledInv, ShownStaysCitable, Exists
<1>14. CASE UNCHANGED vars
  BY <1>0, <1>14 DEF vars
<1>15. QED
  BY <1>1, <1>2, <1>3, <1>4, <1>5, <1>6, <1>7, <1>8, <1>9, <1>10, <1>11, <1>12,
     <1>13, <1>14 DEF Next, Step

LEMMA SettledInit == Init => SettledInv
BY DEF Init, SettledInv, ShownStaysCitable, Exists

Everything == TypeOK /\ Reservations /\ Table /\ Contents /\ SettledInv

LEMMA EverythingHolds == Acknowledged => (Spec => []Everything)
<1> SUFFICES ASSUME Acknowledged PROVE Spec => []Everything
  OBVIOUS
<1>1. Init => Everything
  BY TypeInit, TableInit, ContentsInit, SettledInit DEF Everything
<1>2. Everything /\ [Next]_vars => Everything'
  BY TypeStep, TableStep, ContentsStep, SettledStep DEF Everything
<1>3. QED
  BY <1>1, <1>2, PTL DEF Spec

\* A verdict anyone was shown can be read again from the same row while the project
\* lives. An unacknowledged commit breaks this: the row is completed, a reader is shown
\* it, and the call then marks it failed.
THEOREM ShownVerdictsStay == Acknowledged => (Spec => []ShownStaysCitable)
<1> SUFFICES ASSUME Acknowledged PROVE Spec => []ShownStaysCitable
  OBVIOUS
<1>1. Everything => ShownStaysCitable
  BY DEF Everything, SettledInv
<1>2. QED
  BY <1>1, EverythingHolds, PTL

\* Only the step that reserves, finalises or fails a row writes it.
LEMMA Writers ==
  ASSUME Acknowledged, TypeOK, [Next]_vars
  PROVE  \/ rows' = rows
         \/ project' = "deleted"
         \/ \E c \in Calls : /\ Reserve(c) \/ Finalise(c) \/ Fail(c)
                             /\ \A d \in Calls \ {c} : rows'[d] = rows[d]
<1>1. ASSUME NEW c \in Calls, Reserve(c) \/ Finalise(c) \/ Fail(c)
      PROVE  \A d \in Calls \ {c} : rows'[d] = rows[d]
  BY <1>1, ReserveWays, FinaliseWays, FailWays DEF TypeOK
<1>2. CASE DeleteProject
  BY <1>2 DEF DeleteProject
<1>3. ASSUME NEW c \in Calls,
             \/ Arrive(c) \/ LookUp(c) \/ Reselect(c) \/ CrossIn(c) \/ Decide(c)
             \/ CrossOut(c) \/ Assemble(c) \/ Lose(c) \/ ReadReceipt(c)
      PROVE  rows' = rows
  BY <1>3 DEF Arrive, LookUp, Reselect, CrossIn, Decide, CrossOut, Assemble, Lose, ReadReceipt
<1>4. CASE UNCHANGED vars
  BY <1>4 DEF vars
<1>5. QED
  BY <1>1, <1>2, <1>3, <1>4 DEF Next, Step

\* A settled receipt is rewritten by no step, and goes only with its project.
THEOREM SettledStaysFinal == Acknowledged => (Spec => SettledIsFinal)
<1> SUFFICES ASSUME Acknowledged PROVE Spec => SettledIsFinal
  OBVIOUS
<1>1. Everything /\ [Next]_vars =>
        [\A c \in Calls :
           Exists(c) /\ rows[c].status # "pending" /\ project' = "live" => rows'[c] = rows[c]]_vars
  <2> SUFFICES ASSUME Everything, [Next]_vars, NEW c \in Calls,
                      Exists(c), rows[c].status # "pending", project' = "live"
               PROVE  rows'[c] = rows[c]
    OBVIOUS
  <2>1. pc[c] = "done"
    BY DEF Everything, SettledInv
  <2>2. ~(Reserve(c) \/ Finalise(c) \/ Fail(c))
    BY <2>1 DEF Reserve, Finalise, Fail, Goto
  <2>3. QED
    BY <2>2, Writers DEF Everything
<1>2. QED
  BY <1>1, EverythingHolds, PTL DEF Spec, SettledIsFinal

-----------------------------------------------------------------------------
(* The refinement. What a register shows depends on the project, the table   *)
(* and the history of what was shown, before a step as after it.             *)

RowsUnder(rs, k) == {d \in Calls : /\ rs[d] # NoRow
                                   /\ rs[d].key = k /\ k # NoKey}

RegisterOf(row) == [state |-> StateOf(row.status), verdict |-> row.response]

RegisterIn(p, rs, k) ==
  CASE p = "deleted" -> [state |-> "removed", verdict |-> NoVerdict]
    [] p = "live" /\ RowsUnder(rs, k) = {} -> [state |-> "unset", verdict |-> NoVerdict]
    [] OTHER -> RegisterOf(rs[CHOOSE d \in RowsUnder(rs, k) : TRUE])

SeenUnder(sh, in, k) == {s[2] : s \in {t \in sh : in[t[1]].key = k}}

LEMMA Mapping ==
  /\ KeyRegister = [k \in Keys |-> RegisterIn(project, rows, k)]
  /\ KeyRegister' = [k \in Keys |-> RegisterIn(project', rows', k)]
  /\ KeySeen = [k \in Keys |-> SeenUnder(shown, input, k)]
  /\ KeySeen' = [k \in Keys |-> SeenUnder(shown', input', k)]
BY DEF KeyRegister, KeySeen, RegisterIn, SeenUnder, RowsUnder, RowsForKey, Exists, RegisterOf

\* The register of a live project is the one row stored under the key.
LEMMA RegisterOfRow ==
  ASSUME NEW rs, NEW k, NEW d \in Calls, RowsUnder(rs, k) = {d}
  PROVE  RegisterIn("live", rs, k) = RegisterOf(rs[d])
<1>1. (CHOOSE e \in RowsUnder(rs, k) : TRUE) = d
  OBVIOUS
<1>2. QED
  BY <1>1 DEF RegisterIn

LEMMA OneRowUnderAKey ==
  ASSUME Everything, NEW k \in Keys, NEW d \in Calls, Exists(d), rows[d].key = k
  PROVE  RowsUnder(rows, k) = {d} /\ input[d].key = k /\ project = "live"
<1>1. k # NoKey
  BY CaseDecisionAssumption
<1>2. ASSUME NEW e \in RowsUnder(rows, k) PROVE e = d
  <2>1. e \in Calls /\ e \in reserved /\ input[e].key = k
    BY <1>2 DEF RowsUnder, Everything, Table, Exists
  <2>2. d \in reserved /\ input[d].key = k
    BY DEF Everything, Table
  <2>3. QED
    BY <1>1, <2>1, <2>2 DEF Everything, Reservations, SameKey
<1>3. d \in RowsUnder(rows, k)
  BY <1>1 DEF RowsUnder, Exists
<1>4. input[d].key = k
  BY DEF Everything, Table
<1>5. project = "live"
  BY RowsAreRows DEF Everything, SettledInv
<1>6. QED
  BY <1>2, <1>3, <1>4, <1>5

\* The call that writes a row moves the register of its key, if it has one, and no other.
LEMMA WriteMoves ==
  ASSUME Everything, NEW c \in Calls, NEW row \in Row, row.key = input[c].key,
         Exists(c) \/ RowsForKey(input[c].key) = {},
         project = "live", project' = project, rows' = [rows EXCEPT ![c] = row]
  PROVE  /\ input[c].key \notin Keys => KeyRegister' = KeyRegister
         /\ input[c].key \in Keys =>
              KeyRegister' = [KeyRegister EXCEPT ![input[c].key] = RegisterOf(row)]
<1> DEFINE key == input[c].key
<1>1. rows'[c] = row /\ row # NoRow /\ (\A d \in Calls \ {c} : rows'[d] = rows[d])
  BY RowsAreRows DEF Everything, TypeOK
<1>2. Exists(c) => rows[c].key = key
  BY DEF Everything, Table
<1>3. ASSUME NEW k \in Keys, k # key
      PROVE  RegisterIn("live", rows', k) = RegisterIn("live", rows, k)
  <2>1. c \notin RowsUnder(rows, k) /\ c \notin RowsUnder(rows', k)
    BY <1>1, <1>2, <1>3 DEF RowsUnder, Exists
  <2>2. RowsUnder(rows', k) = RowsUnder(rows, k)
    BY <1>1, <2>1 DEF RowsUnder
  <2>3. CASE RowsUnder(rows, k) = {}
    BY <2>2, <2>3 DEF RegisterIn
  <2>4. ASSUME NEW d \in RowsUnder(rows, k)
        PROVE  RegisterIn("live", rows', k) = RegisterIn("live", rows, k)
    <3>1. d \in Calls /\ Exists(d) /\ rows[d].key = k /\ d # c
      BY <2>1, <2>4 DEF RowsUnder, Exists
    <3>2. RowsUnder(rows, k) = {d}
      BY <3>1, OneRowUnderAKey
    <3>3. RegisterIn("live", rows, k) = RegisterOf(rows[d])
      BY <3>1, <3>2, RegisterOfRow
    <3>4. RegisterIn("live", rows', k) = RegisterOf(rows'[d])
      BY <2>2, <3>1, <3>2, RegisterOfRow
    <3>5. QED
      BY <1>1, <3>1, <3>3, <3>4
  <2>5. QED
    BY <2>3, <2>4
<1>4. ASSUME key \in Keys PROVE RegisterIn("live", rows', key) = RegisterOf(row)
  <2>1. key # NoKey
    BY <1>4, CaseDecisionAssumption
  <2>2. ASSUME NEW d \in Calls \ {c}, Exists(d), rows[d].key = key PROVE FALSE
    <3>1. RowsUnder(rows, key) = {d}
      BY <1>4, <2>2, OneRowUnderAKey
    <3>2. ~Exists(c)
      BY <1>2, <2>1, <2>2, <3>1 DEF RowsUnder, Exists
    <3>3. QED
      BY <2>1, <2>2, <3>2 DEF RowsForKey
  <2>3. RowsUnder(rows', key) = {c}
    BY <1>1, <2>1, <2>2 DEF RowsUnder, Exists
  <2>4. RegisterIn("live", rows', key) = RegisterOf(rows'[c])
    BY <2>3, RegisterOfRow
  <2>5. QED
    BY <1>1, <2>4
<1> HIDE DEF key
<1>5. /\ KeyRegister = [k \in Keys |-> RegisterIn("live", rows, k)]
      /\ KeyRegister' = [k \in Keys |-> RegisterIn("live", rows', k)]
  BY Mapping
<1>6. CASE key \in Keys
  BY <1>3, <1>4, <1>5, <1>6 DEF key
<1>7. CASE key \notin Keys
  BY <1>3, <1>5, <1>7 DEF key
<1>8. QED
  BY <1>6, <1>7 DEF key

\* A caller who is shown the verdict of a completed row sees the register of its key.
LEMMA ShowingSees ==
  ASSUME Everything, UNCHANGED <<project, rows, input>>,
         shown' = shown \/ \E d \in Calls : Shows(d)
  PROVE  [Promise!Next]_(Promise!vars)
<1>1. KeyRegister' = KeyRegister
  BY Mapping
<1>2. CASE shown' = shown
  BY <1>1, <1>2, Mapping DEF Promise!vars
<1>3. ASSUME NEW d \in Calls, Shows(d)
      PROVE  [Promise!Next]_(Promise!vars)
  <2>1. /\ Exists(d) /\ rows[d].status = "completed" /\ rows[d].key = input[d].key
        /\ shown' = shown \cup {<<d, rows[d].response>>}
    BY <1>3 DEF Shows, Everything, Table
  <2>2. \A k \in Keys : SeenUnder(shown', input', k) =
          IF input[d].key = k THEN SeenUnder(shown, input, k) \cup {rows[d].response}
                              ELSE SeenUnder(shown, input, k)
    <3> DEFINE s == <<d, rows[d].response>>
    <3>1. s[1] = d /\ s[2] = rows[d].response
      OBVIOUS
    <3>2. shown' = shown \cup {s} /\ input' = input
      BY <2>1
    <3> HIDE DEF s
    <3>3. QED
      BY <3>1, <3>2 DEF SeenUnder
  <2>3. CASE input[d].key \notin Keys
    <3>1. KeySeen' = KeySeen
      BY <2>2, <2>3, Mapping
    <3>2. QED
      BY <1>1, <3>1 DEF Promise!vars
  <2>4. CASE input[d].key \in Keys
    <3> DEFINE k == input[d].key
    <3>1. KeyRegister[k] = RegisterOf(rows[d])
      BY <2>1, <2>4, OneRowUnderAKey, RegisterOfRow, Mapping
    <3>2. KeyRegister[k].state = "settled" /\ KeyRegister[k].verdict = rows[d].response
      BY <2>1, <3>1 DEF RegisterOf, StateOf
    <3>3. KeySeen' = [KeySeen EXCEPT ![k] = @ \cup {rows[d].response}]
      BY <2>2, <2>4, Mapping
    <3>4. Promise!See(k)
      BY <1>1, <3>2, <3>3 DEF Promise!See
    <3>5. QED
      BY <2>4, <3>4 DEF Promise!Next
  <2>5. QED
    BY <2>3, <2>4
<1>4. QED
  BY <1>2, <1>3

LEMMA RegisterInit == Init => Promise!Init
<1> SUFFICES ASSUME Init PROVE Promise!Init
  OBVIOUS
<1>1. \A k \in Keys : RegisterIn(project, rows, k) = [state |-> "unset", verdict |-> NoVerdict]
  BY DEF Init, RegisterIn, RowsUnder
<1>2. \A k \in Keys : SeenUnder(shown, input, k) = {}
  BY DEF Init, SeenUnder
<1>3. QED
  BY <1>1, <1>2, Mapping DEF Promise!Init, Promise!Cell

LEMMA RegisterStep ==
  Acknowledged /\ Everything /\ [Next]_vars => [Promise!Next]_(Promise!vars)
<1> SUFFICES ASSUME Acknowledged, Everything, [Next]_vars
             PROVE  [Promise!Next]_(Promise!vars)
  OBVIOUS
<1>a. TypeOK /\ Contents /\ SettledInv
  BY DEF Everything
<1>b. \A c \in Calls : Exists(c) => project = "live" /\ rows[c].key = input[c].key
  BY <1>a, RowsAreRows DEF Everything, SettledInv, Table
\* A step that writes no row, and shows nothing or a completed row.
<1>0. ASSUME UNCHANGED <<project, rows, input>>,
             shown' = shown \/ \E d \in Calls : Shows(d)
      PROVE  [Promise!Next]_(Promise!vars)
  BY <1>0, ShowingSees
<1>1. ASSUME NEW c \in Calls,
             \/ Arrive(c) \/ CrossIn(c) \/ Decide(c) \/ CrossOut(c) \/ Assemble(c) \/ Lose(c)
      PROVE  [Promise!Next]_(Promise!vars)
  BY <1>0, <1>1 DEF Arrive, CrossIn, Decide, CrossOut, Assemble, Lose
<1>2. ASSUME NEW c \in Calls, LookUp(c) \/ Reselect(c)
      PROVE  [Promise!Next]_(Promise!vars)
  <2>1. UNCHANGED <<project, rows, input>>
    BY <1>2 DEF LookUp, Reselect
  <2>2. \/ shown' = shown
        \/ \E d \in RowsForKey(input[c].key) : Resolve(c, d)
    BY <1>2 DEF LookUp, Reselect
  <2>3. shown' = shown \/ \E d \in Calls : Shows(d)
    BY <1>a, <2>2, ResolveShows DEF RowsForKey
  <2>4. QED
    BY <1>0, <2>1, <2>3
<1>3. ASSUME NEW c \in Calls, ReadReceipt(c)
      PROVE  [Promise!Next]_(Promise!vars)
  BY <1>0, <1>3 DEF ReadReceipt, Show, Shows
<1>4. ASSUME NEW c \in Calls, Reserve(c)
      PROVE  [Promise!Next]_(Promise!vars)
  <2>1. CASE rows' = rows
    BY <1>0, <1>4, <2>1, ReserveWays
  <2>2. CASE ~Conflicts(c) /\ rows' = [rows EXCEPT ![c] = PendingRow(c)]
    <3>1. RowsForKey(input[c].key) = {} /\ project = "live"
      BY <1>a, <2>2, RowsAreRows DEF Conflicts
    <3>2. RegisterOf(PendingRow(c)) = Promise!Cell("open")
      BY <1>a, WrittenRows DEF RegisterOf, StateOf, Promise!Cell
    <3>3. KeySeen' = KeySeen
      BY <1>4, ReserveWays, Mapping
    <3>4. CASE input[c].key \notin Keys
      BY <1>4, <1>a, <2>2, <3>1, <3>3, <3>4, ReserveWays, WriteMoves, WrittenRows
      DEF Promise!vars
    <3>5. CASE input[c].key \in Keys
      <4>1. KeyRegister[input[c].key].state = "unset"
        BY <3>1, <3>5, Mapping DEF RegisterIn, RowsForKey, RowsUnder, Exists
      <4>2. KeyRegister' = [KeyRegister EXCEPT ![input[c].key] = Promise!Cell("open")]
        <5>1. PendingRow(c) \in Row /\ PendingRow(c).key = input[c].key
          BY <1>a, WrittenRows
        <5>2. project' = project
          BY <1>4, ReserveWays
        <5>3. QED
          BY <2>2, <3>1, <3>2, <3>5, <5>1, <5>2, WriteMoves
      <4>3. Promise!Open(input[c].key)
        BY <3>3, <4>1, <4>2 DEF Promise!Open, Promise!Move
      <4>4. QED
        BY <3>5, <4>3 DEF Promise!Next
    <3>6. QED
      BY <3>4, <3>5
  <2>3. QED
    BY <1>4, <2>1, <2>2, ReserveWays
\* The register of a row that is still pending is open.
<1>5. ASSUME NEW c \in Calls, Exists(c), input[c].key \in Keys, pc[c] # "done"
      PROVE  KeyRegister[input[c].key].state = "open"
  <2>1. rows[c].status = "pending"
    BY <1>5, <1>a DEF SettledInv
  <2>2. KeyRegister[input[c].key] = RegisterOf(rows[c])
    BY <1>5, <1>b, OneRowUnderAKey, RegisterOfRow, Mapping
  <2>3. QED
    BY <2>1, <2>2 DEF RegisterOf, StateOf
<1>6. ASSUME NEW c \in Calls, Finalise(c)
      PROVE  [Promise!Next]_(Promise!vars)
  <2>1. CASE rows' = rows /\ shown' = shown
    BY <1>0, <1>6, <1>a, <2>1, FinaliseWays
  <2>2. CASE Exists(c) /\ rows' = [rows EXCEPT ![c] = CompletedRow(c)] /\ Show(c, decision[c])
    <3>1. pc[c] = "finalise" /\ UNCHANGED <<project, input>>
      BY <1>6, <1>a, FinaliseWays
    <3>2. decision[c] \in Envelopes /\ decision[c] # NoVerdict
      BY <1>a, <3>1, CaseDecisionAssumption DEF Contents, Answering, Envelopes
    <3>3. /\ CompletedRow(c) \in Row /\ CompletedRow(c).key = input[c].key
          /\ RegisterOf(CompletedRow(c)) = [state |-> "settled", verdict |-> decision[c]]
      BY <1>a, <1>b, <2>2, WrittenRows DEF RegisterOf, StateOf
    <3>4. shown' = shown \cup {<<c, decision[c]>>}
      BY <2>2, <3>2 DEF Show
    <3>5. \A k \in Keys : SeenUnder(shown', input', k) =
            IF input[c].key = k THEN SeenUnder(shown, input, k) \cup {decision[c]}
                                ELSE SeenUnder(shown, input, k)
      <4> DEFINE s == <<c, decision[c]>>
      <4>1. s[1] = c /\ s[2] = decision[c]
        OBVIOUS
      <4>2. shown' = shown \cup {s} /\ input' = input
        BY <3>1, <3>4
      <4> HIDE DEF s
      <4>3. QED
        BY <4>1, <4>2 DEF SeenUnder
    <3>6. CASE input[c].key \notin Keys
      <4>1. KeySeen' = KeySeen
        BY <3>5, <3>6, Mapping
      <4>2. KeyRegister' = KeyRegister
        BY <1>b, <2>2, <3>1, <3>3, <3>6, WriteMoves
      <4>3. QED
        BY <4>1, <4>2 DEF Promise!vars
    <3>7. CASE input[c].key \in Keys
      <4>1. KeySeen' = [KeySeen EXCEPT ![input[c].key] = @ \cup {decision[c]}]
        BY <3>5, <3>7, Mapping
      <4>2. KeyRegister' = [KeyRegister EXCEPT ![input[c].key] =
                              [state |-> "settled", verdict |-> decision[c]]]
        BY <1>b, <2>2, <3>1, <3>3, <3>7, WriteMoves
      <4>3. Promise!Settle(input[c].key)
        BY <1>5, <2>2, <3>1, <3>2, <3>7, <4>1, <4>2 DEF Promise!Settle, Promise!Move
      <4>4. QED
        BY <3>7, <4>3 DEF Promise!Next
    <3>8. QED
      BY <3>6, <3>7
  <2>3. QED
    BY <1>6, <1>a, <2>1, <2>2, FinaliseWays
<1>7. ASSUME NEW c \in Calls, Fail(c)
      PROVE  [Promise!Next]_(Promise!vars)
  <2>1. CASE rows' = rows
    BY <1>0, <1>7, <2>1, FailWays
  <2>2. CASE Exists(c) /\ rows' = [rows EXCEPT ![c] = FailedRow(c)]
    <3>1. pc[c] = "failing" /\ UNCHANGED <<project, input, shown>>
      BY <1>7, FailWays
    <3>2. rows[c].response = NoVerdict
      BY <1>a, <2>2, <3>1 DEF SettledInv
    <3>3. /\ FailedRow(c) \in Row /\ FailedRow(c).key = input[c].key
          /\ RegisterOf(FailedRow(c)) = Promise!Cell("void")
      BY <1>a, <1>b, <2>2, <3>2, WrittenRows DEF RegisterOf, StateOf, Promise!Cell
    <3>4. KeySeen' = KeySeen
      BY <3>1, Mapping
    <3>5. CASE input[c].key \notin Keys
      BY <1>b, <2>2, <3>1, <3>3, <3>4, <3>5, WriteMoves DEF Promise!vars
    <3>6. CASE input[c].key \in Keys
      <4>1. KeyRegister' = [KeyRegister EXCEPT ![input[c].key] = Promise!Cell("void")]
        BY <1>b, <2>2, <3>1, <3>3, <3>6, WriteMoves
      <4>2. Promise!Void(input[c].key)
        BY <1>5, <2>2, <3>1, <3>4, <3>6, <4>1 DEF Promise!Void, Promise!Move
      <4>3. QED
        BY <3>6, <4>2 DEF Promise!Next
    <3>7. QED
      BY <3>5, <3>6
  <2>3. QED
    BY <1>7, <2>1, <2>2, FailWays
<1>8. CASE DeleteProject
  <2>1. KeyRegister' = [k \in Keys |-> Promise!Cell("removed")]
    BY <1>8, Mapping DEF DeleteProject, RegisterIn, Promise!Cell
  <2>2. KeySeen' = KeySeen
    BY <1>8, Mapping DEF DeleteProject
  <2>3. QED
    BY <2>1, <2>2 DEF Promise!Remove, Promise!Next
<1>9. CASE UNCHANGED vars
  BY <1>0, <1>9 DEF vars
<1>10. QED
  BY <1>1, <1>2, <1>3, <1>4, <1>6, <1>7, <1>8, <1>9 DEF Next, Step

\* The service keeps the promise of DecisionRegister: seen through the receipt table,
\* every Idempotency-Key is opened once, settled at most once, and then shows its verdict.
THEOREM ServiceKeepsItsPromise == Acknowledged => (Spec => KeysAreRegisters)
<1> SUFFICES ASSUME Acknowledged PROVE Spec => KeysAreRegisters
  OBVIOUS
<1>1. Everything /\ [Next]_vars => [Promise!Next]_(Promise!vars)
  BY RegisterStep
<1>2. QED
  BY <1>1, RegisterInit, EverythingHolds, PTL DEF Spec, KeysAreRegisters, Promise!Spec

-----------------------------------------------------------------------------
(* What follows from the promise.                                            *)

\* What was shown is what the key was settled to; before it is settled, nothing.
ShownIsSettled ==
  \A k \in Keys :
    /\ KeyRegister[k].state \in {"unset", "open", "void"} => KeySeen[k] = {}
    /\ KeyRegister[k].state = "settled" =>
         /\ KeyRegister[k].verdict \in Envelopes
         /\ KeySeen[k] \subseteq {KeyRegister[k].verdict}

PromiseInv == Promise!TypeOK /\ ShownIsSettled /\ Promise!OneVerdictPerKey

LEMMA PromiseInit == Promise!Init => PromiseInv
BY DEF Promise!Init, PromiseInv, Promise!TypeOK, ShownIsSettled, Promise!OneVerdictPerKey,
   Promise!Cell, Promise!Register

\* A step at one register leaves the others and what they showed alone.
LEMMA PromiseMove ==
  ASSUME PromiseInv, NEW k \in Keys, NEW cell \in Promise!Register,
         NEW more \in SUBSET Envelopes,
         KeyRegister' = [KeyRegister EXCEPT ![k] = cell],
         KeySeen' = [KeySeen EXCEPT ![k] = @ \cup more],
         \A v, w \in KeySeen[k] \cup more : v = w,
         cell.state \in {"unset", "open", "void"} => KeySeen[k] \cup more = {},
         cell.state = "settled" =>
           cell.verdict \in Envelopes /\ KeySeen[k] \cup more \subseteq {cell.verdict}
  PROVE  PromiseInv'
<1>1. Promise!TypeOK'
  BY DEF PromiseInv, Promise!TypeOK
<1>2. \A j \in Keys : j # k => KeyRegister'[j] = KeyRegister[j] /\ KeySeen'[j] = KeySeen[j]
  BY DEF PromiseInv, Promise!TypeOK
<1>3. KeyRegister'[k] = cell /\ KeySeen'[k] = KeySeen[k] \cup more
  BY DEF PromiseInv, Promise!TypeOK
<1>4. ShownIsSettled'
  BY <1>2, <1>3 DEF PromiseInv, ShownIsSettled
<1>5. Promise!OneVerdictPerKey'
  BY <1>2, <1>3 DEF PromiseInv, Promise!OneVerdictPerKey
<1>6. QED
  BY <1>1, <1>4, <1>5 DEF PromiseInv

LEMMA PromiseStep == PromiseInv /\ [Promise!Next]_(Promise!vars) => PromiseInv'
<1> SUFFICES ASSUME PromiseInv, [Promise!Next]_(Promise!vars) PROVE PromiseInv'
  OBVIOUS
<1>0. Promise!TypeOK /\ ShownIsSettled /\ Promise!OneVerdictPerKey
  BY DEF PromiseInv
<1>a. \A k \in Keys : KeyRegister[k] \in Promise!Register /\ KeySeen[k] \in SUBSET Envelopes
  BY <1>0 DEF Promise!TypeOK
<1>1. ASSUME NEW k \in Keys, NEW state \in {"open", "void"},
             KeyRegister[k].state \in {"unset", "open"},
             KeyRegister' = [KeyRegister EXCEPT ![k] = Promise!Cell(state)], KeySeen' = KeySeen
      PROVE  PromiseInv'
  <2>1. KeySeen' = [KeySeen EXCEPT ![k] = @ \cup {}]
    BY <1>0, <1>1 DEF Promise!TypeOK
  <2>2. /\ KeySeen[k] = {}
        /\ Promise!Cell(state) \in Promise!Register /\ Promise!Cell(state).state = state
    BY <1>0, <1>1 DEF ShownIsSettled, Promise!Cell, Promise!Register
  <2>3. QED
    BY <1>1, <2>1, <2>2, PromiseMove
<1>2. ASSUME NEW k \in Keys, Promise!Open(k) \/ Promise!Void(k) PROVE PromiseInv'
  BY <1>1, <1>2 DEF Promise!Open, Promise!Void, Promise!Move
<1>3. ASSUME NEW k \in Keys, Promise!Settle(k) PROVE PromiseInv'
  <2>1. PICK v \in Envelopes :
          /\ Promise!Move(k, "open", [state |-> "settled", verdict |-> v])
          /\ KeySeen' = [KeySeen EXCEPT ![k] = @ \cup {v}]
    BY <1>3 DEF Promise!Settle
  <2>2. KeySeen[k] = {} /\ [state |-> "settled", verdict |-> v] \in Promise!Register
    BY <1>0, <2>1 DEF Promise!Move, ShownIsSettled, Promise!Register
  <2>3. KeyRegister' = [KeyRegister EXCEPT ![k] = [state |-> "settled", verdict |-> v]]
    BY <2>1 DEF Promise!Move
  <2>4. KeySeen[k] \cup {v} = {v} /\ {v} \in SUBSET Envelopes
    BY <2>2
  <2>5. QED
    BY <2>1, <2>2, <2>3, <2>4, PromiseMove
<1>4. ASSUME NEW k \in Keys, Promise!See(k) PROVE PromiseInv'
  <2>1. KeyRegister[k].state = "settled"
    BY <1>4 DEF Promise!See
  <2>2. KeyRegister[k].verdict \in Envelopes /\ KeySeen[k] \subseteq {KeyRegister[k].verdict}
    BY <1>0, <2>1 DEF ShownIsSettled
  <2>3. /\ KeyRegister' = [KeyRegister EXCEPT ![k] = KeyRegister[k]]
        /\ KeySeen' = [KeySeen EXCEPT ![k] = @ \cup {KeyRegister[k].verdict}]
    BY <1>0, <1>4 DEF Promise!See, Promise!TypeOK
  <2>4. /\ {KeyRegister[k].verdict} \in SUBSET Envelopes
        /\ KeySeen[k] \cup {KeyRegister[k].verdict} \subseteq {KeyRegister[k].verdict}
        /\ \A v, w \in KeySeen[k] \cup {KeyRegister[k].verdict} : v = w
    BY <2>2
  <2>5. QED
    BY <1>a, <2>1, <2>2, <2>3, <2>4, PromiseMove
<1>5. CASE Promise!Remove
  BY <1>0, <1>5 DEF Promise!Remove, PromiseInv, Promise!TypeOK, ShownIsSettled,
     Promise!OneVerdictPerKey, Promise!Cell, Promise!Register
<1>6. CASE UNCHANGED Promise!vars
  BY <1>0, <1>6 DEF Promise!vars, PromiseInv, Promise!TypeOK, ShownIsSettled,
     Promise!OneVerdictPerKey
<1>7. QED
  BY <1>2, <1>3, <1>4, <1>5, <1>6 DEF Promise!Next

\* Nobody is shown two verdicts under one Idempotency-Key by a service that keeps the
\* promise, whatever else it does, however often a call is repeated and its receipt read
\* (_resolve_existing, get_decision_receipt).
THEOREM OneVerdictIsShown == Promise!Spec => []Promise!OneVerdictPerKey
<1>1. Promise!Spec => []PromiseInv
  BY PromiseInit, PromiseStep, PTL DEF Promise!Spec
<1>2. PromiseInv => Promise!OneVerdictPerKey
  BY DEF PromiseInv
<1>3. QED
  BY <1>1, <1>2, PTL

\* The decision service keeps it, and so shows one verdict under one key to everyone:
\* those who get it decided, those who repeat the call and those who read the receipt.
THEOREM ServiceShowsOneVerdict == Acknowledged => (Spec => []Promise!OneVerdictPerKey)
<1>1. Acknowledged => (Spec => Promise!Spec)
  BY ServiceKeepsItsPromise DEF KeysAreRegisters
<1>2. QED
  BY <1>1, OneVerdictIsShown, PTL
=============================================================================
