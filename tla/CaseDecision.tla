---------------------------- MODULE CaseDecision ----------------------------
(***************************************************************************)
(* The life of one case decision: POST /projects/{key}/case reserves a     *)
(* receipt, runs the decider, and finalises the receipt                    *)
(* (application/policy_case_decision.py), over the receipt table           *)
(* (persistence/repositories/case_decisions.py).                           *)
(*                                                                         *)
(* Each element of Calls is one request, used at most once, and names the  *)
(* receipt row it may reserve.  A key stands for a pair (authenticated     *)
(* principal, Idempotency-Key) in one project.  A request value stands for *)
(* everything the canonical request hash covers.                           *)
(*                                                                         *)
(* Every database commit is one atomic step.  CommitFaults says how it may *)
(* fail: without taking effect ("refused"), or by taking effect and still  *)
(* raising ("unacknowledged"), which is what a connection lost between     *)
(* COMMIT and its acknowledgement looks like.  A worker can die at any     *)
(* point of a call.                                                        *)
(***************************************************************************)
EXTENDS FiniteSets

CONSTANTS
  Calls,             (* the requests that may arrive                         *)
  Keys,              (* (principal, Idempotency-Key) pairs                   *)
  Requests,          (* request bodies, up to the canonical request hash     *)
  Verdicts,          (* what the decider may say                             *)
  NoKey, NoVerdict, NoRow,
  CommitFaults       (* the ways in which a commit may raise                 *)

ASSUME CaseDecisionAssumption ==
  /\ NoKey \notin Keys
  /\ NoVerdict \notin [about : Requests, says : Verdicts]
  /\ NoRow \notin [status : {"pending", "completed", "failed"},
                   key : Keys \cup {NoKey},
                   request : Requests,
                   response : [about : Requests, says : Verdicts] \cup {NoVerdict}]
  /\ CommitFaults \subseteq {"refused", "unacknowledged"}

VARIABLES
  project,    (* "live" or "deleted": the policy set all rows belong to       *)
  rows,       (* the policy_case_decisions table, by the call that reserved it *)
  input,      (* what each call asked                                         *)
  pc,         (* where each call is in _decide_project_case                   *)
  decision,   (* the verdict a call holds between the decider and the receipt *)
  failure,    (* the failure a call is about to record                        *)
  answer,     (* what each call was told                                      *)
  reserved,   (* history: calls whose reservation was committed               *)
  ran,        (* history: calls that invoked the decider                      *)
  shown,      (* history: <<row, verdict>> pairs some reader was handed       *)
  unstored    (* history: calls whose failure the store refused               *)

vars == <<project, rows, input, pc, decision, failure, answer, reserved, ran, shown, unstored>>

-----------------------------------------------------------------------------
Envelopes == [about : Requests, says : Verdicts]

Row == [status : {"pending", "completed", "failed"},
        key : Keys \cup {NoKey},
        request : Requests,
        response : Envelopes \cup {NoVerdict}]

Inputs == [key : Keys \cup {NoKey}, request : Requests]

\* "decision_failed" stands for everything the decider may raise: no such
\* policy, an invalid request, an index or a rule scope that is not ready, no
\* model.  They differ in the code the caller reads and in nothing else.
Faults == {"decision_failed", "translation_unavailable", "decision_receipt_failed"}

Refusals == {"idempotency_key_reused", "decision_in_progress",
             "decision_previously_failed"}

Codes == Faults \cup Refusals \cup
         {"none", "refused", "decision_reservation_conflict",
          "decision_receipt_unavailable", "internal_error", "decided", "replayed"}

Answers == [code : Codes, verdict : Envelopes \cup {NoVerdict}]

Silence == [code |-> "none", verdict |-> NoVerdict]

Refused(code) == [code |-> code, verdict |-> NoVerdict]

InFlight == {"lookup", "reserve", "reselect", "language_in", "deciding",
             "language_out", "assemble", "finalise", "failing"}

\* Whether a commit took effect, and whether the caller saw it succeed.
CommitOutcomes ==
  {[applied |-> TRUE, ok |-> TRUE]} \cup
  {[applied |-> f = "unacknowledged", ok |-> FALSE] : f \in CommitFaults}

Exists(c) == rows[c] # NoRow

\* An UPDATE of a row that teardown deleted raises, and writes nothing.
UpdateOutcomes(c) ==
  IF Exists(c) THEN CommitOutcomes ELSE {[applied |-> FALSE, ok |-> FALSE]}

\* find_by_idempotency_key: at most one row, by the unique constraint.
RowsForKey(k) == {d \in Calls : Exists(d) /\ rows[d].key = k /\ k # NoKey}

PendingRow(c) == [status |-> "pending", key |-> input[c].key,
                  request |-> input[c].request, response |-> NoVerdict]

\* Mutant: the verdict is stored and the status is not.
UnsettledRow(c) == [rows[c] EXCEPT !.response = decision[c]]

CompletedRow(c) == [rows[c] EXCEPT !.status = "completed", !.response = decision[c]]

\* finalize_failed sets the status and the failure; whatever response the
\* row holds it leaves in place.
FailedRow(c) == [rows[c] EXCEPT !.status = "failed"]

\* Mutant: the stored request hash is not compared.
ResolutionOfAnyRequest(row, request) ==
  CASE row.status = "completed" /\ row.response # NoVerdict ->
         [code |-> "replayed", verdict |-> row.response]
    [] row.status = "pending" -> Refused("decision_in_progress")
    [] OTHER -> Refused("decision_previously_failed")

\* _resolve_existing: what a row already stored under the caller's key means.
Resolution(row, request) ==
  CASE row.request # request -> Refused("idempotency_key_reused")
    [] row.request = request /\ row.status = "completed" /\ row.response # NoVerdict ->
         [code |-> "replayed", verdict |-> row.response]
    [] row.request = request /\ row.status = "pending" -> Refused("decision_in_progress")
    [] OTHER -> Refused("decision_previously_failed")

\* A read of row d that hands over its verdict, if Resolution finds one.
Show(d, verdict) ==
  shown' = IF verdict = NoVerdict THEN shown ELSE shown \cup {<<d, verdict>>}

-----------------------------------------------------------------------------
Init ==
  /\ project = "live"
  /\ rows = [c \in Calls |-> NoRow]
  /\ input \in [Calls -> Inputs]
  /\ pc = [c \in Calls |-> "idle"]
  /\ decision = [c \in Calls |-> NoVerdict]
  /\ failure = [c \in Calls |-> "none"]
  /\ answer = [c \in Calls |-> Silence]
  /\ reserved = {}
  /\ ran = {}
  /\ shown = {}
  /\ unstored = {}

Goto(c, from, to) == pc[c] = from /\ pc' = [pc EXCEPT ![c] = to]

Reply(c, a) == answer' = [answer EXCEPT ![c] = a]

\* The call is admitted, or refused before anything is read or written: no
\* such project, a bad combination of options, AI switched off, text too long.
Arrive(c) ==
  /\ \/ /\ project = "live"
        /\ Goto(c, "idle", "lookup")
        /\ UNCHANGED answer
     \/ /\ Goto(c, "idle", "done")
        /\ Reply(c, Refused("refused"))
  /\ UNCHANGED <<project, rows, input, decision, failure, reserved, ran, shown, unstored>>

Resolve(c, d) ==
  LET a == Resolution(rows[d], input[c].request)
  IN  Reply(c, a) /\ Show(d, a.verdict)

\* A keyed call looks for a row of its key first; a keyless one never does.
LookUp(c) ==
  /\ \/ \E d \in RowsForKey(input[c].key) :
          /\ Goto(c, "lookup", "done")
          /\ Resolve(c, d)
     \/ /\ RowsForKey(input[c].key) = {}
        /\ Goto(c, "lookup", "reserve")
        /\ UNCHANGED <<answer, shown>>
  /\ UNCHANGED <<project, rows, input, decision, failure, reserved, ran, unstored>>

\* Mutant: the unique constraint on the key is missing.
ConflictsWithoutConstraint(c) == project = "deleted"

\* The INSERT of a pending row, committed on its own.  It conflicts with a row
\* of the same key, and with a project deleted meanwhile (the foreign key).
Conflicts(c) == project = "deleted" \/ RowsForKey(input[c].key) # {}

Reserve(c) ==
  /\ \/ /\ Conflicts(c)
        /\ Goto(c, "reserve", "reselect")
        /\ UNCHANGED <<rows, answer, reserved>>
     \/ /\ ~Conflicts(c)
        /\ \E o \in CommitOutcomes :
             /\ Goto(c, "reserve", IF o.ok THEN "language_in" ELSE "done")
             /\ Reply(c, IF o.ok THEN answer[c]
                                 ELSE Refused("decision_receipt_unavailable"))
             /\ rows' = IF o.applied THEN [rows EXCEPT ![c] = PendingRow(c)] ELSE rows
             /\ reserved' = IF o.applied THEN reserved \cup {c} ELSE reserved
  /\ UNCHANGED <<project, input, decision, failure, ran, shown, unstored>>

\* After an IntegrityError: roll back, look again, and answer from the winner.
Reselect(c) ==
  /\ Goto(c, "reselect", "done")
  /\ \/ \E d \in RowsForKey(input[c].key) : Resolve(c, d)
     \/ /\ RowsForKey(input[c].key) = {}
        /\ Reply(c, Refused("decision_reservation_conflict"))
        /\ UNCHANGED shown
  /\ UNCHANGED <<project, rows, input, decision, failure, reserved, ran, unstored>>

\* One stage of the call either moves on or ends in a failure to be recorded.
Advance(c, from, to, fault) ==
  \/ Goto(c, from, to) /\ UNCHANGED failure
  \/ Goto(c, from, "failing") /\ failure' = [failure EXCEPT ![c] = fault]

CrossIn(c) ==
  /\ Advance(c, "language_in", "deciding", "translation_unavailable")
  /\ UNCHANGED <<project, rows, input, decision, answer, reserved, ran, shown, unstored>>

\* The model is called with no transaction open.
Decide(c) ==
  /\ Advance(c, "deciding", "language_out", "decision_failed")
  /\ ran' = ran \cup {c}
  /\ IF pc'[c] = "failing"
     THEN UNCHANGED decision
     ELSE \E v \in Verdicts :
            decision' = [decision EXCEPT ![c] = [about |-> input[c].request, says |-> v]]
  /\ UNCHANGED <<project, rows, input, answer, reserved, shown, unstored>>

CrossOut(c) ==
  /\ Advance(c, "language_out", "assemble", "translation_unavailable")
  /\ UNCHANGED <<project, rows, input, decision, answer, reserved, ran, shown, unstored>>

\* The policy links are read and the envelope is built outside every handler:
\* a fault here reaches the caller as a plain 500 and touches no row.
Assemble(c) ==
  /\ \/ Goto(c, "assemble", "finalise") /\ UNCHANGED answer
     \/ Goto(c, "assemble", "done") /\ Reply(c, Refused("internal_error"))
  /\ UNCHANGED <<project, rows, input, decision, failure, reserved, ran, shown, unstored>>

\* Mutant: the caller is told the verdict before the receipt is known to be stored.
AnswerBeforeStoring(c) ==
  /\ \E o \in UpdateOutcomes(c) :
       rows' = IF o.applied THEN [rows EXCEPT ![c] = CompletedRow(c)] ELSE rows
  /\ Goto(c, "finalise", "done")
  /\ Reply(c, [code |-> "decided", verdict |-> decision[c]])
  /\ Show(c, decision[c])
  /\ UNCHANGED <<project, input, decision, failure, reserved, ran, unstored>>

\* finalize_completed.
Finalise(c) ==
  /\ \E o \in UpdateOutcomes(c) :
       /\ rows' = IF o.applied THEN [rows EXCEPT ![c] = CompletedRow(c)] ELSE rows
       /\ \/ /\ o.ok
             /\ Goto(c, "finalise", "done")
             /\ Reply(c, [code |-> "decided", verdict |-> decision[c]])
             /\ Show(c, decision[c])
             /\ UNCHANGED failure
          \/ /\ ~o.ok
             /\ Goto(c, "finalise", "failing")
             /\ failure' = [failure EXCEPT ![c] = "decision_receipt_failed"]
             /\ UNCHANGED <<answer, shown>>
  /\ UNCHANGED <<project, input, decision, reserved, ran, unstored>>

\* Mutant: the caller is told, and the row is not.
FailUnrecorded(c) ==
  /\ Goto(c, "failing", "done")
  /\ Reply(c, Refused(failure[c]))
  /\ UNCHANGED <<project, rows, input, decision, failure, reserved, ran, shown, unstored>>

\* _fail, and the failure branch of the finalisation: the row is marked failed
\* if that can be stored, and the caller gets the failure either way.
Fail(c) ==
  /\ Goto(c, "failing", "done")
  /\ Reply(c, Refused(failure[c]))
  /\ \E o \in UpdateOutcomes(c) :
       /\ rows' = IF o.applied THEN [rows EXCEPT ![c] = FailedRow(c)] ELSE rows
       /\ unstored' = IF o.applied THEN unstored ELSE unstored \cup {c}
  /\ UNCHANGED <<project, input, decision, failure, reserved, ran, shown>>

\* The worker dies, or the request task is cancelled: nothing else runs.
Lose(c) ==
  /\ pc[c] \in InFlight
  /\ pc' = [pc EXCEPT ![c] = "lost"]
  /\ UNCHANGED <<project, rows, input, decision, failure, answer, reserved, ran, shown, unstored>>

\* GET /projects/decisions/{id} by a permitted reader: only a completed row
\* with a response is shown; pending answers 409 and failed 410.
ReadReceipt(d) ==
  /\ Exists(d)
  /\ rows[d].status = "completed" /\ rows[d].response # NoVerdict
  /\ Show(d, rows[d].response)
  /\ UNCHANGED <<project, rows, input, pc, decision, failure, answer, reserved, ran, unstored>>

\* DELETE of the project removes every receipt of it in one transaction.
DeleteProject ==
  /\ project = "live"
  /\ project' = "deleted"
  /\ rows' = [c \in Calls |-> NoRow]
  /\ UNCHANGED <<input, pc, decision, failure, answer, reserved, ran, shown, unstored>>

Step(c) ==
  \/ LookUp(c) \/ Reserve(c) \/ Reselect(c) \/ CrossIn(c) \/ Decide(c)
  \/ CrossOut(c) \/ Assemble(c) \/ Finalise(c) \/ Fail(c)

Next ==
  \/ \E c \in Calls : Arrive(c) \/ Step(c) \/ Lose(c) \/ ReadReceipt(c)
  \/ DeleteProject

\* The server keeps running a call it has started; callers, readers, crashes
\* and teardown are under no obligation.
Fairness == \A c \in Calls : WF_vars(Step(c))

Spec == Init /\ [][Next]_vars
FairSpec == Spec /\ Fairness

-----------------------------------------------------------------------------
TypeOK ==
  /\ project \in {"live", "deleted"}
  /\ rows \in [Calls -> Row \cup {NoRow}]
  /\ input \in [Calls -> Inputs]
  /\ pc \in [Calls -> InFlight \cup {"idle", "done", "lost"}]
  /\ decision \in [Calls -> Envelopes \cup {NoVerdict}]
  /\ failure \in [Calls -> Faults \cup {"none"}]
  /\ answer \in [Calls -> Answers]
  /\ reserved \subseteq Calls
  /\ ran \subseteq Calls
  /\ shown \subseteq Calls \X Envelopes
  /\ unstored \subseteq Calls

SameKey(c, d) == input[c].key = input[d].key /\ input[c].key # NoKey

\* The model is never run twice for one Idempotency-Key, however many calls
\* race, crash or lose their commit: the reservation is committed before the
\* decider is invoked and the unique constraint admits one per key.
OneModelRunPerKey ==
  \A c, d \in ran : SameKey(c, d) => c = d

\* Nobody is handed a verdict on a question they did not ask: a replay under a
\* key used for another request is refused, not served.
VerdictAnswersTheRequest ==
  \A c \in Calls : answer[c].verdict # NoVerdict => answer[c].verdict.about = input[c].request

\* Every call of a key that was answered with a verdict was given the same one.
SameKeySameVerdict ==
  \A c, d \in Calls :
    SameKey(c, d) /\ answer[c].verdict # NoVerdict /\ answer[d].verdict # NoVerdict
      => answer[c].verdict = answer[d].verdict

\* The call that ran the decider is only told the verdict when its row holds
\* it, completed; that stays so until the project is deleted.
DecidedIsCitable ==
  \A c \in Calls :
    answer[c].code = "decided" /\ project = "live"
      => /\ Exists(c)
         /\ rows[c].status = "completed"
         /\ rows[c].response = answer[c].verdict

\* A verdict shown to anyone, by the deciding call, a replay or a GET of the
\* receipt, can be read again from the same row as long as the project exists.
ShownStaysCitable ==
  project = "live" =>
    \A s \in shown :
      /\ Exists(s[1])
      /\ rows[s[1]].status = "completed"
      /\ rows[s[1]].response = s[2]

\* A settled receipt is never rewritten: a spent key stays spent and a completed
\* row keeps its verdict; only the project's deletion removes it.
SettledIsFinal ==
  [][\A c \in Calls :
       Exists(c) /\ rows[c].status # "pending" /\ project' = "live"
         => rows'[c] = rows[c]]_vars

\* What leaves a row pending for ever: its worker died, it met a fault between the
\* decider and the finalisation, or the store refused its failure too.
Abandoned(c) == pc[c] = "lost" \/ answer[c].code = "internal_error" \/ c \in unstored

\* Short of those, and as long as no commit takes effect unacknowledged, every
\* reservation is settled: each way out of the language boundary and of the decider
\* writes an outcome to its row, and so does a finalisation that was refused.
PendingIsSettled ==
  \A c \in Calls :
    (Exists(c) /\ rows[c].status = "pending")
      ~> (~Exists(c) \/ rows[c].status # "pending" \/ Abandoned(c))
=============================================================================
