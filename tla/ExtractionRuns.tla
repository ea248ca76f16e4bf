---------------------------- MODULE ExtractionRuns ----------------------------
(***************************************************************************)
(* Repeated AI extractions of one document into one project                *)
(* (extraction/ai_extraction.py): a run reads the document in batches,     *)
(* commits the rules of each batch as candidates of its own, retires the   *)
(* undecided candidates of every other run with its first rules, re-reads  *)
(* once what it could not read, and at its end compares itself with the    *)
(* run before, takes that run's decisions over and is closed.  People      *)
(* review and edit candidates meanwhile, and other runs of the document go *)
(* on beside it.  Every run is a task of one of several processes: when    *)
(* that stops, its runs stop with it, and the next process to start closes *)
(* every row that still says running (api/app.py).                         *)
(*                                                                         *)
(* A run is the rank of its row in creation order; a candidate is a run    *)
(* and the content of a rule, as two runs that read a passage alike        *)
(* produce the same rule.  What a run keeps in its session until the next  *)
(* commit is its own candidates, so a step is a transaction.               *)
(***************************************************************************)
EXTENDS Naturals

CONSTANTS
  LastRun,           (* bound: how many runs are ever started                  *)
  LastBatch,         (* the batches the document divides into                  *)
  Contents,          (* the rules the document may be read to hold             *)
  BatchOf,           (* the batch the text of each is in                       *)
  MaxInterventions,  (* bound: how often a person reviews or edits             *)
  Processes          (* the replicas of the API                                *)

ASSUME ExtractionRunsAssumption ==
  /\ LastRun \in Nat
  /\ LastBatch \in Nat \ {0}
  /\ BatchOf \in [Contents -> 1 .. LastBatch]
  /\ MaxInterventions \in Nat

VARIABLES
  status,    (* extraction_runs.status, "none" before the row is committed     *)
  rows,      (* candidate_rules                                                *)
  pc,        (* where each run is                                              *)
  todo,      (* the batches left in this pass over the document                *)
  unread,    (* those it could not read so far                                 *)
  up,        (* the processes that run                                         *)
  drives,    (* the runs that are tasks of each                                *)
  owed,      (* history: the batches it was asked to read and did not read yet  *)
  verdicts,  (* history: what people decided on which content, as it was drafted *)
  misplaced, (* history: what they decided on a text of theirs that a run wrote *)
             (* the drafted content over                                       *)
  left       (* the interventions people have left                             *)

runVars == <<status, pc, todo, unread, owed>>
processVars == <<up, drives>>
textVars == <<rows, misplaced>>
peopleVars == <<verdicts, left>>
vars == <<runVars, processVars, textVars, peopleVars>>

-----------------------------------------------------------------------------
Runs == 1 .. LastRun
Batches == 1 .. LastBatch
Candidates == Runs \X Contents

Decisions == {"approved", "rejected"}
Editable == {"candidate", "rejected", "changes_requested"}
Live == {"reading", "rereading"}

\* edited: a person has changed the text.  retired, carried: the run it was
\* superseded by, and the run its decision comes from, 0 if none.
Candidate == [status : Editable \cup Decisions, edited : BOOLEAN,
              retired : 0 .. LastRun, carried : 0 .. LastRun]

Missing == [status |-> "none", edited |-> FALSE, retired |-> 0, carried |-> 0]

Drafted == [Missing EXCEPT !.status = "candidate"]

Extracted(r) == {c \in Contents : rows[r, c] # Missing}

Init ==
  /\ status = [r \in Runs |-> "none"]
  /\ rows = [w \in Candidates |-> Missing]
  /\ pc = [r \in Runs |-> "unborn"]
  /\ todo = [r \in Runs |-> {}]
  /\ unread = [r \in Runs |-> {}]
  /\ up = {}
  /\ drives = [p \in Processes |-> {}]
  /\ owed = [r \in Runs |-> {}]
  /\ verdicts = {}
  /\ misplaced = {}
  /\ left = MaxInterventions

-----------------------------------------------------------------------------
(* A run.                                                                    *)

\* A process takes it on; its row is flushed and not committed.  max_clauses may ask
\* for the beginning of the document only.
Begin(r) ==
  /\ \E p \in up : drives' = [drives EXCEPT ![p] = @ \cup {r}]
  /\ pc[r] = "unborn"
  /\ \A q \in 1 .. r - 1 : pc[q] # "unborn"
  /\ \E last \in Batches :
       /\ owed' = [owed EXCEPT ![r] = 1 .. last]
       /\ todo' = [todo EXCEPT ![r] = 1 .. last]
  /\ pc' = [pc EXCEPT ![r] = "reading"]
  /\ UNCHANGED <<status, unread, up, textVars, peopleVars>>

Attempt(r, b) ==
  /\ pc[r] \in Live
  /\ b \in todo[r] /\ \A d \in todo[r] : b <= d
  /\ todo' = [todo EXCEPT ![r] = @ \ {b}]
  /\ UNCHANGED <<pc, processVars, misplaced, peopleVars>>

\* An agent fails on the batch: it is recorded as unread and nothing is committed.
MissBatch(r, b) ==
  /\ Attempt(r, b)
  /\ unread' = [unread EXCEPT ![r] = @ \cup {b}]
  /\ UNCHANGED <<status, owed, rows>>

\* Nothing in it is policy: it is read, and nothing is committed.
SkipBatch(r, b) ==
  /\ Attempt(r, b)
  /\ unread' = [unread EXCEPT ![r] = @ \ {b}]
  /\ owed' = [owed EXCEPT ![r] = @ \ {b}]
  /\ UNCHANGED <<status, rows>>

\* Mutant: the others are retired before this run has a rule to put in their place.
RetiresAtOnce(r, drafted, q) ==
  Extracted(r) = {} /\ q # r

\* The first rules of a run retire the candidates of all the others, live ones
\* included.
Retires(r, drafted, q) ==
  drafted # {} /\ Extracted(r) = {} /\ q # r

\* _supersede_prior_candidates: of those, the ones nobody has decided on.
Undecided(w) == rows[w].status = "candidate" /\ rows[w].retired = 0

\* The rules drafted from a batch and the retirement of the older ones, committed
\* together; with the first commit the row of the run is there too.
CommitBatch(r, b, drafted) ==
  /\ Attempt(r, b)
  /\ rows' = [w \in Candidates |->
                IF w[1] = r /\ w[2] \in drafted THEN Drafted
                ELSE IF Retires(r, drafted, w[1]) /\ Undecided(w)
                     THEN [rows[w] EXCEPT !.retired = r]
                     ELSE rows[w]]
  /\ status' = [status EXCEPT ![r] = IF @ = "none" THEN "running" ELSE @]
  /\ unread' = [unread EXCEPT ![r] = @ \ {b}]
  /\ owed' = [owed EXCEPT ![r] = @ \ {b}]

\* _retry_unread_batches: one more pass, over what was not read.
Reread(r) ==
  /\ pc[r] = "reading" /\ todo[r] = {} /\ unread[r] # {}
  /\ pc' = [pc EXCEPT ![r] = "rereading"]
  /\ todo' = [todo EXCEPT ![r] = unread[r]]
  /\ UNCHANGED <<status, unread, owed, processVars, textVars, peopleVars>>

Finished == {"completed", "completed_with_gaps"}

\* Mutant: a run that failed on the way is a baseline too.
UsableIfOver(r) ==
  {q \in Runs \ {r} : Extracted(q) # {} /\ status[q] \in Finished \cup {"failed"}}

\* _select_baseline: the last other run that has candidates and was finished; runs
\* that started later count.  0 if there is none.
Usable(r) == {q \in Runs \ {r} : Extracted(q) # {} /\ status[q] \in Finished}

Baseline(r) ==
  IF Usable(r) = {} THEN 0
  ELSE CHOOSE q \in Usable(r) : \A p \in Usable(r) : p <= q

\* Mutant: a decision on what a person made of the text is handed on too.
InheritedWithEdits(r, q, c) ==
  IF q # 0 /\ rows[q, c].status \in Decisions THEN rows[q, c].status ELSE "none"

\* The decision the baseline has on the same text.
Inherited(r, q, c) ==
  IF q # 0 /\ ~rows[q, c].edited /\ rows[q, c].status \in Decisions
  THEN rows[q, c].status ELSE "none"

\* The session does not read its own candidates again: what people did to them
\* while the run went on is written over, by the links (a candidate that has any is
\* rewritten whole) and by the decision that is taken over.
SettledRow(r, linked, c) ==
  LET q == Baseline(r)
      text == [rows[r, c] EXCEPT !.edited = @ /\ c \notin linked]
  IN  IF Inherited(r, q, c) = "none" THEN text
      ELSE [text EXCEPT !.status = Inherited(r, q, c), !.carried = q]

\* The decisions that a linking pass leaves on a text they were not taken on.
Rewritten(r, linked) ==
  {<<c, rows[r, c].status>> : c \in {d \in linked : /\ rows[r, d].edited
                                                   /\ rows[r, d].status \in Decisions}}

\* Mutant: a run that reached its end is complete.
MarkedWhole(r) == "completed"

\* mark_completed, whatever the row of the run says by now.
Marked(r) == IF unread[r] = {} THEN "completed" ELSE "completed_with_gaps"

\* Its task ends; "lost" is a run whose row nobody closed.
Close(r, to) ==
  /\ pc' = [pc EXCEPT ![r] = to]
  /\ todo' = [todo EXCEPT ![r] = {}]
  /\ unread' = [unread EXCEPT ![r] = {}]
  /\ drives' = [p \in Processes |-> drives[p] \ {r}]
  /\ UNCHANGED <<owed, up, peopleVars>>

\* The linking pass, the comparison and mark_completed, one transaction.
Settle(r) ==
  /\ pc[r] \in Live /\ todo[r] = {}
  /\ pc[r] = "rereading" \/ unread[r] = {}
  /\ \E linked \in SUBSET Extracted(r) :
       /\ rows' = [w \in Candidates |->
                    IF w[1] = r /\ rows[w] # Missing THEN SettledRow(r, linked, w[2])
                    ELSE rows[w]]
       /\ misplaced' = misplaced \cup Rewritten(r, linked)
  /\ status' = [status EXCEPT ![r] = Marked(r)]
  /\ Close(r, "over")

\* Anything else that raises: what was committed stays, and mark_failed closes the
\* run if it has a row; or that commit fails too, and nothing says so.
Fail(r) ==
  /\ pc[r] \in Live
  /\ \/ /\ Close(r, "over")
        /\ status' = [status EXCEPT ![r] = IF @ = "none" THEN "none" ELSE "failed"]
     \/ /\ Close(r, "lost")
        /\ UNCHANGED status
  /\ UNCHANGED textVars

Read(r) ==
  \E b \in Batches :
    \/ MissBatch(r, b) \/ SkipBatch(r, b)
    \/ \E drafted \in SUBSET {c \in Contents : BatchOf[c] = b} : CommitBatch(r, b, drafted)

Proceed(r) == Read(r) \/ Reread(r) \/ Settle(r) \/ Fail(r)

-----------------------------------------------------------------------------
(* The processes.                                                            *)

\* The runs of one process end with it; the other processes go on, and none of them
\* looks for what it left behind.
Crash(p) ==
  /\ p \in up
  /\ up' = up \ {p}
  /\ drives' = [drives EXCEPT ![p] = {}]
  /\ pc' = [r \in Runs |-> IF r \in drives[p] THEN "lost" ELSE pc[r]]
  /\ todo' = [r \in Runs |-> IF r \in drives[p] THEN {} ELSE todo[r]]
  /\ unread' = [r \in Runs |-> IF r \in drives[p] THEN {} ELSE unread[r]]
  /\ UNCHANGED <<status, owed, textVars, peopleVars>>

\* Mutant: what a process left behind is what it had committed rules for.
OrphansWithRules == {r \in Runs : status[r] = "running" /\ Extracted(r) # {}}

\* The runs an API process drives, whichever process that is.
Orphans == {r \in Runs : status[r] = "running"}

\* _reconcile_interrupted_runs, before the first request is served.  If the database
\* is not there the process starts all the same, and closes nothing.
Start(p) ==
  /\ p \notin up
  /\ up' = up \cup {p}
  /\ \/ /\ status' = [r \in Runs |-> IF r \in Orphans THEN "failed" ELSE status[r]]
        /\ pc' = [r \in Runs |-> IF pc[r] = "lost" THEN "over" ELSE pc[r]]
     \/ UNCHANGED <<status, pc>>
  /\ UNCHANGED <<drives, todo, unread, owed, textVars, peopleVars>>

-----------------------------------------------------------------------------
(* People, at any candidate of any run: nobody looks at whether it is retired *)
(* or its run still writing.                                                 *)

Intervene(w) ==
  /\ left > 0
  /\ left' = left - 1
  /\ rows[w] # Missing
  /\ UNCHANGED <<runVars, processVars, misplaced>>

Review(w, decision) ==
  /\ Intervene(w)
  /\ rows[w].status \in Editable
  /\ rows' = [rows EXCEPT ![w].status = decision]
  /\ verdicts' = IF rows[w].edited THEN verdicts ELSE verdicts \cup {<<w[2], decision>>}

RequestChanges(w) ==
  /\ Intervene(w)
  /\ rows[w].status = "approved"
  /\ rows' = [rows EXCEPT ![w].status = "changes_requested"]
  /\ UNCHANGED verdicts

Edit(w) ==
  /\ Intervene(w)
  /\ rows[w].status \in Editable
  /\ rows' = [rows EXCEPT ![w].edited = TRUE]
  /\ UNCHANGED verdicts

-----------------------------------------------------------------------------
Next ==
  \/ \E r \in Runs : Begin(r) \/ Proceed(r)
  \/ \E p \in Processes : Crash(p) \/ Start(p)
  \/ \E w \in Candidates :
       (\E decision \in Decisions : Review(w, decision)) \/ RequestChanges(w) \/ Edit(w)

Spec == Init /\ [][Next]_vars

-----------------------------------------------------------------------------
TypeOK ==
  /\ status \in [Runs -> {"none", "running", "failed"} \cup Finished]
  /\ rows \in [Candidates -> Candidate \cup {Missing}]
  /\ pc \in [Runs -> Live \cup {"unborn", "over", "lost"}]
  /\ todo \in [Runs -> SUBSET Batches]
  /\ unread \in [Runs -> SUBSET Batches]
  /\ owed \in [Runs -> SUBSET Batches]
  /\ up \subseteq Processes
  /\ drives \in [Processes -> SUBSET Runs]
  /\ verdicts \subseteq Contents \X Decisions
  /\ misplaced \subseteq Contents \X Decisions
  /\ left \in 0 .. MaxInterventions

\* A run that takes candidates out of the queue has put some of its own in their
\* place, wherever it ended.
QueueIsReplacedNotEmptied ==
  \A w \in Candidates : rows[w].retired # 0 => Extracted(rows[w].retired) # {}

\* However often decisions are handed from run to run, and whatever became of the
\* candidate they came from, a decision on a rule as it was drafted was made by a
\* person on that text, or on a text of their own that a linking pass wrote the
\* drafted one over.  A decision on an edited text stays with the candidate.
DecisionsAreMadeByPeople ==
  \A w \in Candidates :
    rows[w].status \in Decisions /\ ~rows[w].edited
      => <<w[2], rows[w].status>> \in verdicts \cup misplaced

\* Decisions come from runs that were finished, and stay finished: no run that was
\* broken off, and none that a starting process wrote off, is the reference.
CarriedFromFinishedRuns ==
  \A w \in Candidates : rows[w].carried # 0 => status[rows[w].carried] \in Finished

\* A run that says it is complete has read every batch it was asked for, those that
\* were lost on the first pass included.
CompletedMeansCovered ==
  \A r \in Runs : status[r] = "completed" => owed[r] = {}

\* A run that is shown as running is a task of a process that runs, or one whose end
\* nobody stored: its process died, beside others or not, or the commit failed, and no
\* process has started since that found the database.  A start that does leaves no
\* such row.
ShownRunningIsAlive ==
  \A r \in Runs :
    status[r] = "running" => (\E p \in up : r \in drives[p]) \/ pc[r] = "lost"

\* What a person decided about a candidate no run writes over.
HumanDecisionStands ==
  [][\A w \in Candidates :
       left' = left /\ rows[w].status \in Decisions
         => rows'[w].status = rows[w].status]_vars
=============================================================================
