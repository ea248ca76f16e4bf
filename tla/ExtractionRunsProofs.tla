------------------------- MODULE ExtractionRunsProofs -------------------------
(***************************************************************************)
(* Theorems about ExtractionRuns, for any number of runs, batches, rules   *)
(* and interventions, and for any processes, one or many.                  *)
(***************************************************************************)
EXTENDS ExtractionRuns, WellFoundedInduction, TLAPS

-----------------------------------------------------------------------------
(* The reference of a comparison.                                            *)

LEMMA RunNumbers == Runs \subseteq 0 .. LastRun
BY ExtractionRunsAssumption DEF Runs

LEMMA LinkIsRun == \A n \in 0 .. LastRun : n # 0 => n \in Runs
BY ExtractionRunsAssumption DEF Runs

\* Any runs have a last one.
LEMMA LastOfRuns ==
  ASSUME NEW S \in SUBSET Runs, S # {}
  PROVE  \E q \in S : \A p \in S : p <= q
<1> DEFINE T == {LastRun - q : q \in S}
<1>1. LastRun \in Nat /\ S \subseteq Int
  BY ExtractionRunsAssumption DEF Runs
<1>2. T \subseteq Nat /\ T # {}
  <2>1. \A q \in 1 .. LastRun : LastRun - q \in Nat
    BY <1>1
  <2>2. QED
    BY <2>1 DEF Runs
<1>3. \E x \in T : \A y \in T : ~(<<y, x>> \in OpToRel(<, Nat))
  BY <1>2, NatLessThanWellFounded, WFMin
<1>4. PICK x \in T : \A y \in T : ~(y < x)
  BY <1>2, <1>3 DEF OpToRel
<1>5. PICK q \in S : x = LastRun - q
  OBVIOUS
<1>6. \A p \in S : p <= q
  BY <1>1, <1>4, <1>5
<1>7. QED
  BY <1>6

LEMMA BaselineIsUsable ==
  ASSUME NEW r \in Runs, Baseline(r) # 0
  PROVE  Baseline(r) \in Runs \ {r} /\ status[Baseline(r)] \in Finished
<1>1. Usable(r) # {} /\ Usable(r) \in SUBSET Runs
  BY DEF Baseline, Usable
<1>2. \E q \in Usable(r) : \A p \in Usable(r) : p <= q
  BY <1>1, LastOfRuns
<1>3. Baseline(r) \in Usable(r)
  BY <1>1, <1>2 DEF Baseline
<1>4. QED
  BY <1>3 DEF Usable

-----------------------------------------------------------------------------
(* Candidates.                                                               *)

LEMMA MissingIs ==
  Missing = [status |-> "none", edited |-> FALSE, retired |-> 0, carried |-> 0]
BY DEF Missing

LEMMA DraftedIs ==
  /\ Drafted \in Candidate
  /\ Drafted.status = "candidate" /\ Drafted.retired = 0 /\ Drafted.carried = 0
<1> DEFINE Row == [status : {"none"}, edited : BOOLEAN, retired : {0}, carried : {0}]
<1>1. \A x \in Row : /\ [x EXCEPT !.status = "candidate"].status = "candidate"
                     /\ [x EXCEPT !.status = "candidate"].retired = 0
                     /\ [x EXCEPT !.status = "candidate"].carried = 0
  OBVIOUS
<1>2. 0 \in 0 .. LastRun /\ "candidate" \in Editable \cup Decisions
  BY ExtractionRunsAssumption DEF Editable
<1>3. \A x \in Row : [x EXCEPT !.status = "candidate"] \in Candidate
  BY <1>2, Zenon DEF Candidate
<1>4. Missing \in Row
  BY Zenon DEF Missing
<1>5. QED
  BY <1>1, <1>3, <1>4 DEF Drafted

\* A candidate is one, or is missing.
LEMMA CandidateIsThere ==
  ASSUME NEW x \in Candidate \cup {Missing}
  PROVE  /\ x # Missing <=> x \in Candidate
         /\ x \in Candidate <=> x.status # "none"
         /\ x.retired \in 0 .. LastRun
         /\ x.carried \in 0 .. LastRun
<1>1. Missing.status = "none" /\ Missing.retired = 0 /\ Missing.carried = 0
  BY MissingIs
<1>2. 0 \in 0 .. LastRun
  BY ExtractionRunsAssumption
<1>3. x \in Candidate => x.status \in Editable \cup Decisions /\ x.retired \in 0 .. LastRun
                         /\ x.carried \in 0 .. LastRun
  BY DEF Candidate
<1>4. "none" \notin Editable \cup Decisions
  BY DEF Editable, Decisions
<1>5. QED
  BY <1>1, <1>2, <1>3, <1>4

LEMMA FieldsReplaced ==
  ASSUME NEW x \in Candidate
  PROVE  /\ \A s \in Editable \cup Decisions : [x EXCEPT !.status = s] \in Candidate
         /\ \A e \in BOOLEAN : [x EXCEPT !.edited = e] \in Candidate
         /\ \A n \in 0 .. LastRun : [x EXCEPT !.retired = n] \in Candidate
         /\ \A n \in 0 .. LastRun : [x EXCEPT !.carried = n] \in Candidate
  BY Zenon DEF Candidate

\* x is what the end of run r may make of its candidate with content c: the links are
\* written over what a person made of it, and the decision is its own or that of q.
SettledTo(r, linked, c, q, s, x) ==
  /\ x \in Candidate
  /\ x.retired = rows[r, c].retired
  /\ x.edited <=> (rows[r, c].edited /\ c \notin linked)
  /\ \/ s = "none" /\ x.status = rows[r, c].status /\ x.carried = rows[r, c].carried
     \/ /\ s \in Decisions /\ q \in Runs \ {r} /\ status[q] \in Finished
        /\ s = rows[q, c].status /\ ~rows[q, c].edited
        /\ x.status = s /\ x.carried = q

LEMMA SettledRowIs ==
  ASSUME NEW r \in Runs, NEW c \in Contents, NEW linked,
         rows[r, c] \in Candidate
  PROVE  SettledTo(r, linked, c, Baseline(r), Inherited(r, Baseline(r), c),
                   SettledRow(r, linked, c))
<1> DEFINE q == Baseline(r)
           s == Inherited(r, q, c)
           old == rows[r, c]
           text == [old EXCEPT !.edited = @ /\ c \notin linked]
<1>1. old.edited \in BOOLEAN
  BY DEF Candidate
<1>2. (old.edited /\ c \notin linked) \in BOOLEAN
  OBVIOUS
<1>3. text \in Candidate
  BY <1>2, FieldsReplaced
<1>4. /\ text.status = old.status /\ text.retired = old.retired /\ text.carried = old.carried
      /\ text.edited = (old.edited /\ c \notin linked)
  BY DEF Candidate
<1>5. CASE s = "none"
  <2>1. SettledRow(r, linked, c) = text
    BY <1>5 DEF SettledRow
  <2>2. QED
    BY <1>3, <1>4, <1>5, <2>1 DEF SettledTo
<1>6. CASE s # "none"
  <2>1. q # 0 /\ s = rows[q, c].status /\ s \in Decisions /\ ~rows[q, c].edited
    BY <1>6 DEF Inherited
  <2>2. q \in Runs \ {r} /\ status[q] \in Finished
    BY <2>1, BaselineIsUsable
  <2>3. q \in 0 .. LastRun
    BY <2>2, RunNumbers
  <2>4. SettledRow(r, linked, c) = [text EXCEPT !.status = s, !.carried = q]
    BY <1>6 DEF SettledRow
  <2> HIDE DEF q, s, text, old
  <2>5. [text EXCEPT !.status = s] \in Candidate
    BY <1>3, <2>1, FieldsReplaced
  <2>6. [text EXCEPT !.status = s, !.carried = q]
          = [[text EXCEPT !.status = s] EXCEPT !.carried = q]
    BY <1>3 DEF Candidate
  <2>7. [text EXCEPT !.status = s, !.carried = q] \in Candidate
    BY <2>3, <2>5, <2>6, FieldsReplaced
  <2>8. /\ [text EXCEPT !.status = s, !.carried = q].status = s
        /\ [text EXCEPT !.status = s, !.carried = q].carried = q
        /\ [text EXCEPT !.status = s, !.carried = q].retired = text.retired
        /\ [text EXCEPT !.status = s, !.carried = q].edited = text.edited
    BY <1>3 DEF Candidate
  <2>9. QED
    BY <1>4, <2>1, <2>2, <2>4, <2>7, <2>8 DEF q, s, old, SettledTo
<1>7. QED
  BY <1>5, <1>6
-----------------------------------------------------------------------------
(* Type correctness.                                                         *)

LEMMA PairOfCandidate ==
  ASSUME NEW w \in Candidates
  PROVE  w[1] \in Runs /\ w[2] \in Contents /\ w = <<w[1], w[2]>>
BY DEF Candidates

LEMMA CandidateOfPair ==
  ASSUME NEW r \in Runs, NEW c \in Contents
  PROVE  \E u \in Candidates : u = <<r, c>> /\ u[1] = r /\ u[2] = c
<1>1. <<r, c>> \in Candidates
  BY DEF Candidates
<1>2. QED
  BY <1>1

RowType == rows \in [Candidates -> Candidate \cup {Missing}]

RunType ==
  /\ status \in [Runs -> {"none", "running", "failed"} \cup Finished]
  /\ pc \in [Runs -> Live \cup {"unborn", "over", "lost"}]
  /\ todo \in [Runs -> SUBSET Batches]
  /\ unread \in [Runs -> SUBSET Batches]
  /\ owed \in [Runs -> SUBSET Batches]

ProcessType == up \subseteq Processes /\ drives \in [Processes -> SUBSET Runs]

PeopleType ==
  /\ verdicts \subseteq Contents \X Decisions
  /\ misplaced \subseteq Contents \X Decisions
  /\ left \in 0 .. MaxInterventions

LEMMA TypesAreFour == TypeOK <=> RowType /\ RunType /\ ProcessType /\ PeopleType
BY DEF TypeOK, RowType, RunType, ProcessType, PeopleType

\* The candidates after a batch and after the end of a run.
LEMMA CommittedRows ==
  ASSUME RowType, NEW r \in Runs, NEW b, NEW drafted, CommitBatch(r, b, drafted),
         NEW w \in Candidates
  PROVE  /\ rows'[w] \in Candidate \cup {Missing}
         /\ \/ rows'[w] = Drafted
            \/ rows'[w] = rows[w]
            \/ /\ drafted # {} /\ rows[w] \in Candidate /\ rows[w].status = "candidate"
               /\ rows'[w] = [rows[w] EXCEPT !.retired = r]
<1>1. rows[w] \in Candidate \cup {Missing}
  BY DEF RowType
<1>2. rows'[w] = IF w[1] = r /\ w[2] \in drafted THEN Drafted
                 ELSE IF Retires(r, drafted, w[1]) /\ Undecided(w)
                      THEN [rows[w] EXCEPT !.retired = r]
                      ELSE rows[w]
  BY DEF CommitBatch
<1>3. Undecided(w) => rows[w] \in Candidate /\ rows[w].status = "candidate"
  BY <1>1, CandidateIsThere DEF Undecided
<1>4. rows[w] \in Candidate => [rows[w] EXCEPT !.retired = r] \in Candidate
  <2>1. r \in 0 .. LastRun
    BY RunNumbers
  <2>2. QED
    BY <2>1, FieldsReplaced
<1>5. Retires(r, drafted, w[1]) => drafted # {}
  BY DEF Retires
<1>6. QED
  BY <1>1, <1>2, <1>3, <1>4, <1>5, DraftedIs

LEMMA DraftedRows ==
  ASSUME NEW r \in Runs, NEW b, NEW drafted, CommitBatch(r, b, drafted),
         NEW w \in Candidates, w[1] = r, w[2] \in drafted
  PROVE  rows'[w] = Drafted
BY DEF CommitBatch

LEMMA SettledRows ==
  ASSUME RowType, NEW r \in Runs, Settle(r), NEW w \in Candidates
  PROVE  /\ rows'[w] \in Candidate \cup {Missing}
         /\ \/ rows'[w] = rows[w]
            \/ /\ rows[w] \in Candidate /\ rows'[w] \in Candidate
               /\ rows'[w].retired = rows[w].retired
               /\ \/ /\ rows'[w].status = rows[w].status /\ rows'[w].carried = rows[w].carried
                     /\ rows[w].edited /\ ~rows'[w].edited /\ rows[w].status \in Decisions
                          => <<w[2], rows[w].status>> \in misplaced'
                     /\ ~rows[w].edited => ~rows'[w].edited
                  \/ \E q \in Runs \ {r} :
                       /\ status[q] \in Finished
                       /\ rows'[w].status = rows[q, w[2]].status
                       /\ ~rows[q, w[2]].edited
                       /\ rows'[w].status \in Decisions
                       /\ rows'[w].carried = q
<1>1. rows[w] \in Candidate \cup {Missing}
  BY DEF RowType
<1>2. PICK linked \in SUBSET Extracted(r) :
        /\ rows' = [v \in Candidates |->
                     IF v[1] = r /\ rows[v] # Missing THEN SettledRow(r, linked, v[2])
                     ELSE rows[v]]
        /\ misplaced' = misplaced \cup Rewritten(r, linked)
  BY DEF Settle
<1>3. CASE w[1] = r /\ rows[w] # Missing
  <2>1. PICK c \in Contents : w[2] = c /\ rows[r, c] = rows[w]
    BY <1>3, PairOfCandidate
  <2> DEFINE x == SettledRow(r, linked, c)
             q == Baseline(r)
             s == Inherited(r, q, c)
  <2>2. rows'[w] = x
    BY <1>2, <1>3, <2>1
  <2>3. rows[r, c] \in Candidate
    BY <1>1, <1>3, <2>1
  <2>4. SettledTo(r, linked, c, q, s, x)
    BY <2>3, SettledRowIs
  <2> HIDE DEF x, q, s
  <2>5. rows[w].edited /\ ~x.edited /\ rows[w].status \in Decisions
          => <<c, rows[w].status>> \in misplaced'
    <3>1. SUFFICES ASSUME rows[w].edited, ~x.edited, rows[w].status \in Decisions
                   PROVE  <<c, rows[w].status>> \in misplaced'
      OBVIOUS
    <3>2. c \in linked
      BY <2>1, <2>4, <3>1 DEF SettledTo
    <3>3. <<c, rows[r, c].status>> \in Rewritten(r, linked)
      BY <2>1, <3>1, <3>2 DEF Rewritten
    <3>4. QED
      BY <1>2, <2>1, <3>3
  <2>6. ~rows[w].edited => ~x.edited
    BY <2>1, <2>4 DEF SettledTo
  <2>7. QED
    BY <1>1, <1>3, <2>1, <2>2, <2>4, <2>5, <2>6 DEF SettledTo
<1>4. CASE ~(w[1] = r /\ rows[w] # Missing)
  BY <1>1, <1>2, <1>4
<1>5. QED
  BY <1>3, <1>4

LEMMA RowTypeKept ==
  ASSUME RowType, [Next]_vars
  PROVE  RowType'
<1>1. ASSUME NEW r \in Runs, Proceed(r), rows' # rows
      PROVE  RowType'
  <2>1. CASE \E b \in Batches, drafted \in SUBSET Contents : CommitBatch(r, b, drafted)
    <3>1. PICK b \in Batches, drafted \in SUBSET Contents : CommitBatch(r, b, drafted)
      BY <2>1
    <3>2. \A w \in Candidates : rows'[w] \in Candidate \cup {Missing}
      BY <3>1, CommittedRows
    <3>3. rows' = [w \in Candidates |-> rows'[w]]
      BY <3>1 DEF CommitBatch
    <3>4. QED
      BY <3>2, <3>3 DEF RowType
  <2>2. CASE Settle(r)
    <3>1. \A w \in Candidates : rows'[w] \in Candidate \cup {Missing}
      BY <2>2, SettledRows
    <3>2. rows' = [w \in Candidates |-> rows'[w]]
      BY <2>2 DEF Settle
    <3>3. QED
      BY <3>1, <3>2 DEF RowType
  <2>3. QED
    BY <1>1, <2>1, <2>2 DEF Proceed, Read, MissBatch, SkipBatch, Reread, Fail, textVars
<1>2. ASSUME NEW w \in Candidates, Intervene(w)
      PROVE  rows[w] \in Candidate
  BY <1>2, CandidateIsThere DEF Intervene, RowType
<1>3. ASSUME NEW w \in Candidates, rows[w] \in Candidate, NEW x \in Candidate,
             rows' = [rows EXCEPT ![w] = x]
      PROVE  RowType'
  BY <1>3 DEF RowType
<1>4. ASSUME NEW w \in Candidates,
             \/ \E decision \in Decisions : Review(w, decision)
             \/ RequestChanges(w) \/ Edit(w)
      PROVE  RowType'
  <2>1. rows[w] \in Candidate
    BY <1>2, <1>4 DEF Review, RequestChanges, Edit
  <2>2. ASSUME NEW x \in Editable \cup Decisions, rows' = [rows EXCEPT ![w].status = x]
        PROVE  RowType'
    <3>1. [rows[w] EXCEPT !.status = x] \in Candidate
      BY <2>1, FieldsReplaced
    <3>2. rows' = [rows EXCEPT ![w] = [rows[w] EXCEPT !.status = x]]
      BY <2>2
    <3>3. QED
      BY <1>3, <2>1, <3>1, <3>2
  <2>3. CASE Edit(w)
    <3>1. [rows[w] EXCEPT !.edited = TRUE] \in Candidate
      BY <2>1, FieldsReplaced
    <3>2. rows' = [rows EXCEPT ![w] = [rows[w] EXCEPT !.edited = TRUE]]
      BY <2>3 DEF Edit
    <3>3. QED
      BY <1>3, <2>1, <3>1, <3>2
  <2>4. CASE RequestChanges(w)
    BY <2>2, <2>4 DEF RequestChanges, Editable
  <2>5. CASE \E decision \in Decisions : Review(w, decision)
    BY <2>2, <2>5 DEF Review
  <2>6. QED
    BY <1>4, <2>3, <2>4, <2>5
<1>5. CASE rows' = rows
  BY <1>5 DEF RowType
<1>6. QED
  BY <1>1, <1>4, <1>5 DEF Next, Begin, Crash, Start, vars, textVars

LEMMA RunTypeKept ==
  ASSUME RunType, [Next]_vars
  PROVE  RunType'
<1> USE DEF RunType, Live, Finished
<1>1. ASSUME NEW r \in Runs, Begin(r)
      PROVE  RunType'
  <2>1. PICK last \in Batches : /\ owed' = [owed EXCEPT ![r] = 1 .. last]
                                /\ todo' = [todo EXCEPT ![r] = 1 .. last]
    BY <1>1 DEF Begin
  <2>2. 1 .. last \in SUBSET Batches
    BY ExtractionRunsAssumption DEF Batches
  <2>3. QED
    BY <1>1, <2>1, <2>2 DEF Begin
<1>2. ASSUME NEW r \in Runs, NEW b \in Batches, MissBatch(r, b)
      PROVE  RunType'
  BY <1>2 DEF MissBatch, Attempt
<1>3. ASSUME NEW r \in Runs, NEW b \in Batches, SkipBatch(r, b)
      PROVE  RunType'
  BY <1>3 DEF SkipBatch, Attempt
<1>4. ASSUME NEW r \in Runs, NEW b \in Batches, NEW drafted, CommitBatch(r, b, drafted)
      PROVE  RunType'
  BY <1>4 DEF CommitBatch, Attempt
<1>5. ASSUME NEW r \in Runs, Reread(r)
      PROVE  RunType'
  BY <1>5 DEF Reread
<1>6. ASSUME NEW r \in Runs, Settle(r)
      PROVE  RunType'
  BY <1>6 DEF Settle, Close, Marked
<1>7. ASSUME NEW r \in Runs, Fail(r)
      PROVE  RunType'
  BY <1>7 DEF Fail, Close
<1>8. ASSUME NEW p \in Processes, Crash(p)
      PROVE  RunType'
  BY <1>8 DEF Crash
<1>9. ASSUME NEW p \in Processes, Start(p)
      PROVE  RunType'
  BY <1>9 DEF Start
<1>10. CASE UNCHANGED runVars
  BY <1>10 DEF runVars
<1>11. QED
  BY <1>1, <1>2, <1>3, <1>4, <1>5, <1>6, <1>7, <1>8, <1>9, <1>10
     DEF Next, Proceed, Read, Review, RequestChanges, Edit, Intervene, vars

LEMMA ProcessTypeKept ==
  ASSUME ProcessType, [Next]_vars
  PROVE  ProcessType'
<1>1. ASSUME NEW r \in Runs, Begin(r)
      PROVE  ProcessType'
  BY <1>1 DEF Begin, ProcessType
<1>2. ASSUME NEW r \in Runs, Settle(r) \/ Fail(r)
      PROVE  ProcessType'
  BY <1>2 DEF Settle, Fail, Close, ProcessType
<1>3. ASSUME NEW p \in Processes, Crash(p) \/ Start(p)
      PROVE  ProcessType'
  BY <1>3 DEF Crash, Start, ProcessType
<1>4. CASE UNCHANGED processVars
  BY <1>4 DEF processVars, ProcessType
<1>5. ASSUME NEW r \in Runs, Proceed(r)
      PROVE  ProcessType'
  BY <1>2, <1>4, <1>5 DEF Proceed, Read, MissBatch, SkipBatch, CommitBatch, Attempt, Reread
<1>6. QED
  BY <1>1, <1>3, <1>4, <1>5 DEF Next, Review, RequestChanges, Edit, Intervene, vars

LEMMA PeopleTypeKept ==
  ASSUME PeopleType, [Next]_vars
  PROVE  PeopleType'
<1>1. CASE UNCHANGED <<peopleVars, misplaced>>
  BY <1>1 DEF PeopleType, peopleVars
<1>2. ASSUME NEW w \in Candidates, NEW decision \in Decisions, Review(w, decision)
      PROVE  PeopleType'
  BY <1>2, PairOfCandidate, ExtractionRunsAssumption DEF PeopleType, Review, Intervene
<1>3. ASSUME NEW w \in Candidates, RequestChanges(w) \/ Edit(w)
      PROVE  PeopleType'
  BY <1>3, ExtractionRunsAssumption DEF PeopleType, RequestChanges, Edit, Intervene
<1>4. ASSUME NEW r \in Runs, Settle(r)
      PROVE  PeopleType'
  <2>1. PICK linked \in SUBSET Extracted(r) : misplaced' = misplaced \cup Rewritten(r, linked)
    BY <1>4 DEF Settle
  <2>2. Rewritten(r, linked) \subseteq Contents \X Decisions
    <3>1. SUFFICES ASSUME NEW v \in Rewritten(r, linked)
                   PROVE  v \in Contents \X Decisions
      OBVIOUS
    <3>2. PICK c \in linked : v = <<c, rows[r, c].status>> /\ rows[r, c].status \in Decisions
      BY <3>1 DEF Rewritten
    <3>3. c \in Contents
      BY DEF Extracted
    <3>4. QED
      BY <3>2, <3>3
  <2>3. UNCHANGED peopleVars
    BY <1>4 DEF Settle, Close
  <2>4. QED
    BY <2>1, <2>2, <2>3 DEF PeopleType, peopleVars
<1>5. ASSUME NEW r \in Runs, Begin(r) \/ Proceed(r), ~Settle(r)
      PROVE  UNCHANGED <<peopleVars, misplaced>>
  BY <1>5 DEF Begin, Proceed, Read, MissBatch, SkipBatch, CommitBatch, Attempt, Reread,
              Fail, Close, textVars
<1>6. QED
  BY <1>1, <1>2, <1>3, <1>4, <1>5 DEF Next, Proceed, Crash, Start, vars, textVars

LEMMA InitTypes ==
  ASSUME Init
  PROVE  RowType /\ RunType /\ ProcessType /\ PeopleType
BY ExtractionRunsAssumption DEF Init, RowType, RunType, ProcessType, PeopleType

\* Every variable stays in its type.
THEOREM TypeCorrect == Spec => []TypeOK
<1>1. Init => TypeOK
  BY InitTypes, TypesAreFour
<1>2. TypeOK /\ [Next]_vars => TypeOK'
  BY RowTypeKept, RunTypeKept, ProcessTypeKept, PeopleTypeKept, TypesAreFour
     DEF TypeOK, RowType, RunType, ProcessType, PeopleType
<1>3. QED
  BY <1>1, <1>2, PTL DEF Spec
-----------------------------------------------------------------------------
(* The inductive invariant.                                                  *)

\* What the row of a run, its place and the batches it owes say of each other.
RunInv(r) ==
  /\ status[r] \in Finished => pc[r] = "over"
  /\ pc[r] \in Live => owed[r] \subseteq todo[r] \cup unread[r]
  /\ status[r] = "completed" => owed[r] = {}
  /\ status[r] = "running" => pc[r] \in Live \cup {"lost"}

\* The tasks of processes that run are the runs that go on, each a task of one.
DrivenInv(r) ==
  /\ \A p \in Processes : r \in drives[p] => p \in up /\ pc[r] \in Live
  /\ \A p, o \in Processes : r \in drives[p] /\ r \in drives[o] => p = o
  /\ pc[r] \in Live => \E p \in up : r \in drives[p]

\* A decision on a text as it was drafted is one somebody took.
Known(w) ==
  rows[w].status \in Decisions /\ ~rows[w].edited
    => <<w[2], rows[w].status>> \in verdicts \cup misplaced

\* Where a candidate's links lead, and where its status comes from.
RowInv(w) ==
  /\ rows[w].retired # 0 => Extracted(rows[w].retired) # {}
  /\ Known(w)
  /\ rows[w].carried # 0 => status[rows[w].carried] \in Finished

RunsInv == \A r \in Runs : RunInv(r)

TasksInv == \A r \in Runs : DrivenInv(r)

Typed == RowType /\ RunType /\ ProcessType /\ PeopleType

IInv ==
  /\ Typed
  /\ RunsInv
  /\ TasksInv
  /\ \A w \in Candidates : RowInv(w)

LEMMA InitIInv ==
  ASSUME Init
  PROVE  IInv
<1>1. Typed
  BY InitTypes DEF Typed
<1>2. RunsInv
  BY DEF Init, RunsInv, RunInv, Finished, Live
<1>3. TasksInv
  BY DEF Init, TasksInv, DrivenInv, Live
<1>4. \A w \in Candidates : RowInv(w)
  BY MissingIs DEF Init, RowInv, Known, Decisions
<1>5. QED
  BY <1>1, <1>2, <1>3, <1>4 DEF IInv

LEMMA TypedKept ==
  ASSUME Typed, [Next]_vars
  PROVE  Typed'
BY RowTypeKept, RunTypeKept, ProcessTypeKept, PeopleTypeKept DEF Typed

LEMMA RunInvKept ==
  ASSUME Typed, RunsInv, TasksInv, [Next]_vars
  PROVE  RunsInv'
<1>a. RunType /\ ProcessType
  BY DEF Typed
<1>b. \A r \in Runs : /\ RunInv(r)
                      /\ \A p \in Processes : r \in drives[p] => pc[r] \in Live
  BY DEF RunsInv, TasksInv, DrivenInv
<1> USE <1>a, <1>b DEF RunType, RunInv, Live, Finished
<1>1. ASSUME NEW r \in Runs, Begin(r)
      PROVE  \A q \in Runs : RunInv(q)'
  <2>1. PICK last \in Batches : /\ owed' = [owed EXCEPT ![r] = 1 .. last]
                                /\ todo' = [todo EXCEPT ![r] = 1 .. last]
    BY <1>1 DEF Begin
  <2>2. QED
    BY <1>1, <2>1 DEF Begin
<1>2. ASSUME NEW r \in Runs, NEW b \in Batches, MissBatch(r, b)
      PROVE  \A q \in Runs : RunInv(q)'
  BY <1>2 DEF MissBatch, Attempt
<1>3. ASSUME NEW r \in Runs, NEW b \in Batches, SkipBatch(r, b)
      PROVE  \A q \in Runs : RunInv(q)'
  BY <1>3 DEF SkipBatch, Attempt
<1>4. ASSUME NEW r \in Runs, NEW b \in Batches, NEW drafted, CommitBatch(r, b, drafted)
      PROVE  \A q \in Runs : RunInv(q)'
  BY <1>4 DEF CommitBatch, Attempt
<1>5. ASSUME NEW r \in Runs, Reread(r)
      PROVE  \A q \in Runs : RunInv(q)'
  BY <1>5 DEF Reread
<1>6. ASSUME NEW r \in Runs, Settle(r)
      PROVE  \A q \in Runs : RunInv(q)'
  BY <1>6 DEF Settle, Close, Marked
<1>7. ASSUME NEW r \in Runs, Fail(r)
      PROVE  \A q \in Runs : RunInv(q)'
  BY <1>7 DEF Fail, Close
<1>8. ASSUME NEW p \in Processes, Crash(p)
      PROVE  \A q \in Runs : RunInv(q)'
  BY <1>8 DEF Crash
<1>9. ASSUME NEW p \in Processes, Start(p)
      PROVE  \A q \in Runs : RunInv(q)'
  BY <1>9 DEF Start, Orphans
<1>10. ASSUME UNCHANGED runVars
       PROVE  \A q \in Runs : RunInv(q)'
  BY <1>10 DEF runVars
<1> HIDE <1>a, <1>b DEF RunType, RunInv, Live, Finished
<1>11. ASSUME NEW r \in Runs, Proceed(r)
       PROVE  \A q \in Runs : RunInv(q)'
  BY <1>2, <1>3, <1>4, <1>5, <1>6, <1>7, <1>11 DEF Proceed, Read
<1>12. ASSUME NEW w \in Candidates,
              \/ \E decision \in Decisions : Review(w, decision)
              \/ RequestChanges(w) \/ Edit(w)
       PROVE  UNCHANGED runVars
  BY <1>12 DEF Review, RequestChanges, Edit, Intervene
<1>13. UNCHANGED vars => UNCHANGED runVars
  BY DEF vars
<1>14. \A q \in Runs : RunInv(q)'
  BY <1>1, <1>8, <1>9, <1>10, <1>11, <1>12, <1>13 DEF Next
<1>15. QED
  BY <1>14 DEF RunsInv

LEMMA TasksInvKept ==
  ASSUME Typed, TasksInv, [Next]_vars
  PROVE  TasksInv'
<1>a. RunType /\ ProcessType
  BY DEF Typed
<1>b. \A r \in Runs : DrivenInv(r)
  BY DEF TasksInv
<1>c. Runs' = Runs
  BY DEF Runs
<1>1. ASSUME NEW r \in Runs, Begin(r), NEW q \in Runs
      PROVE  DrivenInv(q)'
  <2>1. PICK p \in up : drives' = [drives EXCEPT ![p] = @ \cup {r}]
    BY <1>1 DEF Begin
  <2>2. /\ up' = up /\ pc' = [pc EXCEPT ![r] = "reading"] /\ pc[r] = "unborn"
    BY <1>1 DEF Begin
  <2>3. QED
    BY <1>a, <1>b, <2>1, <2>2 DEF DrivenInv, RunType, ProcessType, Live
<1>2. ASSUME NEW r \in Runs, NEW b \in Batches, Attempt(r, b), NEW q \in Runs
      PROVE  DrivenInv(q)'
  BY <1>b, <1>2 DEF Attempt, processVars, DrivenInv
<1>3. ASSUME NEW r \in Runs, Reread(r), NEW q \in Runs
      PROVE  DrivenInv(q)'
  BY <1>a, <1>b, <1>3 DEF Reread, processVars, DrivenInv, RunType, Live
<1>4. ASSUME NEW r \in Runs, NEW to \in {"over", "lost"}, Close(r, to), NEW q \in Runs
      PROVE  DrivenInv(q)'
  BY <1>a, <1>b, <1>4 DEF Close, DrivenInv, RunType, ProcessType, Live
<1>5. ASSUME NEW p \in Processes, Crash(p), NEW q \in Runs
      PROVE  DrivenInv(q)'
  <2>1. /\ up' = up \ {p} /\ drives' = [drives EXCEPT ![p] = {}]
        /\ pc'[q] = IF q \in drives[p] THEN "lost" ELSE pc[q]
    BY <1>5 DEF Crash
  <2>2. \A o \in Processes : drives'[o] = IF o = p THEN {} ELSE drives[o]
    BY <1>a, <2>1 DEF ProcessType
  <2>3. up \subseteq Processes /\ DrivenInv(q)
    BY <1>a, <1>b DEF ProcessType
  <2>4. \A o \in Processes : q \in drives'[o] => o \in up' /\ pc'[q] \in Live
    <3>1. SUFFICES ASSUME NEW o \in Processes, q \in drives'[o]
                   PROVE  o \in up' /\ pc'[q] \in Live
      OBVIOUS
    <3>2. o # p /\ q \in drives[o]
      BY <2>2, <3>1
    <3>3. q \notin drives[p]
      BY <2>3, <3>2 DEF DrivenInv
    <3>4. QED
      BY <2>1, <2>3, <3>2, <3>3 DEF DrivenInv
  <2>5. \A o, n \in Processes : q \in drives'[o] /\ q \in drives'[n] => o = n
    BY <2>2, <2>3 DEF DrivenInv
  <2>6. QED
    BY <2>1, <2>2, <2>3, <2>4, <2>5 DEF DrivenInv, Live
<1>6. ASSUME NEW p \in Processes, Start(p), NEW q \in Runs
      PROVE  DrivenInv(q)'
  BY <1>a, <1>b, <1>6 DEF Start, DrivenInv, RunType, ProcessType, Live
<1>7. ASSUME UNCHANGED <<pc, processVars>>, NEW q \in Runs
      PROVE  DrivenInv(q)'
  BY <1>b, <1>7 DEF processVars, DrivenInv
<1>8. ASSUME NEW r \in Runs, Proceed(r), NEW q \in Runs
      PROVE  DrivenInv(q)'
  BY <1>2, <1>3, <1>4, <1>8
     DEF Proceed, Read, MissBatch, SkipBatch, CommitBatch, Settle, Fail
<1>9. \A q \in Runs : DrivenInv(q)'
  BY <1>1, <1>5, <1>6, <1>7, <1>8
     DEF Next, Review, RequestChanges, Edit, Intervene, vars, runVars
<1>10. QED
  BY <1>9 DEF TasksInv

\* What is finished stays so.
LEMMA FinishedStays ==
  ASSUME Typed, RunsInv, [Next]_vars, NEW q \in Runs, status[q] \in Finished
  PROVE  status'[q] \in Finished
<1> USE DEF Typed, RunType, RunsInv, RunInv, Live
<1>1. ASSUME NEW r \in Runs, Proceed(r) \/ Begin(r)
      PROVE  status'[q] \in Finished
  <2>1. CASE r = q
    BY <1>1, <2>1 DEF Begin, Proceed, Read, MissBatch, SkipBatch, CommitBatch, Attempt, Reread,
                      Settle, Fail
  <2>2. CASE r # q
    BY <1>1, <2>2 DEF Begin, Proceed, Read, MissBatch, SkipBatch, CommitBatch, Attempt, Reread,
                      Settle, Fail
  <2>3. QED
    BY <2>1, <2>2
<1>2. ASSUME NEW p \in Processes, Start(p)
      PROVE  status'[q] \in Finished
  BY <1>2 DEF Start, Orphans, Finished
<1>3. CASE status' = status
  BY <1>3
<1>4. QED
  BY <1>1, <1>2, <1>3 DEF Next, Crash, Review, RequestChanges, Edit, Intervene, vars, runVars

\* A candidate that is there stays there.
LEMMA ExtractedStays ==
  ASSUME RowType, RowType', \A w \in Candidates : rows[w] # Missing => rows'[w] # Missing,
         NEW n \in Runs, Extracted(n) # {}
  PROVE  Extracted(n)' # {}
BY DEF Extracted, Candidates

\* A step after which a row has the links it had, and its decision is known.
LEMMA RowInvKeptBy ==
  ASSUME RowType, RowType', \A w \in Candidates : RowInv(w),
         \A w \in Candidates : rows[w] # Missing => rows'[w] # Missing,
         \A q \in Runs : status[q] \in Finished => status'[q] \in Finished,
         NEW w \in Candidates, Known(w)',
         rows'[w].retired = rows[w].retired,
         rows'[w].carried = rows[w].carried
  PROVE  RowInv(w)'
<1>1. /\ rows[w].retired \in 0 .. LastRun /\ rows[w].carried \in 0 .. LastRun
  BY CandidateIsThere DEF RowType
<1>2. \A n \in 0 .. LastRun : n # 0 => n \in Runs
  BY LinkIsRun
<1>3. ASSUME rows'[w].retired # 0
      PROVE  Extracted(rows[w].retired)' # {}
  <2>1. PICK n \in Runs : n = rows[w].retired
    BY <1>1, <1>2, <1>3
  <2>2. Extracted(n)' # {}
    BY <1>3, <2>1, ExtractedStays DEF RowInv
  <2>3. rows'[w].retired = n
    BY <2>1
  <2>4. QED
    BY <2>2, <2>3 DEF Extracted
<1>4. rows'[w].carried # 0 => status'[rows'[w].carried] \in Finished
  BY <1>1, <1>2 DEF RowInv
<1>5. QED
  BY <1>3, <1>4 DEF RowInv

\* What was known stays known, of a row that says no more than before.
LEMMA KnownKept ==
  ASSUME NEW w \in Candidates, RowInv(w),
         verdicts \subseteq verdicts', misplaced \subseteq misplaced',
         rows'[w].status \in {rows[w].status, "changes_requested"},
         rows[w].edited => rows'[w].edited
  PROVE  Known(w)'
BY DEF RowInv, Known, Decisions

LEMMA ReviewKeeps ==
  ASSUME RowType, \A w \in Candidates : RowInv(w), RowType',
         NEW v \in Candidates, NEW decision \in Decisions, Review(v, decision),
         NEW w \in Candidates
  PROVE  RowInv(w)'
<1>1. rows[v] \in Candidate /\ rows[w] \in Candidate \cup {Missing}
  BY CandidateIsThere DEF RowType, Review, Intervene
<1>2. /\ rows' = [rows EXCEPT ![v] = [rows[v] EXCEPT !.status = decision]]
      /\ verdicts' = IF rows[v].edited THEN verdicts
                     ELSE verdicts \cup {<<v[2], decision>>}
      /\ status' = status /\ misplaced' = misplaced
  BY DEF Review, Intervene, runVars
<1>3. ASSUME NEW u \in Candidates
      PROVE  /\ rows'[u].retired = rows[u].retired /\ rows'[u].carried = rows[u].carried
             /\ rows'[u].edited = rows[u].edited
             /\ rows[u] # Missing => rows'[u] # Missing
             /\ rows'[u].status = IF u = v THEN decision ELSE rows[u].status
  <2>1. rows'[u] = IF u = v THEN [rows[v] EXCEPT !.status = decision] ELSE rows[u]
    BY <1>2 DEF RowType
  <2>2. LET x == [rows[v] EXCEPT !.status = decision]
        IN  /\ x.status = decision /\ x.edited = rows[v].edited
            /\ x.retired = rows[v].retired /\ x.carried = rows[v].carried
    BY <1>1 DEF Candidate
  <2>3. decision # Missing.status
    BY MissingIs DEF Decisions
  <2>4. QED
    BY <2>1, <2>2, <2>3
<1>4. Known(w)'
  <2>1. CASE w = v
    <3>1. ~rows'[w].edited => <<w[2], rows'[w].status>> \in verdicts'
      BY <1>2, <1>3, <2>1
    <3>2. QED
      BY <3>1 DEF Known
  <2>2. CASE w # v
    <3>1. rows'[w].status = rows[w].status
      BY <1>3, <2>2
    <3>2. QED
      BY <1>2, <1>3, <3>1, KnownKept
  <2>3. QED
    BY <2>1, <2>2
<1>5. QED
  BY <1>2, <1>3, <1>4, RowInvKeptBy

LEMMA OtherPeopleKeep ==
  ASSUME RowType, \A w \in Candidates : RowInv(w), RowType',
         NEW v \in Candidates, RequestChanges(v) \/ Edit(v), NEW w \in Candidates
  PROVE  RowInv(w)'
<1>1. rows[v] \in Candidate
  BY CandidateIsThere DEF RowType, RequestChanges, Edit, Intervene
<1>2. status' = status /\ verdicts' = verdicts /\ misplaced' = misplaced
  BY DEF RequestChanges, Edit, Intervene, runVars
<1>3. ASSUME NEW u \in Candidates
      PROVE  /\ rows'[u].retired = rows[u].retired /\ rows'[u].carried = rows[u].carried
             /\ rows[u] # Missing => rows'[u] # Missing
             /\ rows'[u].status \in {rows[u].status, "changes_requested"}
             /\ rows[u].edited => rows'[u].edited
  <2> DEFINE x == [rows[v] EXCEPT !.status = "changes_requested"]
             y == [rows[v] EXCEPT !.edited = TRUE]
  <2>1. /\ x.status = "changes_requested"
        /\ x.retired = rows[v].retired /\ x.carried = rows[v].carried
        /\ x.edited = rows[v].edited
    BY <1>1 DEF Candidate
  <2>2. /\ y.status = rows[v].status /\ y.edited = TRUE
        /\ y.retired = rows[v].retired /\ y.carried = rows[v].carried
    BY <1>1 DEF Candidate
  <2>3. x \in Candidate /\ y \in Candidate
    <3>1. "changes_requested" \in Editable \cup Decisions /\ TRUE \in BOOLEAN
      BY DEF Editable
    <3>2. QED
      BY <1>1, <3>1, FieldsReplaced
  <2>4. x # Missing /\ y # Missing
    BY <2>3, CandidateIsThere
  <2>5. rows' = [rows EXCEPT ![v] = x] \/ rows' = [rows EXCEPT ![v] = y]
    BY DEF RequestChanges, Edit
  <2> HIDE DEF x, y
  <2>6. \/ rows'[u] \in {x, y} /\ u = v
        \/ rows'[u] = rows[u]
    BY <2>5 DEF RowType
  <2>7. QED
    BY <2>1, <2>2, <2>4, <2>6
<1>4. Known(w)'
  BY <1>2, <1>3, KnownKept
<1>5. QED
  BY <1>2, <1>3, <1>4, RowInvKeptBy

\* A step of a run.
LEMMA CommitKeeps ==
  ASSUME RowType, \A w \in Candidates : RowInv(w), RowType',
         \A q \in Runs : status[q] \in Finished => status'[q] \in Finished,
         NEW r \in Runs, NEW b \in Batches,
         NEW drafted \in SUBSET Contents, CommitBatch(r, b, drafted),
         NEW w \in Candidates
  PROVE  RowInv(w)'
<1>1. \A u \in Candidates : rows[u] # Missing => rows'[u] # Missing
  <2>1. ASSUME NEW u \in Candidates, rows[u] # Missing
        PROVE  rows'[u] # Missing
    <3>1. rows[u] \in Candidate
      BY <2>1, CandidateIsThere DEF RowType
    <3>2. [rows[u] EXCEPT !.retired = r].status = rows[u].status
      BY <3>1 DEF Candidate
    <3>3. rows[u].status # "none" /\ Drafted.status # "none" /\ Missing.status = "none"
      BY <3>1, CandidateIsThere, DraftedIs, MissingIs
    <3>4. rows'[u] \in {Drafted, rows[u], [rows[u] EXCEPT !.retired = r]}
      BY CommittedRows
    <3>5. rows'[u].status # "none"
      BY <3>2, <3>3, <3>4
    <3>6. QED
      BY <3>3, <3>5
  <2>2. QED
    BY <2>1
<1>2. verdicts' = verdicts /\ misplaced' = misplaced
  BY DEF CommitBatch, Attempt, peopleVars
<1>3. CASE rows'[w] = rows[w]
  <2>1. Known(w)'
    BY <1>2, <1>3, KnownKept
  <2>2. QED
    BY <1>1, <1>2, <1>3, <2>1, RowInvKeptBy
<1>4. CASE rows'[w] = Drafted
  BY <1>4, DraftedIs DEF RowInv, Known, Decisions
<1>5. CASE /\ drafted # {} /\ rows[w] \in Candidate /\ rows[w].status = "candidate"
           /\ rows'[w] = [rows[w] EXCEPT !.retired = r]
  <2>1. rows'[w].status = "candidate" /\ rows'[w].retired = r
        /\ rows'[w].carried = rows[w].carried
    BY <1>5 DEF Candidate
  <2>2. Extracted(r)' # {}
    <3>1. PICK c \in Contents : c \in drafted
      BY <1>5
    <3>2. PICK u \in Candidates : u = <<r, c>> /\ u[1] = r /\ u[2] = c
      BY CandidateOfPair
    <3>3. rows'[u] = Drafted
      <4>1. u[1] = r /\ u[2] \in drafted
        BY <3>1, <3>2
      <4>2. QED
        BY <4>1, DraftedRows
    <3>4. Drafted # Missing
      BY DraftedIs, CandidateIsThere
    <3>5. QED
      BY <3>2, <3>3, <3>4 DEF Extracted
  <2>3. Extracted(rows[w].retired)' # {}
    BY <2>1, <2>2 DEF Extracted
  <2>4. rows'[w].carried # 0 => status'[rows'[w].carried] \in Finished
    <3>1. rows[w].carried \in 0 .. LastRun
      BY <1>5, CandidateIsThere
    <3>2. rows[w].carried # 0 => rows[w].carried \in Runs
      BY <3>1, LinkIsRun
    <3>3. QED
      BY <2>1, <3>2 DEF RowInv
  <2>5. QED
    BY <2>1, <2>3, <2>4 DEF RowInv, Known, Decisions
<1>6. QED
  BY <1>3, <1>4, <1>5, CommittedRows

LEMMA SettleKeeps ==
  ASSUME RowType, \A w \in Candidates : RowInv(w), RowType',
         \A q \in Runs : status[q] \in Finished => status'[q] \in Finished,
         NEW r \in Runs, Settle(r), NEW w \in Candidates
  PROVE  RowInv(w)'
<1>1. \A u \in Candidates : rows[u] # Missing => rows'[u] # Missing
  <2>1. ASSUME NEW u \in Candidates, rows[u] # Missing
        PROVE  rows'[u] # Missing
    <3>1. CASE rows'[u] = rows[u]
      BY <2>1, <3>1
    <3>2. CASE rows'[u] \in Candidate
      BY <3>2, CandidateIsThere
    <3>3. QED
      BY <3>1, <3>2, SettledRows
  <2>2. QED
    BY <2>1
<1>2. verdicts' = verdicts /\ misplaced \subseteq misplaced'
  BY DEF Settle, Close, peopleVars
<1>3. CASE /\ rows'[w].retired = rows[w].retired
           /\ rows'[w].status = rows[w].status /\ rows'[w].carried = rows[w].carried
           /\ rows[w].edited /\ ~rows'[w].edited /\ rows[w].status \in Decisions
                => <<w[2], rows[w].status>> \in misplaced'
           /\ ~rows[w].edited => ~rows'[w].edited
  <2>1. Known(w)'
    BY <1>2, <1>3 DEF RowInv, Known
  <2>2. QED
    BY <1>1, <1>3, <2>1, RowInvKeptBy
<1>4. ASSUME NEW q \in Runs, status[q] \in Finished,
             rows[w] \in Candidate, rows'[w].retired = rows[w].retired,
             rows'[w].status = rows[q, w[2]].status, rows'[w].status \in Decisions,
             ~rows[q, w[2]].edited, rows'[w].carried = q
      PROVE  RowInv(w)'
  <2>1. PICK c \in Contents : w[2] = c
    BY PairOfCandidate
  <2>2. <<q, c>> \in Candidates /\ <<q, c>>[2] = c
    BY DEF Candidates
  <2>3. Known(w)'
    <3>1. <<c, rows[q, c].status>> \in verdicts \cup misplaced
      BY <1>4, <2>1, <2>2 DEF RowInv, Known
    <3>2. QED
      BY <1>2, <1>4, <2>1, <3>1 DEF Known
  <2>4. status'[rows'[w].carried] \in Finished
    BY <1>4
  <2>5. rows'[w].retired # 0 => Extracted(rows[w].retired)' # {}
    <3>1. SUFFICES ASSUME rows'[w].retired # 0
                   PROVE  Extracted(rows[w].retired)' # {}
      OBVIOUS
    <3>2. rows[w].retired \in 0 .. LastRun
      BY <1>4, CandidateIsThere
    <3>3. PICK n \in Runs : n = rows[w].retired
      BY <1>4, <3>1, <3>2, LinkIsRun
    <3>4. Extracted(n)' # {}
      BY <1>1, <1>4, <3>1, <3>3, ExtractedStays DEF RowInv
    <3>5. rows'[w].retired = n
      BY <1>4, <3>3
    <3>6. QED
      BY <3>4, <3>5 DEF Extracted
  <2>6. QED
    BY <2>3, <2>4, <2>5 DEF RowInv
<1>5. CASE rows'[w] = rows[w]
  BY <1>3, <1>5
<1>6. QED
  BY <1>3, <1>4, <1>5, SettledRows

\* The invariant is inductive.
THEOREM StepIInv ==
  ASSUME IInv, [Next]_vars
  PROVE  IInv'
<1>1. Typed /\ RunsInv /\ TasksInv /\ (\A w \in Candidates : RowInv(w)) /\ RowType
  BY DEF IInv, Typed
<1>2. Typed' /\ RowType'
  BY <1>1, TypedKept DEF Typed
<1>3. RunsInv' /\ TasksInv'
  BY <1>1, RunInvKept, TasksInvKept
<1>4. \A q \in Runs : status[q] \in Finished => status'[q] \in Finished
  BY <1>1, FinishedStays
<1>5. ASSUME UNCHANGED textVars, verdicts' = verdicts, NEW w \in Candidates
      PROVE  RowInv(w)'
  <2>1. rows' = rows /\ misplaced' = misplaced
    BY <1>5 DEF textVars
  <2>2. Known(w)'
    BY <1>1, <1>5, <2>1, KnownKept
  <2>3. QED
    BY <1>1, <1>2, <1>4, <2>1, <2>2, RowInvKeptBy
<1>6. ASSUME NEW r \in Runs, Begin(r) \/ Proceed(r), NEW w \in Candidates
      PROVE  RowInv(w)'
  <2>1. CASE \E b \in Batches, drafted \in SUBSET Contents : CommitBatch(r, b, drafted)
    BY <1>1, <1>2, <1>4, <2>1, CommitKeeps
  <2>2. CASE Settle(r)
    BY <1>1, <1>2, <1>4, <2>2, SettleKeeps
  <2>3. CASE UNCHANGED textVars /\ verdicts' = verdicts
    BY <1>5, <2>3
  <2>4. QED
    BY <1>6, <2>1, <2>2, <2>3
       DEF Begin, Proceed, Read, MissBatch, SkipBatch, Attempt, Reread, Fail, Close,
           peopleVars, textVars
<1>7. CASE (\E p \in Processes : Crash(p) \/ Start(p)) \/ UNCHANGED vars
  <2>1. UNCHANGED textVars /\ verdicts' = verdicts
    BY <1>7 DEF Crash, Start, vars, peopleVars
  <2>2. QED
    BY <1>2, <1>3, <1>5, <2>1 DEF IInv
<1>8. ASSUME NEW v \in Candidates,
             \/ \E decision \in Decisions : Review(v, decision)
             \/ RequestChanges(v) \/ Edit(v),
             NEW w \in Candidates
      PROVE  RowInv(w)'
  BY <1>1, <1>2, <1>8, ReviewKeeps, OtherPeopleKeep
<1>9. QED
  BY <1>2, <1>3, <1>6, <1>7, <1>8 DEF Next, IInv

THEOREM InductiveInvariant == Spec => []IInv
BY InitIInv, StepIInv, PTL DEF Spec

-----------------------------------------------------------------------------
(* What follows from it.                                                     *)

\* Whoever retired a candidate has candidates (_supersede_prior_candidates).
THEOREM QueuesAreReplaced == Spec => []QueueIsReplacedNotEmptied
<1>1. IInv => QueueIsReplacedNotEmptied
  BY DEF IInv, RowInv, QueueIsReplacedNotEmptied
<1>2. QED
  BY <1>1, InductiveInvariant, PTL

\* Every decision on a drafted text was made by a person on that text, or on one of
\* their own that the linking pass replaced with it, through however many runs it was
\* handed on (the comparison at the end of a run).
THEOREM DecisionsComeFromPeople == Spec => []DecisionsAreMadeByPeople
<1>1. IInv => DecisionsAreMadeByPeople
  BY DEF IInv, RowInv, Known, DecisionsAreMadeByPeople
<1>2. QED
  BY <1>1, InductiveInvariant, PTL

\* The run a decision was taken from is finished (_select_baseline).
THEOREM ReferencesAreFinished == Spec => []CarriedFromFinishedRuns
<1>1. IInv => CarriedFromFinishedRuns
  BY DEF IInv, RowInv, CarriedFromFinishedRuns
<1>2. QED
  BY <1>1, InductiveInvariant, PTL

\* A complete run owes no batch (_retry_unread_batches, mark_completed).
THEOREM CompleteRunsCover == Spec => []CompletedMeansCovered
<1>1. IInv => CompletedMeansCovered
  BY DEF IInv, RunsInv, RunInv, CompletedMeansCovered
<1>2. QED
  BY <1>1, InductiveInvariant, PTL

\* A run shown as running is the task of a process that runs, or one whose end was not
\* stored and which no start has closed since, with any number of processes that stop
\* and start beside each other (_reconcile_interrupted_runs).
THEOREM RunningRunsAreAlive == Spec => []ShownRunningIsAlive
<1>1. IInv => ShownRunningIsAlive
  BY DEF IInv, RunsInv, RunInv, TasksInv, DrivenInv, ShownRunningIsAlive
<1>2. QED
  BY <1>1, InductiveInvariant, PTL
=============================================================================
