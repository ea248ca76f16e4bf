---------------------------- MODULE TeardownProofs ----------------------------
(***************************************************************************)
(* Proofs about Teardown for every number of projects and documents; all   *)
(* but the last for any faults.                                            *)
(***************************************************************************)
EXTENDS Teardown, TLAPS

-----------------------------------------------------------------------------
(* The invariant: what the tables, the index and the deletions are to each      *)
(* other.                                                                       *)

\* A document is fresh or stored or gone; what is stored has the clauses that the index
\* has or is to have; only what is stored is filed.
SourceInv ==
  /\ fresh \cap (stored \cup pushing \cup entries) = {}
  /\ clauses \subseteq stored
  /\ stored \cap (pushing \cup entries) \subseteq clauses
  /\ \A d \in Documents : home[d] # None => d \in stored

\* A scope was stored when it was read, and once it is deleted it does not come back.
Deletion(p) ==
  /\ pc[p] \in {"deleted", "done"} => p \notin projects /\ scope[p] \cap stored = {}
  /\ report[p] # "none" => pc[p] = "done"
  /\ keys[p] \subseteq scope[p]
  /\ scope[p] \cap fresh = {}

Inv == TypeOK /\ SourceInv /\ (\A p \in Projects : Deletion(p)) /\ SharedSourceStays

Stages == {"idle", "scoped", "refused", "deleted", "done"}
Reports == {"none", "clean", "skipped", "orphaned"}

-----------------------------------------------------------------------------
(* The statements of the deletion.                                              *)

\* What is read into a scope is stored, and the keys are among it.
LEMMA ScopeIsStored ==
  ASSUME NEW p
  PROVE  Exclusive(p) \subseteq stored /\ CollectedKeys(p) \subseteq Exclusive(p)
BY DEF Exclusive, Reached, CollectedKeys

\* A deletion that is not blocked meets no rule of another project, hence no evidence.
LEMMA ScopeIsItsOwn ==
  ASSUME TypeOK, NEW p \in Projects, ~Blocked(p), NEW pair \in rules, pair[2] \in scope[p]
  PROVE  pair[1] = p
<1>1. pair \in Projects \X Documents /\ pair = <<pair[1], pair[2]>>
  BY DEF TypeOK
<1>2. ~Others(p, rules, pair[2])
  BY DEF Blocked
<1>3. QED
  BY <1>1, <1>2 DEF Others

\* What it leaves: the rules, evidence, homes and provisions of other projects.
LEMMA DeletionLeaves ==
  ASSUME Inv, NEW p \in Projects, Delete(p)
  PROVE  /\ \A pair \in rules' : pair \in rules /\ pair[1] # p /\ pair[2] \notin scope[p]
         /\ \A pair \in cited' : pair \in cited /\ pair[1] # p /\ pair[2] \notin scope[p]
         /\ \A pair \in cited \ cited' : pair[1] = p
         /\ \A d \in Documents : home'[d] # None => d \notin scope[p] /\ home'[d] = home[d]
         /\ \A d \in Documents : home'[d] # p
         /\ \A d \in Documents : provision'[d] \in {None, provision[d]} /\ provision'[d] # p
<1>0. TypeOK /\ SourceInv /\ p # None
  BY TeardownAssumption DEF Inv
<1>1. \A pair \in rules : pair \in Projects \X Documents
  BY <1>0 DEF TypeOK
<1>2. \A pair \in rules : pair \in Gone(p) <=> pair[1] = p
  BY <1>1 DEF Gone
<1>3. \A pair \in rules : pair[2] \in scope[p] => pair[1] = p
  BY <1>0, ScopeIsItsOwn DEF Delete
<1>4. \A pair \in rules' : pair \in rules /\ pair[1] # p /\ pair[2] \notin scope[p]
  BY <1>2, <1>3 DEF Delete
<1>5. cited \subseteq rules
  BY <1>0 DEF TypeOK
<1>6. /\ \A pair \in cited' : pair \in cited /\ pair[1] # p /\ pair[2] \notin scope[p]
      /\ \A pair \in cited \ cited' : pair[1] = p
  BY <1>2, <1>3, <1>5 DEF Delete, DeletedEvidence
<1>7. home' = [d \in Documents |-> IF d \in scope[p] THEN None ELSE home[d]]
  BY DEF Delete
<1>8. \A d \in Documents : home[d] = p => d \in scope[p]
  BY <1>0 DEF Delete, Blocked, SourceInv
<1>9. \A d \in Documents : provision'[d] = IF provision[d] = p \/ d \in scope[p]
                                           THEN None ELSE provision[d]
  BY DEF Delete, DeletedProvisions
<1>10. QED
  BY <1>0, <1>4, <1>6, <1>7, <1>8, <1>9

-----------------------------------------------------------------------------
(* The invariant is inductive.                                                  *)

LEMMA InvInit == Init => Inv
<1> SUFFICES ASSUME Init PROVE Inv
  OBVIOUS
<1>1. TypeOK /\ SourceInv /\ SharedSourceStays
  BY DEF Init, TypeOK, SourceInv, SharedSourceStays
<1>2. \A p \in Projects : Deletion(p)
  BY DEF Init, Deletion
<1>3. QED
  BY <1>1, <1>2 DEF Inv

LEMMA InvStep == Inv /\ [Next]_vars => Inv'
<1> SUFFICES ASSUME Inv, [Next]_vars PROVE Inv'
  OBVIOUS
<1>0. TypeOK /\ SourceInv /\ (\A p \in Projects : Deletion(p)) /\ SharedSourceStays
  BY DEF Inv
\* A deletion that does not move, while no project and no fresh document is added and
\* what is stored comes from the fresh ones, stays as it was.
<1>d. ASSUME NEW p \in Projects, pc'[p] = pc[p], scope'[p] = scope[p], keys'[p] = keys[p],
             report'[p] = report[p], projects' \subseteq projects, fresh' \subseteq fresh,
             stored' \subseteq stored \cup fresh
      PROVE  Deletion(p)'
  <2>1. Deletion(p)
    BY <1>0
  <2>2. QED
    BY <1>d, <2>1 DEF Deletion
<1>1. ASSUME NEW d \in Documents, Upload(d) PROVE Inv'
  <2>1. /\ d \in fresh /\ fresh' = fresh \ {d} /\ stored' = stored \cup {d}
        /\ \/ clauses' = clauses \cup {d} /\ pushing' = pushing \cup {d}
           \/ clauses' = clauses /\ pushing' = pushing
        /\ entries' = entries /\ rules' = rules /\ provision' = provision /\ cited' = cited
        /\ projects' = projects /\ pc' = pc /\ scope' = scope /\ keys' = keys /\ report' = report
    BY <1>1 DEF Upload, ruleVars, deletionVars
  <2>2. PICK p \in projects \cup {None} : home' = [home EXCEPT ![d] = p]
    BY <1>1 DEF Upload
  <2>3. TypeOK'
    BY <1>0, <2>1, <2>2 DEF TypeOK
  <2>4. SourceInv'
    BY <1>0, <2>1, <2>2 DEF SourceInv, TypeOK
  <2>5. SharedSourceStays'
    BY <1>0, <2>1 DEF SharedSourceStays
  <2>6. \A q \in Projects : Deletion(q)'
    BY <1>d, <2>1
  <2>7. QED
    BY <2>3, <2>4, <2>5, <2>6 DEF Inv
<1>2. ASSUME NEW d \in Documents, Push(d) PROVE Inv'
  <2>1. /\ d \in pushing /\ pushing' = pushing \ {d}
        /\ entries' \in {entries, entries \cup {d}}
        /\ fresh' = fresh /\ stored' = stored /\ clauses' = clauses /\ home' = home
        /\ rules' = rules /\ provision' = provision /\ cited' = cited
        /\ projects' = projects /\ pc' = pc /\ scope' = scope /\ keys' = keys /\ report' = report
    BY <1>2 DEF Push, sourceVars, ruleVars, deletionVars
  <2>2. TypeOK'
    BY <1>0, <2>1 DEF TypeOK
  <2>3. SourceInv'
    BY <1>0, <2>1 DEF SourceInv
  <2>4. SharedSourceStays'
    BY <1>0, <2>1 DEF SharedSourceStays
  <2>5. \A q \in Projects : Deletion(q)'
    BY <1>d, <2>1
  <2>6. QED
    BY <2>2, <2>3, <2>4, <2>5 DEF Inv
<1>3. ASSUME NEW d \in Documents, Assign(d) PROVE Inv'
  <2>1. /\ d \in stored
        /\ fresh' = fresh /\ stored' = stored /\ clauses' = clauses
        /\ pushing' = pushing /\ entries' = entries
        /\ rules' = rules /\ provision' = provision /\ cited' = cited
        /\ projects' = projects /\ pc' = pc /\ scope' = scope /\ keys' = keys /\ report' = report
    BY <1>3 DEF Assign, ruleVars, indexVars, deletionVars
  <2>2. PICK p \in projects \cup {None} : home' = [home EXCEPT ![d] = p]
    BY <1>3 DEF Assign
  <2>3. TypeOK'
    BY <1>0, <2>1, <2>2 DEF TypeOK
  <2>4. SourceInv'
    BY <1>0, <2>1, <2>2 DEF SourceInv, TypeOK
  <2>5. SharedSourceStays'
    BY <1>0, <2>1 DEF SharedSourceStays
  <2>6. \A q \in Projects : Deletion(q)'
    BY <1>d, <2>1
  <2>7. QED
    BY <2>3, <2>4, <2>5, <2>6 DEF Inv
<1>4. ASSUME NEW p \in Projects, NEW d \in Documents, Extract(p, d) \/ Publish(p, d) PROVE Inv'
  <2>1. /\ p \in projects /\ d \in clauses
        /\ \/ /\ rules' = rules \cup {<<p, d>>} /\ cited' = cited
              /\ provision' \in {provision, [provision EXCEPT ![d] = IF @ = None THEN p ELSE @]}
           \/ /\ <<p, d>> \in rules /\ cited' = cited \cup {<<p, d>>}
              /\ rules' = rules /\ provision' = provision
        /\ fresh' = fresh /\ stored' = stored /\ clauses' = clauses /\ home' = home
        /\ pushing' = pushing /\ entries' = entries
        /\ projects' = projects /\ pc' = pc /\ scope' = scope /\ keys' = keys /\ report' = report
    BY <1>0, <1>4 DEF Extract, Publish, SharedSourceStays, sourceVars, indexVars, deletionVars
  <2>2. provision' \in [Documents -> projects \cup {None}]
    BY <1>0, <2>1 DEF TypeOK
  <2>3. <<p, d>> \in projects \X stored
    BY <1>0, <2>1 DEF SourceInv
  <2>4. rules' \subseteq projects \X stored /\ cited' \subseteq rules'
    BY <1>0, <2>1, <2>3 DEF TypeOK
  <2>5. TypeOK'
    BY <1>0, <2>1, <2>2, <2>4 DEF TypeOK
  <2>6. SourceInv'
    BY <1>0, <2>1 DEF SourceInv
  <2>7. SharedSourceStays'
    BY <1>0, <2>1 DEF SharedSourceStays
  <2>8. \A q \in Projects : Deletion(q)'
    BY <1>d, <2>1
  <2>9. QED
    BY <2>5, <2>6, <2>7, <2>8 DEF Inv
<1>5. ASSUME NEW p \in Projects, Scope(p) \/ Refuse(p) PROVE Inv'
  <2>1. PICK S \in {Exclusive(p), {}}, K \in {CollectedKeys(p), {}}, s \in {"scoped", "refused"} :
          /\ pc' = [pc EXCEPT ![p] = s]
          /\ scope' = [scope EXCEPT ![p] = S] /\ keys' = [keys EXCEPT ![p] = K]
          /\ S = {} => K = {}
    BY <1>5, ScopeIsStored DEF Scope, Refuse
  <2>2. /\ fresh' = fresh /\ stored' = stored /\ clauses' = clauses /\ home' = home
        /\ rules' = rules /\ provision' = provision /\ cited' = cited
        /\ pushing' = pushing /\ entries' = entries
        /\ projects' = projects /\ report' = report
        /\ pc[p] \in {"idle", "refused", "scoped"}
    BY <1>5 DEF Scope, Refuse, sourceVars, ruleVars, indexVars
  <2>3. S \subseteq stored /\ K \subseteq S
    BY <2>1, ScopeIsStored
  <2>4. S \subseteq Documents /\ K \subseteq Documents
    BY <1>0, <2>3 DEF TypeOK
  <2>5. TypeOK'
    BY <1>0, <2>1, <2>2, <2>4 DEF TypeOK
  <2>6. SourceInv' /\ SharedSourceStays'
    BY <1>0, <2>2 DEF SourceInv, SharedSourceStays
  <2>7. Deletion(p)'
    BY <1>0, <2>1, <2>2, <2>3 DEF Deletion, SourceInv, TypeOK
  <2>8. ASSUME NEW q \in Projects \ {p} PROVE Deletion(q)'
    BY <1>0, <1>d, <2>1, <2>2 DEF TypeOK
  <2>9. QED
    BY <2>5, <2>6, <2>7, <2>8 DEF Inv
<1>6. ASSUME NEW p \in Projects, Delete(p) PROVE Inv'
  <2>1. /\ pc[p] = "scoped" /\ pc' = [pc EXCEPT ![p] = "deleted"]
        /\ projects' = projects \ {p}
        /\ clauses' = clauses \ scope[p] /\ stored' = stored \ scope[p]
        /\ fresh' = fresh /\ scope' = scope /\ keys' = keys /\ report' = report
        /\ pushing' = pushing /\ entries' = entries
    BY <1>6 DEF Delete, DeletedClauses, indexVars
  <2>2. /\ \A pair \in rules' : pair \in rules /\ pair[1] # p /\ pair[2] \notin scope[p]
        /\ \A pair \in cited' : pair \in cited /\ pair[1] # p /\ pair[2] \notin scope[p]
        /\ \A d \in Documents : home'[d] # None => d \notin scope[p] /\ home'[d] = home[d]
        /\ \A d \in Documents : home'[d] # p
        /\ \A d \in Documents : provision'[d] \in {None, provision[d]} /\ provision'[d] # p
    BY <1>6, DeletionLeaves
  <2>3. home' \in [Documents -> projects' \cup {None}]
    <3>1. home' = [d \in Documents |-> IF d \in scope[p] THEN None ELSE home[d]]
      BY <1>6 DEF Delete
    <3>2. QED
      BY <1>0, <2>1, <2>2, <3>1 DEF TypeOK
  <2>4. provision' \in [Documents -> projects' \cup {None}]
    <3>1. provision' = [d \in Documents |->
                          IF d \in DeletedProvisions(p) THEN None ELSE provision[d]]
      BY <1>6 DEF Delete
    <3>2. QED
      BY <1>0, <2>1, <2>2, <3>1 DEF TypeOK
  <2>5. rules' \subseteq projects' \X stored'
    BY <1>0, <2>1, <2>2 DEF TypeOK
  <2>6. cited' \subseteq rules'
    <3>1. rules' = rules \ Gone(p) /\ cited' = cited \ DeletedEvidence(p)
      BY <1>6 DEF Delete
    <3>2. QED
      BY <1>0, <3>1 DEF TypeOK, DeletedEvidence
  <2>7. TypeOK'
    BY <1>0, <2>1, <2>3, <2>4, <2>5, <2>6 DEF TypeOK
  <2>8. SourceInv'
    BY <1>0, <2>1, <2>2 DEF SourceInv
  <2>9. SharedSourceStays'
    BY <1>0, <2>1, <2>2 DEF SharedSourceStays
  <2>10. Deletion(p)'
    BY <1>0, <2>1 DEF Deletion, TypeOK
  <2>11. ASSUME NEW q \in Projects \ {p} PROVE Deletion(q)'
    BY <1>0, <1>d, <2>1 DEF TypeOK
  <2>12. QED
    BY <2>7, <2>8, <2>9, <2>10, <2>11 DEF Inv
<1>7. ASSUME NEW p \in Projects, CleanUp(p) \/ Die(p) PROVE Inv'
  <2>1. /\ pc[p] = "deleted" /\ pc' = [pc EXCEPT ![p] = "done"]
        /\ entries' \subseteq entries /\ pushing' = pushing
        /\ fresh' = fresh /\ stored' = stored /\ clauses' = clauses /\ home' = home
        /\ rules' = rules /\ provision' = provision /\ cited' = cited
        /\ projects' = projects /\ scope' = scope /\ keys' = keys
    BY <1>7 DEF CleanUp, Die, sourceVars, ruleVars, indexVars
  <2>2. \E r \in Reports : report' = report \/ report' = [report EXCEPT ![p] = r]
    BY <1>7 DEF CleanUp, Die, FailedOutcome, Reports
  <2>3. report' \in [Projects -> Reports] /\ \A q \in Projects \ {p} : report'[q] = report[q]
    BY <1>0, <2>2 DEF TypeOK, Reports
  <2>4. TypeOK'
    BY <1>0, <2>1, <2>3 DEF TypeOK, Reports
  <2>5. SourceInv' /\ SharedSourceStays'
    BY <1>0, <2>1 DEF SourceInv, SharedSourceStays
  <2>6. Deletion(p)'
    BY <1>0, <2>1 DEF Deletion, TypeOK
  <2>7. ASSUME NEW q \in Projects \ {p} PROVE Deletion(q)'
    BY <1>0, <1>d, <2>1, <2>3 DEF TypeOK
  <2>8. QED
    BY <2>4, <2>5, <2>6, <2>7 DEF Inv
<1>8. CASE UNCHANGED vars
  <2>1. TypeOK' /\ SourceInv' /\ SharedSourceStays'
    BY <1>0, <1>8 DEF vars, TypeOK, SourceInv, SharedSourceStays
  <2>2. \A q \in Projects : Deletion(q)'
    BY <1>d, <1>8 DEF vars
  <2>3. QED
    BY <2>1, <2>2 DEF Inv
<1>9. QED
  BY <1>1, <1>2, <1>3, <1>4, <1>5, <1>6, <1>7, <1>8 DEF Next

LEMMA Invariant == Spec => []Inv
BY InvInit, InvStep, PTL DEF Spec

-----------------------------------------------------------------------------
(* What holds of every state.                                                   *)

\* Every variable keeps its type; in particular no rule, provision or home is left of a
\* project that is gone, which the foreign keys demand (_DELETION_ORDER).
THEOREM TypeCorrect == Spec => []TypeOK
<1>1. Inv => TypeOK
  BY DEF Inv
<1>2. QED
  BY <1>1, Invariant, PTL

\* However deletions, extractions and publications interleave, the clauses behind a
\* rule or a citation that remains remain (_prepare_document_version_scope,
\* _DELETION_ORDER).
THEOREM SourcesStay == Spec => []SharedSourceStays
<1>1. Inv => SharedSourceStays
  BY DEF Inv
<1>2. QED
  BY <1>1, Invariant, PTL

-----------------------------------------------------------------------------
(* What no step does.                                                           *)

\* Evidence is deleted with the project that cites and with no other, whichever of the
\* three ways into evidence_references finds it (_DELETION_ORDER).
THEOREM EvidenceGoesWithItsProject == Spec => OthersEvidenceStays
<1>1. ASSUME Inv, [Next]_vars, NEW pair \in cited \ cited' PROVE pair[1] \notin projects'
  <2>1. PICK p \in Projects : Delete(p)
    <3>1. cited' = cited \/ (\E p \in Projects, d \in Documents : Publish(p, d))
                         \/ (\E p \in Projects : Delete(p))
      BY <1>1 DEF Next, vars, Upload, Push, Assign, Extract, Scope, Refuse, CleanUp, Die,
         ruleVars
    <3>2. ASSUME NEW p, NEW d, Publish(p, d) PROVE cited \subseteq cited'
      BY <3>2 DEF Publish
    <3>3. QED
      BY <1>1, <3>1, <3>2
  <2>2. pair[1] = p
    BY <1>1, <2>1, DeletionLeaves
  <2>3. QED
    BY <2>1, <2>2 DEF Delete
<1>2. Inv /\ [Next]_vars => [\A pair \in cited \ cited' : pair[1] \notin projects']_vars
  BY <1>1
<1>3. QED
  BY <1>2, Invariant, PTL DEF Spec, OthersEvidenceStays

\* The cleanup of the index, which works from keys collected before the deletion, takes
\* no entry of a document that is stored (collect_search_document_ids).
THEOREM CleanUpSparesTheStored == Spec => RetainedStaysSearchable
<1>1. ASSUME Inv, [Next]_vars, NEW d \in entries \ entries' PROVE d \notin stored
  <2>1. PICK p \in Projects : CleanUp(p)
    <3>1. entries \subseteq entries' \/ \E p \in Projects : CleanUp(p)
      BY <1>1 DEF Next, vars, Upload, Push, Assign, Extract, Publish, Scope, Refuse, Delete,
         Die, indexVars
    <3>2. QED
      BY <1>1, <3>1
  <2>2. d \in keys[p]
    BY <1>1, <2>1 DEF CleanUp, Removals
  <2>3. Deletion(p)
    BY <1>1 DEF Inv
  <2>4. QED
    BY <2>1, <2>2, <2>3 DEF CleanUp, Deletion
<1>2. Inv /\ [Next]_vars => [\A d \in entries \ entries' : d \notin stored]_vars
  BY <1>1
<1>3. QED
  BY <1>2, Invariant, PTL DEF Spec, RetainedStaysSearchable

-----------------------------------------------------------------------------
(* What "clean" means, where no upload overlaps a deletion and the service does *)
(* what it answers.                                                             *)

\* While a deletion is under way nothing is about to be indexed, and the keys are all
\* that the index has of its scope; after a clean one it has none and will have none.
Cleaning(p) ==
  /\ pc[p] \in {"scoped", "deleted"} => pushing = {} /\ entries \cap scope[p] \subseteq keys[p]
  /\ report[p] = "clean" => (pushing \cup entries) \cap scope[p] = {}

CleanInv == \A p \in Projects : Cleaning(p)

LEMMA CleanInit == Init => CleanInv
BY DEF Init, CleanInv, Cleaning

LEMMA CleanStep ==
  ASSUME Faults = {}
  PROVE  Inv /\ CleanInv /\ [Next]_vars => CleanInv'
<1> SUFFICES ASSUME Inv, CleanInv, [Next]_vars, NEW q \in Projects PROVE Cleaning(q)'
  BY DEF CleanInv
<1>0. TypeOK /\ SourceInv /\ Deletion(q) /\ Cleaning(q)
  BY DEF Inv, CleanInv
\* A deletion that does not move, while what is or will be indexed does not grow.
<1>s. ASSUME pc'[q] = pc[q], scope'[q] = scope[q], keys'[q] = keys[q], report'[q] = report[q],
             pushing' \subseteq pushing, entries' \subseteq entries
      PROVE  Cleaning(q)'
  BY <1>0, <1>s DEF Cleaning
<1>1. ASSUME NEW d \in Documents, Upload(d) PROVE Cleaning(q)'
  <2>1. /\ pc[q] \notin {"scoped", "deleted"} /\ d \in fresh
        /\ pushing' \subseteq pushing \cup {d} /\ entries' = entries
        /\ pc' = pc /\ scope' = scope /\ keys' = keys /\ report' = report
    BY <1>1 DEF Upload, deletionVars
  <2>2. d \notin scope[q]
    BY <1>0, <2>1 DEF Deletion
  <2>3. QED
    BY <1>0, <2>1, <2>2 DEF Cleaning
<1>2. ASSUME NEW d \in Documents, Push(d) PROVE Cleaning(q)'
  <2>1. /\ d \in pushing /\ pushing' = pushing \ {d}
        /\ entries' \subseteq entries \cup {d}
        /\ pc' = pc /\ scope' = scope /\ keys' = keys /\ report' = report
    BY <1>2 DEF Push, deletionVars
  <2>2. QED
    BY <1>0, <2>1 DEF Cleaning
<1>3. ASSUME NEW p \in Projects, Scope(p) PROVE Cleaning(q)'
  <2>1. /\ pc[p] \in {"idle", "refused"} /\ pushing = {}
        /\ pc' = [pc EXCEPT ![p] = "scoped"]
        /\ scope' = [scope EXCEPT ![p] = Exclusive(p)]
        /\ keys' = [keys EXCEPT ![p] = CollectedKeys(p)]
        /\ report' = report /\ pushing' = pushing /\ entries' = entries
    BY <1>3 DEF Scope, indexVars
  <2>2. CASE q = p
    <3>1. report[p] # "clean"
      BY <1>0, <2>1, <2>2 DEF Deletion
    <3>2. entries \cap Exclusive(p) \subseteq CollectedKeys(p)
      BY <1>0, ScopeIsStored DEF SourceInv, CollectedKeys
    <3>3. QED
      BY <1>0, <2>1, <2>2, <3>1, <3>2 DEF Cleaning, TypeOK
  <2>3. CASE q # p
    BY <1>0, <1>s, <2>1, <2>3 DEF TypeOK
  <2>4. QED
    BY <2>2, <2>3
<1>4. ASSUME NEW p \in Projects, Refuse(p) PROVE Cleaning(q)'
  <2>1. /\ pc[p] = "scoped" /\ pc' = [pc EXCEPT ![p] = "refused"]
        /\ scope' = [scope EXCEPT ![p] = {}] /\ keys' = [keys EXCEPT ![p] = {}]
        /\ report' = report /\ pushing' = pushing /\ entries' = entries
    BY <1>4 DEF Refuse, indexVars
  <2>2. CASE q = p
    BY <1>0, <2>1, <2>2 DEF Cleaning, TypeOK
  <2>3. CASE q # p
    BY <1>0, <1>s, <2>1, <2>3 DEF TypeOK
  <2>4. QED
    BY <2>2, <2>3
<1>5. ASSUME NEW p \in Projects, Delete(p) PROVE Cleaning(q)'
  <2>1. /\ pc[p] = "scoped" /\ pc' = [pc EXCEPT ![p] = "deleted"]
        /\ scope' = scope /\ keys' = keys /\ report' = report
        /\ pushing' = pushing /\ entries' = entries
    BY <1>5 DEF Delete, indexVars
  <2>2. QED
    BY <1>0, <2>1 DEF Cleaning, TypeOK
<1>6. ASSUME NEW p \in Projects, CleanUp(p) PROVE Cleaning(q)'
  <2>1. /\ pc[p] = "deleted" /\ pc' = [pc EXCEPT ![p] = "done"]
        /\ scope' = scope /\ keys' = keys /\ pushing' = pushing
    BY <1>6 DEF CleanUp
  <2>2. entries' \subseteq entries
    BY <1>6 DEF CleanUp, Removals
  <2>3. CASE q = p
    <3>1. pushing = {} /\ entries \cap scope[p] \subseteq keys[p]
      BY <1>0, <2>1, <2>3 DEF Cleaning
    <3>2. report[p] # "clean" /\ report'[p] = "clean" => entries' = entries \ keys[p]
      BY <1>0, <1>6 DEF CleanUp, Removals, FailedOutcome, TypeOK
    <3>3. pc'[p] = "done"
      BY <1>0, <2>1 DEF TypeOK
    <3>4. report[p] = "clean" => pc[p] = "done"
      BY <1>0, <2>3 DEF Deletion
    <3>5. QED
      BY <2>1, <2>3, <3>1, <3>2, <3>3, <3>4 DEF Cleaning
  <2>4. CASE q # p
    <3>1. pc'[q] = pc[q] /\ report'[q] = report[q]
      BY <1>0, <1>6, <2>4 DEF CleanUp, TypeOK
    <3>2. QED
      BY <1>s, <2>1, <2>2, <3>1
  <2>5. QED
    BY <2>3, <2>4
<1>7. ASSUME NEW p \in Projects, Die(p) PROVE Cleaning(q)'
  <2>1. /\ pc' = [pc EXCEPT ![p] = "done"] /\ pc[p] = "deleted"
        /\ scope' = scope /\ keys' = keys /\ report' = report
        /\ pushing' = pushing /\ entries' = entries
    BY <1>7 DEF Die, indexVars
  <2>2. QED
    BY <1>0, <2>1 DEF Cleaning, TypeOK
<1>8. ASSUME \/ \E d \in Documents : Assign(d)
             \/ \E p \in Projects, d \in Documents : Extract(p, d) \/ Publish(p, d)
             \/ UNCHANGED vars
      PROVE  Cleaning(q)'
  BY <1>s, <1>8 DEF Assign, Extract, Publish, vars, indexVars, deletionVars
<1>9. QED
  BY <1>1, <1>2, <1>3, <1>4, <1>5, <1>6, <1>7, <1>8 DEF Next

\* A caller who was told that the index is clean finds nothing any more of what was
\* deleted, then and ever after, if projects are not deleted while uploads are under way
\* and the service rejects no part of a deletion (DeletionOutcome.search_index_state).
THEOREM CleanIsGone ==
  ASSUME Faults = {}
  PROVE  Spec => []CleanMeansGone
<1>1. Inv /\ CleanInv /\ [Next]_vars => CleanInv'
  BY CleanStep
<1>2. Spec => [](Inv /\ CleanInv)
  BY <1>1, InvInit, InvStep, CleanInit, PTL DEF Spec
<1>3. CleanInv => CleanMeansGone
  BY DEF CleanInv, Cleaning, CleanMeansGone
<1>4. QED
  BY <1>2, <1>3, PTL
=============================================================================
