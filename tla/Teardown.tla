-------------------------------- MODULE Teardown --------------------------------
(***************************************************************************)
(* Deleting a project beside others that share its documents               *)
(* (persistence/policy_set_teardown.py and delete_policy_set_endpoint in   *)
(* api/routers/policy_sets.py), with what decides who shares them: upload, *)
(* filing and indexing (api/routers/documents.py, search/indexing.py),     *)
(* extraction with its provisions (extraction/ai_extraction.py,            *)
(* provision_linking.py) and publication.                                  *)
(*                                                                         *)
(* A document stands for its row and its one version; a project has rules  *)
(* of a document when its runs left candidates there, and cites it when    *)
(* published rules have evidence there.  A run over a document has one     *)
(* passage, its provision.  The deletion reads its scope, then deletes in  *)
(* one transaction.                                                        *)
(***************************************************************************)
CONSTANTS
  Projects,    (* policy_sets                                                 *)
  Documents,   (* source_documents                                            *)
  None,        (* no project                                                  *)
  Faults       (* what may happen besides: "overlap", that projects are       *)
               (* deleted while uploads are under way; "rejected", that the   *)
               (* search service rejects part of a deletion it answers        *)

ASSUME TeardownAssumption ==
  /\ None \notin Projects
  /\ Faults \subseteq {"overlap", "rejected"}

VARIABLES
  projects,    (* those that exist                                            *)
  fresh,       (* documents not uploaded yet                                  *)
  stored,      (* source_documents with document_versions                     *)
  clauses,     (* documents whose clauses are there                           *)
  home,        (* source_documents.policy_set_id                              *)
  rules,       (* candidate_rules: which projects have some of which document *)
  provision,   (* document_provisions.policy_set_id, if the document has one  *)
  cited,       (* evidence_references: which project's rules cite what        *)
  pushing,     (* uploads that have yet to index their clauses                *)
  entries,     (* the search index: documents whose clauses are found         *)
  pc,          (* where the deletion of each project is                       *)
  scope,       (* policy_set_teardown_document_versions: the exclusive ones   *)
  keys,        (* the search keys it collected                                *)
  report       (* the search_index state its caller was told                  *)

vars == <<projects, fresh, stored, clauses, home, rules, provision, cited, pushing,
          entries, pc, scope, keys, report>>

sourceVars == <<fresh, stored, clauses, home>>
ruleVars == <<rules, provision, cited>>
indexVars == <<pushing, entries>>
deletionVars == <<projects, pc, scope, keys, report>>

-----------------------------------------------------------------------------
Init ==
  /\ projects = Projects
  /\ fresh = Documents
  /\ stored = {} /\ clauses = {}
  /\ home = [d \in Documents |-> None]
  /\ rules = {} /\ cited = {}
  /\ provision = [d \in Documents |-> None]
  /\ pushing = {} /\ entries = {}
  /\ pc = [p \in Projects |-> "idle"]
  /\ scope = [p \in Projects |-> {}]
  /\ keys = [p \in Projects |-> {}]
  /\ report = [p \in Projects |-> "none"]

-----------------------------------------------------------------------------
(* Documents.                                                                  *)

\* A document that cannot be parsed is stored without clauses.
Upload(d) ==
  /\ d \in fresh
  /\ "overlap" \in Faults \/ \A p \in Projects : pc[p] \notin {"scoped", "deleted"}
  /\ \E p \in projects \cup {None} : home' = [home EXCEPT ![d] = p]
  /\ fresh' = fresh \ {d}
  /\ stored' = stored \cup {d}
  /\ \/ clauses' = clauses \cup {d} /\ pushing' = pushing \cup {d}
     \/ UNCHANGED <<clauses, pushing>>
  /\ UNCHANGED <<entries, ruleVars, deletionVars>>

\* After the commit and best-effort: it may fail, and does not look at the rows again.
Push(d) ==
  /\ d \in pushing
  /\ pushing' = pushing \ {d}
  /\ entries' \in {entries, entries \cup {d}}
  /\ UNCHANGED <<sourceVars, ruleVars, deletionVars>>

\* Filed into a project, moved to another one, or unassigned.
Assign(d) ==
  /\ d \in stored
  /\ \E p \in projects \cup {None} : home' = [home EXCEPT ![d] = p]
  /\ UNCHANGED <<fresh, stored, clauses, ruleVars, indexVars, deletionVars>>

-----------------------------------------------------------------------------
(* Rules.  Any project may extract from any document.                           *)

\* A batch of a run: the passage's row is taken as it is found, or created; of a
\* passage that nothing locates no row is made, and its rules carry none.
Extract(p, d) ==
  /\ p \in projects
  /\ d \in clauses
  /\ rules' = rules \cup {<<p, d>>}
  /\ provision' \in {provision, [provision EXCEPT ![d] = IF @ = None THEN p ELSE @]}
  /\ UNCHANGED <<cited, sourceVars, indexVars, deletionVars>>

\* A publication writes evidence for the rules of the candidates it takes.
Publish(p, d) ==
  /\ p \in projects
  /\ <<p, d>> \in rules
  /\ cited' = cited \cup {<<p, d>>}
  /\ UNCHANGED <<rules, provision, sourceVars, indexVars, deletionVars>>

-----------------------------------------------------------------------------
(* Deletion.                                                                   *)

Others(p, pairs, d) == \E q \in Projects \ {p} : <<q, d>> \in pairs

\* The versions of its documents, and those its own runs read.
Reached(p) == {d \in stored : home[d] = p \/ <<p, d>> \in rules}

Exclusive(p) ==
  {d \in Reached(p) : /\ ~Others(p, rules, d)
                      /\ provision[d] \in {None, p}
                      /\ ~Others(p, cited, d)}

\* Mutant: the keys of all clauses the project reaches.
ReachedKeys(p) == Reached(p) \cap clauses

\* collect_search_document_ids, while the clauses can still be read.
CollectedKeys(p) == Exclusive(p) \cap clauses

\* The versions are materialised in a temporary table, and the keys collected.
Scope(p) ==
  /\ p \in projects
  /\ pc[p] \in {"idle", "refused"}
  /\ "overlap" \in Faults \/ pushing = {}
  /\ scope' = [scope EXCEPT ![p] = Exclusive(p)]
  /\ keys' = [keys EXCEPT ![p] = CollectedKeys(p)]
  /\ pc' = [pc EXCEPT ![p] = "scoped"]
  /\ UNCHANGED <<projects, report, sourceVars, ruleVars, indexVars>>

Gone(p) == {p} \X Documents

\* Mutant: the clauses of everything the project reaches.
ReachedClauses(p) == Reached(p)

DeletedClauses(p) == scope[p]

\* Mutant: the evidence of everything the project reaches.
ReachedEvidence(p) == {c \in cited : c \in Gone(p) \/ c[2] \in Reached(p)}

DeletedEvidence(p) == {c \in cited : c \in Gone(p) \/ c[2] \in scope[p]}

\* Mutant: those on versions that go, only.
ExclusiveProvisions(p) == {d \in Documents : d \in scope[p]}

DeletedProvisions(p) == {d \in Documents : provision[d] = p \/ d \in scope[p]}

\* A foreign key would be left dangling: a run that still has candidates keeps its
\* version, and a document that keeps its version keeps its project.
Blocked(p) ==
  \/ \E d \in scope[p] : Others(p, rules, d)
  \/ \E d \in stored \ scope[p] : home[d] = p

\* Others may commit between the statements too: then the transaction is refused, as
\* it is when a statement fails.
Refuse(p) ==
  /\ pc[p] = "scoped"
  /\ pc' = [pc EXCEPT ![p] = "refused"]
  /\ scope' = [scope EXCEPT ![p] = {}]
  /\ keys' = [keys EXCEPT ![p] = {}]
  /\ UNCHANGED <<projects, report, sourceVars, ruleVars, indexVars>>

Delete(p) ==
  /\ pc[p] = "scoped"
  /\ ~Blocked(p)
  /\ pc' = [pc EXCEPT ![p] = "deleted"]
  /\ projects' = projects \ {p}
  /\ rules' = rules \ Gone(p)
  /\ cited' = cited \ DeletedEvidence(p)
  /\ provision' = [d \in Documents |->
                     IF d \in DeletedProvisions(p) THEN None ELSE provision[d]]
  /\ clauses' = clauses \ DeletedClauses(p)
  /\ stored' = stored \ scope[p]
  /\ home' = [d \in Documents |-> IF d \in scope[p] THEN None ELSE home[d]]
  /\ UNCHANGED <<fresh, scope, keys, report, indexVars>>

\* Mutant: a failure of the search service is logged and not reported.
SwallowedOutcome == "clean"

\* The call raised: nobody knows what it removed.
FailedOutcome == "orphaned"

\* What a call that is answered removes.  The verdicts on single keys are not read.
Removals(p) == IF "rejected" \in Faults THEN SUBSET keys[p] ELSE {keys[p]}

\* After the commit: one call, if there are keys and search is configured.
CleanUp(p) ==
  /\ pc[p] = "deleted"
  /\ pc' = [pc EXCEPT ![p] = "done"]
  /\ \/ /\ report' = [report EXCEPT ![p] = "clean"]
        /\ \E removed \in Removals(p) : entries' = entries \ removed
     \/ /\ keys[p] # {}
        /\ report' = [report EXCEPT ![p] = FailedOutcome]
        /\ \E removed \in SUBSET keys[p] : entries' = entries \ removed
     \/ /\ keys[p] # {}
        /\ report' = [report EXCEPT ![p] = "skipped"]
        /\ UNCHANGED entries
  /\ UNCHANGED <<projects, scope, keys, pushing, sourceVars, ruleVars>>

\* The worker dies after the commit: nobody is told anything.
Die(p) ==
  /\ pc[p] = "deleted"
  /\ pc' = [pc EXCEPT ![p] = "done"]
  /\ UNCHANGED <<projects, scope, keys, report, sourceVars, ruleVars, indexVars>>

-----------------------------------------------------------------------------
Next ==
  \/ \E d \in Documents : Upload(d) \/ Push(d) \/ Assign(d)
  \/ \E p \in Projects, d \in Documents : Extract(p, d) \/ Publish(p, d)
  \/ \E p \in Projects : Scope(p) \/ Refuse(p) \/ Delete(p) \/ CleanUp(p) \/ Die(p)

Spec == Init /\ [][Next]_vars

-----------------------------------------------------------------------------
(* The state: sets of rows and the deletions.                                  *)
TypeOK ==
  /\ projects \subseteq Projects
  /\ fresh \subseteq Documents /\ stored \subseteq Documents /\ clauses \subseteq Documents
  /\ home \in [Documents -> projects \cup {None}]
  /\ provision \in [Documents -> projects \cup {None}]
  /\ rules \subseteq projects \X stored /\ cited \subseteq rules
  /\ pushing \subseteq Documents /\ entries \subseteq Documents
  /\ pc \in [Projects -> {"idle", "scoped", "refused", "deleted", "done"}]
  /\ scope \in [Projects -> SUBSET Documents] /\ keys \in [Projects -> SUBSET Documents]
  /\ report \in [Projects -> {"none", "clean", "skipped", "orphaned"}]

(* The words a project's rules were drawn from, and those its published rules   *)
(* cite, outlive every other project, also one that began to be deleted before  *)
(* they were extracted (_prepare_document_version_scope, _DELETION_ORDER).      *)
SharedSourceStays ==
  \A pair \in rules \cup cited : pair[2] \in clauses

(* Evidence goes with the project that cites and with no other (the three ways  *)
(* in of _DELETION_ORDER's evidence_references).                                *)
OthersEvidenceStays ==
  [][\A pair \in cited \ cited' : pair[1] \notin projects']_vars

(* What is still there is still found: the cleanup takes no entry of a document *)
(* that was retained (collect_search_document_ids).                             *)
RetainedStaysSearchable ==
  [][\A d \in entries \ entries' : d \notin stored]_vars

(* "clean" means that nothing of what was deleted is found any more             *)
(* (DeletionOutcome.search_index_state; docs/api.md: a failure to clean is      *)
(* reported rather than hidden).                                                *)
CleanMeansGone ==
  \A p \in Projects : report[p] = "clean" => entries \cap scope[p] = {}
=============================================================================
