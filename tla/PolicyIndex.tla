----------------------------- MODULE PolicyIndex -----------------------------
(***************************************************************************)
(* The search index of one project: the rebuild that replaces its corpus   *)
(* (rebuild_project_policy_index), the manifest document that says whether *)
(* it may be matched against, the validation endpoint that annotates the   *)
(* manifest, and the case query that reads manifest and corpus             *)
(* (search/policy_index.py, assistants/ai_case_project.py).                *)
(*                                                                         *)
(* Rebuilds run under the slot of BuildSlot: its steps on the build rows   *)
(* are taken here with what they do to the index.  Azure AI Search has no  *)
(* transactions: each call to it is one step.  SearchFaults says what else *)
(* than an acknowledgement a write may get: "rejected" (it did not take    *)
(* effect) or "unanswered" (it did, and the answer was lost).              *)
(*                                                                         *)
(* A version of the policy is a number from 1, the version published when  *)
(* the model starts; a document is a part of a version.  Publications are  *)
(* of active versions.                                                     *)
(***************************************************************************)
EXTENDS BuildSlot, Naturals

CONSTANTS
  MaxVersion,        (* bound: how many versions are ever published           *)
  Parts,             (* the documents one version is rendered to              *)
  Validators,        (* callers of the validation endpoint                    *)
  Queries,           (* callers of the case endpoint                          *)
  SearchFaults

VARIABLES
  active,     (* the active version                                           *)
  docs,       (* the content documents of the index                           *)
  manifest,   (* its manifest document                                        *)
  recorded,   (* the policy_index_states row                                  *)
  completed,  (* history: the versions some rebuild marked ready              *)
  number,     (* the version number each builder was asked to build           *)
  step,       (* where each builder is in the rebuild                         *)
  version,    (* the version whose projections it loaded                      *)
  todo,       (* what it has still to upload                                  *)
  short,      (* whether an upload of it was not acknowledged                 *)
  found,      (* the ids it found and does not recognise                      *)
  vpc, expects, verdict, copy,  (* a validation: place, version, finding, manifest *)
  qpc, scope, saw               (* a query: place, version, parts searched    *)

rebuildVars == <<docs, manifest, completed, number, step, version, todo, short, found>>
validationVars == <<vpc, expects, verdict, copy>>
queryVars == <<qpc, scope, saw>>
vars == <<slotVars, active, recorded, rebuildVars, validationVars, queryVars>>

ASSUME PolicyIndexAssumption ==
  /\ MaxVersion \in Nat \ {0}
  /\ \A p, r \in Projects : p = r
  /\ DeletableProjects = {}
  /\ SlowBuilders \subseteq Builders
  /\ CommitFaults \subseteq {"refused", "unacknowledged"}
  /\ SearchFaults \subseteq {"rejected", "unanswered"}

-----------------------------------------------------------------------------
Versions == 0 .. MaxVersion
Documents == Versions \X Parts

Corpus(v) == {v} \X Parts

NoManifest == [state |-> "absent", quality |-> "none", version |-> 0]

Steps == {"collecting", "marking", "uploading", "finding", "sweeping",
          "validating", "rejecting", "publishing", "built", "failed"}

\* Whether a write to the index took effect, and whether it was acknowledged.
WriteOutcomes ==
  {[applied |-> TRUE, ok |-> TRUE]} \cup
  {[applied |-> f = "unanswered", ok |-> FALSE] : f \in SearchFaults}

\* policy_index_ready_filter: what a query may be matched against.
Ready == manifest.state = "ready" /\ manifest.quality = "passed"

Init ==
  /\ SlotInit
  /\ active = 1
  /\ docs = {}
  /\ manifest = NoManifest
  /\ recorded = [status |-> "never", indexed |-> 0]
  /\ completed = {}
  /\ number = [b \in Builders |-> 0]
  /\ step = [b \in Builders |-> "collecting"]
  /\ version = [b \in Builders |-> 0]
  /\ todo = [b \in Builders |-> {}]
  /\ short = [b \in Builders |-> FALSE]
  /\ found = [b \in Builders |-> {}]
  /\ vpc = [v \in Validators |-> "idle"]
  /\ expects = [v \in Validators |-> 0]
  /\ verdict = [v \in Validators |-> "none"]
  /\ copy = [v \in Validators |-> NoManifest]
  /\ qpc = [q \in Queries |-> "idle"]
  /\ scope = [q \in Queries |-> 0]
  /\ saw = [q \in Queries |-> {}]

-----------------------------------------------------------------------------
(* The rebuild, from the caller that asks for it to the recorded outcome.    *)

\* The publish commits its version and then asks; the rebuild endpoint reads the
\* active version's number before it asks.
Request(b) ==
  /\ \/ /\ active < MaxVersion
        /\ Ask(b, "publish")
        /\ active' = active + 1
     \/ /\ Ask(b, "rebuild")
        /\ UNCHANGED active
  /\ number' = [number EXCEPT ![b] = active']
  /\ UNCHANGED <<recorded, docs, manifest, completed, step, version, todo, short, found,
                 validationVars, queryVars>>

Turn(b, from, to) ==
  /\ pc[b] = "working"
  /\ step[b] = from
  /\ step' = [step EXCEPT ![b] = to]
  /\ UNCHANGED <<slotVars, active, recorded, number, validationVars, queryVars>>

\* load_projections reads the active version; rendering and embedding follow.
Collect(b) ==
  /\ Turn(b, "collecting", "marking")
  /\ version' = [version EXCEPT ![b] = active]
  /\ UNCHANGED <<docs, manifest, completed, todo, short, found>>

\* Mutant: the manifest keeps saying `ready` while the corpus is rewritten.
MarkedStillReady(b) == [manifest EXCEPT !.version = version[b]]

\* A manifest upload merges into the document that is there: one that carries no
\* quality leaves the stored verdict as it was.
Marked(b) == [manifest EXCEPT !.state = "incomplete", !.version = version[b]]

\* The manifest leaves `ready` before anything else is written; unless that is
\* acknowledged the rebuild stops.
Mark(b) ==
  /\ \E o \in WriteOutcomes :
       /\ Turn(b, "marking", IF o.ok THEN "uploading" ELSE "failed")
       /\ manifest' = IF o.applied THEN Marked(b) ELSE manifest
  /\ todo' = [todo EXCEPT ![b] = Corpus(version[b])]
  /\ short' = [short EXCEPT ![b] = FALSE]
  /\ UNCHANGED <<docs, completed, version, found>>

\* One document of the upload.  A document the service answers for with an error
\* is counted as missing and the upload goes on; a call that raises ends it.
Upload(b) ==
  /\ \E d \in todo[b] :
       /\ todo' = [todo EXCEPT ![b] = @ \ {d}]
       /\ \E o \in WriteOutcomes, raised \in BOOLEAN :
            /\ raised => ~o.ok
            /\ Turn(b, "uploading", IF raised THEN "failed" ELSE "uploading")
            /\ docs' = IF o.applied THEN docs \cup {d} ELSE docs
            /\ short' = [short EXCEPT ![b] = @ \/ ~o.ok]
  /\ UNCHANGED <<manifest, completed, version, found>>

\* Mutant: what was not acknowledged is not counted.
CountNothing(b) ==
  /\ todo[b] = {}
  /\ Turn(b, "uploading", "finding")
  /\ UNCHANGED <<docs, manifest, completed, version, todo, short, found>>

\* Every acknowledgement is in, or the rebuild fails with the manifest incomplete.
CountAcknowledgements(b) ==
  /\ todo[b] = {}
  /\ Turn(b, "uploading", IF short[b] THEN "failed" ELSE "finding")
  /\ UNCHANGED <<docs, manifest, completed, version, todo, short, found>>

\* The ids of the project's documents that this rebuild did not write.
FindStale(b) ==
  /\ Turn(b, "finding", "sweeping")
  /\ found' = [found EXCEPT ![b] = docs \ Corpus(version[b])]
  /\ UNCHANGED <<docs, manifest, completed, version, todo, short>>

\* They are deleted; which deletions the service accepted nobody checks.
Sweep(b) ==
  /\ \/ Turn(b, "sweeping", "validating")
     \/ SearchFaults # {} /\ Turn(b, "sweeping", "failed")
  /\ \E gone \in SUBSET found[b] :
       /\ SearchFaults = {} => gone = found[b]
       /\ docs' = docs \ gone
  /\ found' = [found EXCEPT ![b] = {}]
  /\ UNCHANGED <<manifest, completed, version, todo, short>>

\* The corpus in hand is compared with the record.
Judge(b) ==
  /\ \E to \in {"publishing", "rejecting"} : Turn(b, "validating", to)
  /\ UNCHANGED <<docs, manifest, completed, version, todo, short, found>>

\* A corpus that did not pass: the verdict is written, acknowledged or not.
Reject(b) ==
  /\ Turn(b, "rejecting", "failed")
  /\ \E o \in WriteOutcomes :
       manifest' = IF o.applied THEN [Marked(b) EXCEPT !.quality = "failed"] ELSE manifest
  /\ UNCHANGED <<docs, completed, version, todo, short, found>>

\* Mutant: the acknowledgement of the last manifest write is not waited for.
MarkReadyUnheard(b) ==
  /\ Turn(b, "publishing", "built")
  /\ \E o \in WriteOutcomes :
       /\ manifest' = IF o.applied
                      THEN [state |-> "ready", quality |-> "passed", version |-> version[b]]
                      ELSE manifest
       /\ completed' = IF o.applied THEN completed \cup {version[b]} ELSE completed
  /\ UNCHANGED <<docs, version, todo, short, found>>

MarkReady(b) ==
  /\ \E o \in WriteOutcomes :
       /\ Turn(b, "publishing", IF o.ok THEN "built" ELSE "failed")
       /\ manifest' = IF o.applied
                      THEN [state |-> "ready", quality |-> "passed", version |-> version[b]]
                      ELSE manifest
       /\ completed' = IF o.applied THEN completed \cup {version[b]} ELSE completed
  /\ UNCHANGED <<docs, version, todo, short, found>>

\* Anything else that can raise on the way, before it has had an effect.
Abort(b) ==
  /\ \E from \in Steps \ {"built", "failed"} : Turn(b, from, "failed")
  /\ UNCHANGED <<docs, manifest, completed, version, todo, short, found>>

Rebuild(b) ==
  \/ Collect(b) \/ Mark(b) \/ Upload(b) \/ CountAcknowledgements(b) \/ FindStale(b)
  \/ Sweep(b) \/ Judge(b) \/ Reject(b) \/ MarkReady(b) \/ Abort(b)

\* What the rebuild kept to itself goes when it returns, or its process dies.
Forget(b) ==
  /\ step' = [step EXCEPT ![b] = "collecting"]
  /\ version' = [version EXCEPT ![b] = 0]
  /\ todo' = [todo EXCEPT ![b] = {}]
  /\ short' = [short EXCEPT ![b] = FALSE]
  /\ found' = [found EXCEPT ![b] = {}]

\* Mutant: a failed rebuild goes on to be recorded and its slot is not released.
ConcludeWithoutFinally(b) ==
  /\ step[b] = "failed"
  /\ pc[b] = "working"
  /\ pc' = [pc EXCEPT ![b] = "recording"]
  /\ Forget(b)
  /\ UNCHANGED <<projects, target, trigger, rows, lapsed, view, stale, built>>
  /\ UNCHANGED <<active, recorded, docs, manifest, completed, number, validationVars, queryVars>>

Conclude(b) ==
  /\ step[b] \in {"built", "failed"}
  /\ EndRebuild(b, step[b] = "built")
  /\ Forget(b)
  /\ UNCHANGED <<active, recorded, docs, manifest, completed, number, validationVars, queryVars>>

Lose(b) ==
  /\ Die(b)
  /\ Forget(b)
  /\ number' = [number EXCEPT ![b] = 0]
  /\ UNCHANGED <<active, recorded, docs, manifest, completed, validationVars, queryVars>>

\* Mutant: the record names the version that is active by then.
RecordActive(b) ==
  /\ RecordState(b)
  /\ recorded' = IF pc'[b] = "error" THEN recorded
                 ELSE IF built[b] THEN [status |-> "built", indexed |-> active]
                 ELSE [recorded EXCEPT !.status = "failed"]
  /\ number' = [number EXCEPT ![b] = 0]
  /\ UNCHANGED <<active, docs, manifest, completed, step, version, todo, short, found,
                 validationVars, queryVars>>

\* record_policy_index_build_state, after the slot has been released.
Record(b) ==
  /\ RecordState(b)
  /\ recorded' = IF pc'[b] = "error" THEN recorded
                 ELSE IF built[b] THEN [status |-> "built", indexed |-> number[b]]
                 ELSE [recorded EXCEPT !.status = "failed"]
  /\ number' = [number EXCEPT ![b] = 0]
  /\ UNCHANGED <<active, docs, manifest, completed, step, version, todo, short, found,
                 validationVars, queryVars>>

\* What the slot does without the index being touched.
Coordinate(b) ==
  /\ \/ Select(b) \/ Reclaim(b) \/ Insert(b) \/ Defer(b)
     \/ Work(b) \/ Finish(b) \/ Again(b) \/ Lapse(b)
  /\ UNCHANGED <<active, recorded, rebuildVars, validationVars, queryVars>>

-----------------------------------------------------------------------------
(* validate_project_policy_index: no slot, no rendering, one write.          *)

Check(v, from, to) ==
  /\ vpc[v] = from
  /\ vpc' = [vpc EXCEPT ![v] = to]
  /\ UNCHANGED <<slotVars, active, recorded, docs, completed, number, step, version,
                 todo, short, found, queryVars>>

Expect(v) ==
  /\ Check(v, "idle", "reading")
  /\ expects' = [expects EXCEPT ![v] = active]
  /\ UNCHANGED <<manifest, verdict, copy>>

\* Missing and unexpected documents fail; a faithful-looking corpus may fail too.
Compare(v) ==
  /\ Check(v, "reading", "judged")
  /\ \E q \in {"passed", "failed"} :
       /\ q = "passed" => docs = Corpus(expects[v])
       /\ verdict' = [verdict EXCEPT ![v] = q]
  /\ UNCHANGED <<manifest, expects, copy>>

\* What a validation kept to itself goes when it returns.
Dismiss(v) ==
  /\ expects' = [expects EXCEPT ![v] = 0]
  /\ verdict' = [verdict EXCEPT ![v] = "none"]
  /\ copy' = [copy EXCEPT ![v] = NoManifest]

ReadManifest(v) ==
  /\ manifest # NoManifest
  /\ Check(v, "judged", "annotating")
  /\ copy' = [copy EXCEPT ![v] = manifest]
  /\ UNCHANGED <<manifest, expects, verdict>>

\* Mutant: a validation that passes reopens the corpus.
AnnotateReady(v) ==
  /\ Check(v, "annotating", "idle")
  /\ \E o \in WriteOutcomes :
       manifest' = IF o.applied
                   THEN [copy[v] EXCEPT !.quality = verdict[v],
                                        !.state = IF verdict[v] = "passed" THEN "ready" ELSE @]
                   ELSE manifest
  /\ Dismiss(v)

\* The whole manifest it read is written back with the verdict on it.
Annotate(v) ==
  /\ Check(v, "annotating", "idle")
  /\ \E o \in WriteOutcomes :
       manifest' = IF o.applied THEN [copy[v] EXCEPT !.quality = verdict[v]] ELSE manifest
  /\ Dismiss(v)

\* There is no manifest to annotate, or something raised: nothing is written.
GiveUp(v) ==
  /\ \E from \in {"reading", "judged"} : Check(v, from, "idle")
  /\ Dismiss(v)
  /\ UNCHANGED manifest

Validate(v) == Expect(v) \/ Compare(v) \/ ReadManifest(v) \/ Annotate(v) \/ GiveUp(v)

-----------------------------------------------------------------------------
(* A case query: scope from the database, readiness from the manifest, then  *)
(* a search of the corpus from which other versions' documents are dropped.  *)
(* A probe or a search that fails is a refusal too.                          *)

Inquire(q, from, to) ==
  /\ qpc[q] = from
  /\ qpc' = [qpc EXCEPT ![q] = to]
  /\ UNCHANGED <<slotVars, active, recorded, rebuildVars, validationVars>>

LoadScope(q) ==
  /\ Inquire(q, "idle", "gate")
  /\ scope' = [scope EXCEPT ![q] = active]
  /\ UNCHANGED saw

PassGate(q) ==
  /\ \/ Ready /\ Inquire(q, "gate", "search")
     \/ Inquire(q, "gate", "refused")
  /\ UNCHANGED <<scope, saw>>

Search(q) ==
  /\ \/ /\ Inquire(q, "search", "answered")
        /\ saw' = [saw EXCEPT ![q] = docs \cap Corpus(scope[q])]
     \/ /\ Inquire(q, "search", "refused")
        /\ UNCHANGED saw
  /\ UNCHANGED scope

NextCase(q) ==
  /\ \E from \in {"refused", "answered"} : Inquire(q, from, "idle")
  /\ scope' = [scope EXCEPT ![q] = 0]
  /\ saw' = [saw EXCEPT ![q] = {}]

Query(q) == LoadScope(q) \/ PassGate(q) \/ Search(q) \/ NextCase(q)

Next ==
  \/ \E b \in Builders :
       \/ Request(b) \/ Coordinate(b) \/ Rebuild(b)
       \/ Conclude(b) \/ Record(b) \/ Lose(b)
  \/ \E v \in Validators : Validate(v)
  \/ \E q \in Queries : Query(q)

Spec == Init /\ [][Next]_vars

-----------------------------------------------------------------------------
Manifest == [state : {"absent", "incomplete", "ready"},
             quality : {"none", "passed", "failed"},
             version : Versions]

TypeOK ==
  /\ SlotTypeOK
  /\ active \in Versions
  /\ docs \subseteq Documents
  /\ manifest \in Manifest
  /\ recorded \in [status : {"never", "built", "failed"}, indexed : Versions]
  /\ completed \subseteq Versions
  /\ number \in [Builders -> Versions]
  /\ step \in [Builders -> Steps]
  /\ version \in [Builders -> Versions]
  /\ todo \in [Builders -> SUBSET Documents]
  /\ short \in [Builders -> BOOLEAN]
  /\ found \in [Builders -> SUBSET Documents]
  /\ vpc \in [Validators -> {"idle", "reading", "judged", "annotating"}]
  /\ expects \in [Validators -> Versions]
  /\ verdict \in [Validators -> {"none", "passed", "failed"}]
  /\ copy \in [Validators -> Manifest]
  /\ qpc \in [Queries -> {"idle", "gate", "search", "refused", "answered"}]
  /\ scope \in [Queries -> Versions]
  /\ saw \in [Queries -> SUBSET Documents]

\* Whatever fails, dies or is not acknowledged on the way, and however many
\* rebuilds were cut short before: a manifest that says `ready` stands over every
\* document of the version it names.
AnswerableIsWhole == Ready => Corpus(manifest.version) \subseteq docs

\* The corpus is only rewritten while no query may be matched against it.
WrittenOnlyWhileUnanswerable == [][docs' # docs => ~Ready]_vars

\* Nothing but a rebuild that got to its end makes a version answerable, whatever
\* a concurrent validation reads and writes back.
ReadyWasBuilt == Ready => manifest.version \in completed

\* A rebuild about to return `built` has left the project answerable from the
\* version it loaded.
BuiltIsAnswerable ==
  \A b \in Builders :
    step[b] = "built" => Ready /\ manifest.version = version[b]

\* The rebuild observes the slot protocol: whatever the index answers, the steps
\* it takes on the build rows are those of BuildSlot.
SlotProtocol == SlotSpec

\* The latest-state row is written late, and from a version number that was read
\* before the rebuild began, but it never claims a version nobody has made ready.
RecordNeverRunsAhead ==
  recorded.indexed # 0 => \E v \in completed : recorded.indexed <= v
=============================================================================
