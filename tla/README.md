# PolicyVerbAItim: a TLA+ model

PolicyVerbAItim (`src/src/policy_platform`) turns policy documents into reviewed,
citable rules and decides cases against them. Reviewers approve candidate rules,
an approved set is published as a version, a version is projected into a search
index, and a case decision retrieves records from that index, asks a model, and
returns a receipt. Everything stateful lives in PostgreSQL and in Azure AI Search;
the Python process keeps nothing that another replica could see. What is hard in
it is therefore not inside one request. It is what several requests do to the
same rows and the same index when they interleave, when a commit or an index
write fails half way, and when a process dies between two of them. That is what
the modules here describe. Paths below are relative to `src/`, and module paths
without a directory are under `src/src/policy_platform`.

## Inventory

| Component | State it keeps | Operations | What is hard | What makes it correct |
|---|---|---|---|---|
| Case decision receipts (`application/policy_case_decision.py`, `repositories/case_decisions.py`, `api/routers/policy_decisions.py`) | `policy_case_decisions`: status, key, request hash, response | reserve, replay, decide, finalise, fail, read receipt | two calls with one Idempotency-Key, retries, a failure between the verdict and its receipt, lost commits, project deletion | one model run and one verdict per key; a verdict is returned only once its receipt is stored; a settled receipt is final; every reservation is settled |
| Build slot and history (`search/policy_index_build_progress.py`, callers in `candidate_rules.py`, `policy_sets.py`) | `policy_index_builds`: status, `active_slot`, lease | reclaim, acquire, defer, report, finish | replicas, dead processes, a lease that lapses on a live build, rollbacks that expire a shared session | one build at a time; a live build keeps the slot; a dead one gives it back; history is final |
| Project policy index (`search/policy_index.py`, `search_client.py`, `projection_faithfulness.py`) | the index documents, the manifest, `policy_index_states` | rebuild, validate, record, read readiness | no transactions; partial acceptance; lost answers; a validator or a query between two steps of a rebuild | what is answerable is whole; nothing is rewritten while answerable; the record agrees with the index |
| Case retrieval (`assistants/ai_case_project.py`) | none | scope, readiness gate, policy and rule search, ranking, slice, evaluation | the gate and the search are separate calls | a query searches a whole corpus of one version |
| Review and publication (`candidate_rules.py`, `policy_version_import.py`, `repositories/versions.py`, `candidates.py`) | candidates, versions, `is_active` | edit, review, override, request changes, bulk review, publish, import | reviews and publications that race; version numbers and activation computed from earlier reads | what is published was approved when it was read; a publish drops no rule another put in force; one active version |
| Extraction runs (`extraction/ai_extraction.py`, `clause_delta.py`, `api/app.py`, `repositories/extraction_progress.py`) | `extraction_runs`, the candidates of each run | read in batches, commit a batch, retire older candidates, read again, compare with the run before and take its decisions over, finish, fail; startup sweep | several runs of one document; people who decide while a run reads; crashes; a replica's start sweeps the runs of others | the queue is replaced and never just emptied; decisions are handed on truthfully; `completed` means everything was read |
| Documents and upload (`ingestion/`, `routers/documents.py`) | documents, hashes, upload progress | upload, duplicate check, read, delete | two uploads of one file | one document per content |
| Project teardown (`policy_set_teardown.py`, `policy_sets.py`) | everything of a project | read what it owns alone, ordered deletion in one transaction, then the search entries | documents that projects share or move between them; work that is still running for the project; a cleanup that fails or is carried out in part | what others draw on stays and stays found; nothing of the project is left or comes back; the report is true |
| Deterministic evaluator (`evaluator/`) | none; the caller keeps the facts and asks again | three-valued conditions, targets, exceptions, precedence, combination, aggregate limits | unknown facts under negation and in groups, ties, rules in conflict | a verdict stands when more becomes known; what is missing is reported whole; one side decides |
| Policy tests (`routers/policy_tests.py`, `policy_tests/`, `repositories/policy_tests.py`) | tests, blind batches, their runs | create, propose, generate a batch, list, review, run, run again after a publication | reviews that race, a batch run by two, guards reviewed while a publication re-runs them, workers that die | what is sealed stays sealed until it was run; only what a person accepted guards a publication; a re-run is whole |
| Review requests, exceptions, attestations, notes, audit | small stored lifecycles | open, claim, resolve, revoke | two reviewers at once | a resolution is final |
| Authorisation and subscription keys (`api/authz.py`, `identity.py`, `subscription_keys.py`) | keys | issue, revoke, authorise | revocation against use | per request, not modelled |
| Consolidation of duplicates, rule slice, projections | none | pure transformations | budgets, ties | bounds and determinism |
| Evaluation of a case (`assistants/ai_case_intent.py`, `ai_case_plan.py`, `ai_case_evidence_accounting.py`, `ai_case_language.py`, the sections in `policy_case_decision.py`) | none that is stored | read the question several times, gather information and verdict side by side, turn a reply into a decision, cross the language boundary | replies that contradict themselves, repairs that follow each other, one track failing beside the other, retries | a verdict only for a reply that earns it; every track asked for is reported; it ends |
| Extraction, formulation, other assistants, AI client | none | model calls, retries | any answer at any time | their outcome is nondeterministic here |
| Contracts, web console, migrations, deployment | none | | | not modelled |

How they interact: a publish commits a version and then asks for the slot; the
slot holder rebuilds the index and records the outcome; a case decision reserves
a receipt, reads the active version, checks the manifest, searches, decides and
finalises the receipt. Teardown deletes the rows of all of them.

`PROJECT.json` lists every hazard of this code we know of at the line where it
bites, and the properties that would notice it.

## Modules

| Module | What it is |
|---|---|
| `CaseDecision` | One call of the audited decision, over the receipt table. |
| `DecisionRegister` | What an Idempotency-Key promises, with the service left out: a register that is opened once and settled once. |
| `CaseDecisionRegister` | The refinement mapping from the receipt table to those registers. |
| `CaseDecisionProofs` | Theorems about `CaseDecision`, the refinement and what follows from it included. |
| `BuildSlot` | The slot, its lease, its history and the callers' sessions. |
| `PolicyIndex` | The index of one project, rebuilt under the slot: it extends `BuildSlot` and adds the index, the manifest, validations and queries. |
| `PolicyIndexProofs` | Theorems about `BuildSlot` and `PolicyIndex`, the refinement of the slot included. |
| `Publication` | Candidates, their reviews and edits, and the versions published or imported from them, in one project. |
| `VersionLedger` | What publication promises, with the handlers left out: a ledger of numbered versions, one indivisible event each. |
| `PublicationLedger` | The refinement mapping from the version table to that ledger. |
| `PublicationProofs` | Theorems about `Publication`, the refinement included. |
| `ExtractionRuns` | Repeated extractions of one document, the people who review meanwhile, and the processes that die and start. |
| `ExtractionRunsProofs` | Theorems about `ExtractionRuns`. |
| `Evaluator` | The evaluation of a package of rules against facts that become known one by one. |
| `EvaluatorProofs` | Theorems about `Evaluator`. |
| `CaseEvaluation` | What the decider makes of a case once records are retained: readings, tracks, replies, sections. |
| `CaseEvaluationProofs` | Theorems about `CaseEvaluation`. |
| `PolicyTests` | The saved tests of a project, their reviews, and their runs beside publications. |
| `PolicyTestsProofs` | Theorems about `PolicyTests`. |
| `Teardown` | Deleting projects that share documents with others. |
| `TeardownProofs` | Theorems about `Teardown`. |
| `MC*` | Symmetry sets and the instances for TLC. |

### CaseDecision

`pc` is the place of each call in `_decide_project_case`, one label between two
awaits that matter: the lookup under the key, the committed INSERT of the pending
row, the second lookup after an `IntegrityError`, the language boundary in, the
decider, the language boundary out, the assembly of the envelope, the committed
finalisation, and the recording of a failure. `rows` is the table, indexed by the
call that inserted the row; the unique constraint on (project, principal, key) is
`Conflicts`. A key stands for a (principal, Idempotency-Key) pair, a request for
everything the canonical request hash covers, a verdict for everything in the
envelope. `reserved`, `ran` and `shown` are history: they say which calls
committed a reservation, invoked the decider, and what was shown to whom.

Every commit is one step with three outcomes: it succeeds, it raises and has had
no effect, or it raises and has had its effect. The last is what a connection
lost between COMMIT and its acknowledgement looks like; SQLAlchemy reports both
in the same way. `CommitFaults` selects them. A call may be lost at any point
(a killed worker, a cancelled task), and the project may be deleted at any point. An
update of a row that is gone affects no row, which SQLAlchemy reports as an error
(`UpdateOutcomes`). `unstored` is history too: the calls whose failure was to be recorded
and was refused.

### BuildSlot

An element of `Builders` is a caller: a publish, or a rebuild request. `pc`
follows it through `reclaim_abandoned_builds`, the INSERT of `acquire_build_slot`,
`record_deferred_build` when it is refused, the build, `finish_build` in the
`finally` block of `run_tracked_policy_index_build`, and the caller's own record.
`rows` holds its latest history row. `view` is what its SQLAlchemy session
believes of that row: sessions here do not expire on commit, so a builder acts
on the status it last loaded, and a rollback expires the object, so that reading
one of its attributes raises in an async session while `session.get` reloads it.
Two of the observations below come from exactly this difference. Time is not modelled: a row is
`lapsed` when it has not been written for a lease (two hours), `Lapse` may happen
to the row of any builder that does not build any more, and to that of a live
build only if it is in `SlowBuilders`.

### PolicyIndex

Each call to Azure AI Search is one step. A write is acknowledged, rejected, or
takes effect and loses its answer. `step` follows `rebuild_project_policy_index`:
load the active version, mark the manifest incomplete, upload the documents,
count the acknowledgements, look for ids the build did not write, delete them,
compare the corpus with the record, mark the manifest ready. A document is a
(version, part) pair and a manifest a record of state, quality verdict and
version. `Validate` is `validate_project_policy_index`, which reads the manifest
and writes all of it back with a verdict and holds no slot; `Query` is the gate
and the search of a case. `recorded` is `policy_index_states`.

### Publication

A handler of `candidate_rules.py` reads in several statements, at READ COMMITTED
and without row locks, and commits once. Each statement that reads is a step:
loading a candidate (or, in a bulk review, one after another), listing the
approved candidates, choosing the version number, merging with the active
version, finding the versions to deactivate. The commit is one step and writes
all or nothing; `Abort` is a refused commit, an exception, or a dead process.
`batch` is what the handler's session loaded, and `Assign` is how SQLAlchemy
turns an assignment into an UPDATE: a column that already had the wanted value
when it was loaded is not written, whatever it holds by now. A candidate is its
rank in creation order, which is the order publish lists it in and which decides
between two candidates with one rule id. Of a rule's content the model keeps
where it came from: the draft, an edit, or an import.

### ExtractionRuns

A run is the rank of its row; `pc` says whether it reads, reads again, is over, or is
lost: its process died or its end could not be stored, and nobody has closed its row since.
`Processes` are the replicas (`infra/modules/container-apps.bicep` allows three), `up` those
that run, `drives` the runs that are tasks of each. `todo` and `unread` are the
batches left and the ones an agent failed on; a batch is missed, found to hold no
policy, or committed with its candidates. A candidate is a run and the content of a
rule, because two runs that read a passage alike draft the same rule, and the
comparison at the end of a run (`clause_delta.py`) matches exactly those. `Settle` is
the transaction at the end: links, comparison with the baseline, decisions taken
over, `mark_completed`. The session of a run does not load its candidates again, so
what `Settle` writes lands on whatever people did in between. `Crash(p)`
ends the runs of one process; the others go on and do not look for what it left. `Start(p)`
is a process starting, beside others or alone, with the sweep of `app.py`: it fails every
row that says running, also those of the others' live runs, and finds nothing if the
database is not there, which does not stop the start.

`owed`, `verdicts` and `misplaced` are history. `verdicts` holds what people decided on a
rule as it was drafted. A decision on a text somebody has edited is not in it: such a
candidate does not match the rules of the next run, so its decision stays with it. The
linking pass can undo that (`Rewritten`): it writes the drafted payload over the edited one
and leaves the decision. `misplaced` holds the decisions that ended up on a drafted rule
in this way and no other.

### Evaluator

The code is a pure function of the package and the facts, so the behaviour is the
caller's: it asks, is told what is missing, learns one fact more (null is an answer),
and asks again. `Leaf`, `RelativeLeaf`, `Group`, `Negated` are `conditions.py`;
`Judge` is one level of `evaluate_condition`, and `Judged` the recursion: the function that is,
of every condition, what `Judge` makes of it. `Conditions` are those of the rules and
their parts, and `Depth` says how deep each is nested; that there is such a number is
all that is assumed of them, and says that a condition, read from JSON, is a tree.
`SortKey` and `Precedes` are `precedence.py`; `Winner`, `Overridden`, `Contributing`,
`Breached` and `Evaluate` are `engine.py`. A value is a number, a text or null: the
other types of the code differ only in what a comparison of two present operands
returns.

### CaseEvaluation

The evaluation is one coroutine that awaits model calls, several at a time. `call` is the
state of each call in `_chat_json`: its first or second attempt, with or without
reasoning effort. `Garbled`, `RefuseEffort` and `Break` are what can become of an attempt
other than an answer; a reading that fails ends the evaluation (`asyncio.gather` lets it
escape), a track that fails becomes its own `failed` branch (`Fails`). `Classify` takes
the majority of each request and starts the tracks. A reply is the plan `plan_from_reply`
reads from it, and `Labelled`, `Waiting`, `Explained`, `Settled`, `Decided` are the
repairs of `_decision_from_parsed` in their order. `Section` is the section of the
receipt, `Serve` the way out through the language boundary. `reply` is history. It is the
step `Decide` of `CaseDecision` from inside; there the verdict is any.

### PolicyTests

A handler's request is one step where it reads and commits nothing it has read, and
several where what it loaded is used later: a batch is loaded and then run, a test is
loaded and then reviewed, a publication is committed, then lists its guards, then runs
them. `held` is what was loaded in between. `Reviewed` writes a column only if it
differs from what was loaded, as the session does (`Assign`). Of a response the model
keeps the blind tests whose expectation it holds: `shown` collects those. `accepted`, `reruns` and `guarded` are
history too. Versions are numbers, because a version never goes away and its rules do
not matter here.

### Teardown

A document is its row with one version; `home` is the project it is filed in. `rules`
says which projects have candidates from it, `cited` whose published rules have evidence
there, `provision` which project the row of its passage belongs to; an extraction may leave
none. `Scope` is the temporary table of what the project owns alone,
with the search keys, `Delete` the statements of `_DELETION_ORDER` and their commit,
`Blocked` a foreign key that forbids them, `CleanUp` the call to the search service after
the commit and the report. Others may extract, publish, file and delete between `Scope`
and `Delete`. That everything that hangs off a project alone goes with it is taken as
given; the module is about what is shared.

## Runs

All runs are safety runs under `Spec` except the three marked fair. Deadlock
checking is on for `PolicyTests`, whose handlers always have a list to read, and off for
the others: every caller may finish, die or be refused, and
the system may then rightly stop.

| Run | Bounds | What it shows |
|---|---|---|
| `CaseDecisionFaults` | 3 calls, 1 key or none, 2 requests, 2 verdicts, both commit faults | Whatever is lost, one key runs the model once and shows one verdict, to its own request; a verdict returned by the deciding call is stored. |
| `CaseDecisionRegister` (fair) | 2 calls, 1 key or none, 2 requests, 2 verdicts, refused commits | The table implements `DecisionRegister`; everything shown stays readable; every reservation is settled unless its worker dies, a fault hits it between the decider and the finalisation, or the store refuses its failure as well (`Abandoned`). |
| `BuildSlotZombies` (fair) | 2 builders of which 1 may outlive its lease, 2 projects of which 1 may be deleted, both commit faults | Nobody takes the slot from a live build, also when a silent builder wakes up or a project goes; history is final; the slot of a dead build is given back. |
| `PolicyIndexRebuild` | 2 builders, 2 versions of 2 documents, index writes rejected or unanswered | One live rebuild at a time; a ready manifest stands over every document of its version; nothing is rewritten while ready; `built` means answerable; the latest-state row claims no version that was never made ready; the rebuild's steps on the build rows are those of `BuildSlot`. |
| `PolicyIndexAnnotate` | 1 builder, 1 validator, 1 query, 2 versions of 1 document, index writes rejected | Whatever a validation writes back, only a version that some rebuild completed becomes answerable. |
| `PublicationRaces` | 2 handlers that review (singly or in bulk), edit, publish and import, 2 candidates, 2 rule ids, 2 versions, imports of both rules, everybody takes the next version number | The version table implements `VersionLedger`: no gaps, no rule in force is dropped by a publish that lost a race, one active version; a published row names a version that holds its rule. |
| `ExtractionRuns` | 2 runs, 2 batches of 1 rule each, 2 interventions, 2 processes | Runs that overlap, crash and are swept, one process dying or starting beside the other: a run retires nothing before it has rules of its own; a decision on a drafted rule comes from a person who decided on that text, or on one a linking pass wrote it over, and from a finished run; `completed` means every batch was read; a row that says running is a live run's, or nobody has closed it and no sweep has passed since. |
| `Evaluator` | 2 facts, 4 values, every condition of two levels and many of three, packages of one to four rules that may conflict, one limit | A verdict of rules without exceptions stands whatever else becomes known; what is reported missing determines a condition of comparisons, however nested, and of questions of presence in one group; one side decides, by precedence. |
| `CaseEvaluation` (fair) | 3 readings, 2 units of evidence, 1 rule and 1 that does not exist, 2 names of one fact and 1 unknown name, records that declare their facts or declare nothing, every decision reply that differs from a settling one in up to two parts | A verdict is served exactly for a reply that says so, answers what was asked, accounts for all its evidence and waits for nothing; missing facts exactly for one that waits; every track asked for is reported and nothing else; the evaluation ends. |
| `PolicyTests` | 2 handlers, 2 tests, 1 batch, 2 versions | No response but the answer to its review shows what a sealed scenario is expected to give before a run of it; a re-run covers all guards that stood since its publication; nothing a model proposed is run after a publication unless a person accepted it. |
| `Teardown` | 2 projects, 2 documents | Projects deleted side by side, refused, cut off, retried: clauses and evidence of the other stay, as do its search entries, and `clean` means that the entries are gone. |
| `ExtractionCarry` | 2 runs, 1 batch of 1 rule, 2 interventions, 1 process; violation | See Findings. |

The invariants of type of most modules are proved and are not repeated in the runs.

Why these bounds: the receipt table conflicts pairwise, so a racing pair shows
every conflict, and the third call adds a replay that comes later.
Two documents are the least of which a part can be missing; two versions the
least of which one can be out of date. Two handlers over two candidates that may
share a rule id are the least in which one publish can lose what another
published, and the second version is the one that is merged with a first. That
run leaves overrides and requests for changes out to stay small: they are reviews
with another guard, whose stale writes a review that was loaded early makes as well,
and the theorems cover them. Two runs of an extraction
are one and the run before it; a batch that is lost and one that is not are two; two
interventions are a decision on the older run and one on the newer, or an edit and a
decision on the edited text; two processes are one that dies and one that goes on. The packages of
the `Evaluator` run take every pair of leaves, or of a leaf and a negation, in a
group, which is where an unknown meets a known, and a leaf and a group in a group, which
is where an answer that is not needed yet can be needed later; three rules are a permission, a
prohibition and one more on either side or on none, and the fourth is out of date.
Three readings are what the code takes, and the least in which a majority can go against
one. Two departures from a reply that settles the case are the least in which two repairs
meet; two units are the least of which one can be left out of the account.
Two tests are a guard and a proposal, or two scenarios of a batch; two versions are a
publication that overtakes another. `BlindUntilRun` excepts the tests that were
reviewed, because the answer to a review shows what is sealed (see Observations); the
reviews themselves are in the run.
Of two projects each is what is shared with the other; two documents are one that goes
and one that stays. `Faults` is empty in the run `Teardown` for a like reason: with
either of its two faults `CleanMeansGone` fails, in the ways the Observations describe.
Nothing else is bounded: callers may ask again for ever, and only `MaxVersion`,
`LastRun` and `MaxInterventions` limit the number of publications, runs and reviews.

### Fairness

`CaseDecision!Fairness`: a call the server has started goes on to its next step
or is lost; callers, readers and teardown owe nothing. `PendingIsSettled` is then about the
code's own paths: each failure of the language boundary, the decider and the finalisation
has to write its row, and only a call whose write the store did refuse is excused. `Fairness` of `BuildSlot`: the
same for a builder's code, time passes (`Lapse`), and a caller that was refused
or answered asks again. The last is an assumption about the users of the system,
and the liveness of the slot needs it: no background task sweeps dead builds, only
the next caller reclaims them. Progress reports have no fairness.
`CaseEvaluation!FairSpec`: the event loop goes on (`CrossIn`, `Classify`, `Serve`), and
every attempt at a model call that is not answered expires (`timeout=180.0` in
`_chat_json`); no call owes an answer.

## Proofs

The theorems hold for every value of the constants: any number of calls, keys,
builders, projects, handlers, candidates and rules, extraction runs, processes and
interventions, any number of readings of a question and any reply to it, of policy tests
and batches, of projects and documents, conditions of any depth over any facts, packages
of any number of rules, every subset of the commit faults.
They assume only the named assumptions of the modules, which say that the
null values differ from the values they stand beside and which faults there are,
and that every set of candidates has a latest one; `PolicyIndex` has one project; a
condition is a tree, the scores of rules are whole numbers, a package is finite, and it
holds one revision of each rule, as every publish sees to, which merges by rule id (an import
does not, see Observations).
The theorems about publication
are about callers that take the next version number (`~ExplicitNumbers`): with
numbers of the callers' choice two versions can stay active (see Observations).
Those that name `Acknowledged` are about services whose commits do not take
effect when they raise: after one that does, the call marks failed a
row that readers have already seen completed. `CleanIsGone` is about deletions that no
upload overlaps, of a service that rejects no part of what it answers (`Faults = {}`, as
in the run); the other theorems about `Teardown` hold with either fault.

* `TypeCorrect` in each.
* `ModelRunsOncePerKey`. That two runs of one key are one run is not inductive:
  it follows from what the table says. `Reservations` ties a call's place to
  whether it committed a reservation and whether it ran; `Table` says that while
  the project lives each reservation has its row, with the key and the request of
  its call, and that two keyed rows differ in their key.
* `VerdictsAnswerTheirRequests`, from `Contents`: a stored or held verdict is
  about the request of the call that reserved the row.
* `DecidedVerdictsAreCitable`, from `Receipted`: after the deciding call was told
  `decided`, its row is completed with that verdict, and no other step writes it.
* `OneVerdictForOneKey`, from `Origins`: each answer, of the deciding call or of a
  replay, is traced to the reservation whose call decided it, and a key has one. A
  verdict once decided is not decided again (`HasDecided`), so the answers agree even
  when the row has been marked failed in between.
* `ShownVerdictsStay` and `SettledStaysFinal`, from `SettledInv`: the call of a settled
  row is over, so nobody is left to write it, and what was shown is what a completed
  row holds. Both need `Acknowledged`.
* `ServiceKeepsItsPromise`: the receipt table implements `DecisionRegister`. `Table` and
  `Reservations` make the register of a key the one row stored under it
  (`OneRowUnderAKey`), so that a write moves one register (`WriteMoves`), a reservation
  opens it, a finalisation settles it, a failure voids it, and a replay or a read of the
  receipt shows its verdict. A call without a key moves none.
* `SlotInStep`, `LiveBuildsKeepTheSlot`, `BuildsNeverOverlap`, from `SlotInv`:
  at most one row holds the slot; a holder builds or its builder is gone; what a
  reclaim has selected is not a live steady build; the lease of such a build has
  not lapsed. The last two are needed because a reclaim acts on a selection made
  earlier, whatever became of the rows since.
* `HistoryStaysFinal`, an action property, from `SlotInv`.
* `OneVersionIsActive` and `PublicationsAreAtomic`, from `LedgerInv`. The number a
  publish chose is the key of the argument: version numbers have no gaps, so the
  number of every handler is taken or the next one, and while it is the next one no
  version has been added since the handler read the table (`Current`). What it merged
  and what it is about to deactivate are then what it would compute now, and its
  commit is one step of the ledger. A handler whose number is taken can only fail.
  This is why the unique constraint on the version number makes the reads safe, and
  why a number chosen by the caller undoes it.
* `PublishedRowsAreTruthful`, from `HandlerInv`: what a handler holds at each place.

* `RebuildsUseTheSlot`: the index component implements the slot protocol. Every
  step of a rebuild is a step of `BuildSlot` or leaves its variables alone, so the
  theorems of the slot hold of the index's own builders.
* `OnlyRebuildsMakeReady`, `RecordIsBacked`: every manifest anybody holds, in the
  index, in a validator's hand, or about to be recorded, that says ready names a version
  some rebuild completed. The history variable only grows, so no race disturbs it.
* `ReadyCorporaAreWhole`, `SuccessMeansAnswerable`, `CorpusIsWrittenBehindTheGate`:
  where nobody validates and no builder outlives its lease. The inductive invariant
  says that the builder that is past its load of the version is the only one
  (`BuildsNeverOverlap`), that the manifest is not ready between its first step and its
  last, and what the index holds at each step of it: during the upload the documents of
  its version that are no longer to be sent, once they were counted all of them, and
  that what it found to delete is of other versions. Both conditions are needed: a
  validation can write an old `ready` back over a rebuild (see Observations), and a builder that wakes up after its lease writes into the other's corpus.
* `OneVerdictIsShown`: whatever keeps the promise of `DecisionRegister` shows one verdict
  per key, because a register shows only what it was settled with, and is settled once
  (`PromiseInv`). It looks at the registers only and not at the table behind them. With
  `ServiceKeepsItsPromise` it gives `ServiceShowsOneVerdict`: what the Idempotency-Key
  promises, where a commit that raises has had no effect.
* `QueuesAreReplaced`, `DecisionsComeFromPeople` and `ReferencesAreFinished`, from
  `RowInv`, which is about one candidate at a time. The last needs that nothing
  takes a run back that is finished, and this needs where the run is: a start
  writes off what is `running`, a failure only a run that is still on its way
  (`FinishedStays`). For decisions, the invariant (`Known`) is that a candidate whose text is
as drafted has a decision in `verdicts` or in `misplaced`: a review of an edited text
leaves it edited, a run hands on what an unedited row has (`Inherited`), and a linking pass
that takes the mark away puts the decision into `misplaced` in the same step
(`SettledTo`). That the reference is a run at all rests on any set of runs having a
  last one (`LastOfRuns`), from the well-foundedness of the naturals.
* `CompleteRunsCover` and `RunningRunsAreAlive`, from `RunInv` and `TasksInv`: a live run
  owes no batch that it neither is about to read nor has noted as unread; a run that reads
  is a task of a process that runs (`DrivenInv`); and a row that says `running` belongs to a
  run that goes on or to one that is lost. A start that reaches the database takes every
  lost run out at once, and a crash adds only those of its own process.
* `EarnedStatus` and `TracksAreReported`. The first is mostly about one reply:
  `RepairsAreRight` follows it through the repairs in the order in which the code
  makes them and finds the two statuses that matter to be those `Decisive` and
  `Blocked` state at once. The inductive invariant ties the call of each track to what its
  branch holds (`TrackInv`), so that the sections, which look at the branch again,
  change nothing (`SectionKeeps`), and a track that is in flight keeps the evaluation
  gathering.

* `SealedUntilRun`, `ProposalsWaitForPeople` and `RerunMissesNoGuard`, from three
  invariants over a common one that says what a handler holds at each place (`Holding`),
  and from what no step undoes (`Grows`): rows and runs are only added, no test changes its
  author or its batch, and what was decided is not undecided. For the first, a batch that says `executed`, or was
  loaded as such, has had a run of each of its tests (`BlindInv`); this needs that nobody adds a
  test to a batch that is there, and that what was loaded to be run is still all of it. For the second,
  a column that a review does not write keeps what a person put there, so that also a review of a
  row that changed since makes no guard that nobody accepted (`TrustInv`). For the third, what
  guarded a version since its publication is active, so the handler finds it whenever it
  lists (`CoverInv`).
* `SourcesStay`, `EvidenceGoesWithItsProject`, `CleanUpSparesTheStored`, from `Inv`. A
  document is fresh, stored or gone, and a scope was stored when it was read: once deleted it does not
  come back, so keys collected before the deletion are keys of what is gone. What others did to a
  scope after it was read shows up in `Blocked` or does no harm (`DeletionLeaves`).
  `CleanIsGone` adds that while a deletion is under way nothing waits to be indexed, and
  that the keys are all that the index has of the scope (`CleanInv`).

* `MissingFactsChangeNoVerdict`, `MissingFactsAreComplete`, `ConflictsAreDecided`, from
  `Inv`: what the caller has is the evaluation of all it supplied. The rest is about
  that evaluation, whose conditions are recursive data. The provers have no induction over
  data, so the module makes its own from the well-foundedness of the naturals: a
  set of numbers has a least one (`LeastNumber`), a function may be defined by recursion on
  a rank (`TreeRecursion`, by a least node where it fails), and what holds of a condition
  once it holds of its parts holds of all (`TreeInduction`). From these:
  `ConditionsAreJudged`, that `evaluate_condition` has an answer for every condition;
  `SettledStays`, that a condition stays as it was settled if its comparisons do;
  `SettledWhenSupplied` and `MissingAddsUp`, that what is missing for a group is what is
  missing for its comparisons and settles it with them (`PartsSettle` for one level, where
  what asks for presence may be among the parts). All three are needed of every part
  at once, because a group is settled by any one of its parts, and not determined only when
  none settles it. `TargetsStand` is the same for the target of a rule: its
  first dimension that does not match stays the first.
* `PrecedenceIsATotalOrder`: the keys of two rules have one length and differ, since they end in
  the ids. A finite set of rules has therefore a first one (`OneComesFirst`), and `Winner`
  is a choice that exists.

Only model-checked: the liveness properties (`PendingIsSettled`, `DeadBuildsReleaseTheSlot`,
`EvaluationEnds`), which are outside the prover's reach. Every other property of the
runs that pass is the statement of a theorem.

## Findings

One run, `ExtractionCarry`, has TLC find the code doing what its own words say it does
not. A candidate that a person rejected while its run was still reading becomes approved
when the run ends, because the run before has the same rule approved: the comparison
works on candidates as the run wrote them, and the session does not read them again
(`ai_extraction.py:898`). The docstring of the retirement says of a reviewed candidate: "a
re-run is a machine action and must never bury it" (`ai_extraction.py:710`).

### Observations

What else was met while modelling, without a run of its own. Where an item names a file
of `docs/`, a comment or a docstring beside the code, it contradicts what that says:

* A validation writes back the manifest it read (`policy_index.py:1992`). That manifest can say
  ready while a rebuild is half way through replacing the documents, and stays if that
  rebuild fails; `docs/api.md:793` says no partial corpus is ever queryable. The same write
  undoes a concurrent `incomplete` or `ready`, contrary to the docstring of the validation,
  which says the state is not touched. The run `PolicyIndexRebuild` has therefore no
  validator, and `PolicyIndexAnnotate` shows what is left with one.
* A rule is satisfied, and with it the request, while the fact its exception asks for is
  missing, and not satisfied once it is known: an exception that cannot be determined
  counts as one that does not hold, and its fact is not among the missing ones
  (`engine.py:157`; `README.md:173` says the engine does not guess).
* What is reported missing for a condition with `exists` or `isNull` in a group in a group may
  not be all that is missing: of `any` of (`all` of f = 1 and g exists) and g > 1, with
  nothing supplied, only g is reported, since g does not exist; with g = 1 it does, and f is
  missing. The docstring of the comparison of two facts promises the complete answer in one
  pass (`conditions.py:143`). `MissingFactsSuffice` has therefore presence in one group only.
* A version that is imported with two revisions of one rule (`models.py:924` allows it) on
  opposite sides, both in effect and satisfied, is combined by rule id
  (`engine.py:255`): the rule that decides is marked overridden by itself, and both its
  permission and its prohibition are returned, though the docstring excludes the losing side
  (`engine.py:220`). The model has one revision of each rule.
* Reviewing a sealed scenario before it was run shows its expected answer
  (`routers/policy_tests.py:405`; `docs/user-guide.md:236` says it is hidden before
  execution). The rule it expects is shown by every response (`routers/policy_tests.py:66`).
* Two reviewers of one proposal, one of whom accepts and one rejects, can leave it rejected
  and active, so that it runs after every publication: each writes only the columns that
  differ from what was loaded (`repositories/policy_tests.py:107`; `models.py:1553` says
  a rejected test is excluded by `is_active=False`).
* The search service may refuse to delete some of the keys it is given and answer with
  success; the verdicts on single keys are not read (`search_client.py:319`), the report of
  the deletion is `clean`, and the entries stay. `docs/api.md:1160` says a failure to
  clean is reported rather than hidden. This is the fault `rejected` of `Teardown`.
* An upload indexes after its commit (`documents.py:413`). When its project is deleted in
  between, the entries of a document that is gone appear after the report said `clean`. This
  is the fault `overlap` of `Teardown`.
* Whether a deletion owns a version alone is decided by the candidates, provisions and
  evidence of others, not by the project the document is filed in
  (`policy_set_teardown.py:118`): a document filed in one project is deleted with another that
  alone extracted from it, although versions that another project reaches are said to
  be retained (`:82`).
* Deleting the project that first extracted a passage deletes the passage's row, and with it the
  link to it from the rules of every other project (`policy_set_teardown.py:267`); the comment
  at `:246` speaks of rules that are about to be deleted anyway.
* A project cannot be deleted once another project has extracted from a document filed in
  it: the document keeps its version and its `policy_set_id`, and the foreign key refuses
  (`policy_set_teardown.py:314`; `:83` says such versions are retained).
* A progress write that fails rolls the build's session back and expires the
  build row; the `finally` block (`policy_index.py:2484`) then raises on `build.id`, and a
  build that succeeded is not recorded and holds the slot until its lease lapses
  (`policy_index_build_progress.py:59` says a failed progress write costs nothing).
* A publish that finds the slot taken is rolled back inside the acquisition,
  fails on its own expired `policy_set` (`candidate_rules.py:933`), and answers 500 after
  the version was committed.
* The readiness gate and the search of a case are separate calls
  (`ai_case_project.py:3121`): a query that passed the gate can search an index a rebuild
  has begun to rewrite.
* Two publishes or imports that name different version numbers each deactivate
  the versions they can see, and both of theirs stay active
  (`policy_version_import.py:93`; `docs/data-model.md:114` says exactly one is active).
* Deleting a project deletes the row of its running build, and with it the slot: a
  second build may start beside the first (`docs/known-limitations.md:72` says
  exactly one runs). `OneBuildAtATime` is therefore
  about builds whose project still exists (`Steady`).
* Two builds record their outcomes after releasing the slot, so the record of an
  older success may overwrite that of a newer failure, and say `built` beside an
  index that refuses every query.
* With a lost acknowledgement, a finalisation that was stored is marked failed
  afterwards, and the row keeps its verdict (`ShownStaysCitable` is therefore
  checked, and `SettledIsFinal` proved, without that fault).
* A publish commits what it listed (`candidate_rules.py:806`). A request for changes in
  between is written over by `mark_published`, and an edit after it is on the candidate and
  not in the version. The ledger knows the rules of a version and not their texts, so
  `PublishesAreAtomic` does not notice.
* A fault between the decider and the finalisation (`policy_case_decision.py:1673`) is caught
  by nobody: the caller gets 500 and the row stays pending, as it does when the worker
  dies (`Abandoned`).
* An edit that loaded its candidate before an approval rewrites an approved
  payload, which `update_payload` calls frozen. A request for changes or an
  override that loaded it before a publish takes its published status back.
* Review does not look at `superseded_at`: a candidate that a re-extraction has retired
  can be approved, and is then approved and never published. The next run still takes
  the decision over.
* Two extractions of one document side by side retire each other's first candidates; what
  the earlier one drafts after the later one began stays, and both are in the queue
  (the comment at `ai_extraction.py:1270` says it never contains both). A run over the
  first clauses only (`max_clauses`) retires the candidates of all clauses.
* The linking pass rewrites the payload of a candidate that has links
  (`ai_extraction.py:1584`), whether or not it was edited or approved since
  (`candidates.py:226` calls an approved payload frozen). A candidate that a person edited
  and approved is then approved on the drafted text, and the next run takes that decision over
  onto the same text, which nobody approved; the comment there says that the reviewer
  "already decided this exact rule" (`ai_extraction.py:894`). `DecisionsAreMadeByPeople`
  names exactly these decisions as its exception. Likewise a decision that is taken over
  lands on a candidate whose text was edited while the run went on.
* When one replica dies beside others, the rows of its runs say running until some
  process starts: the sweep runs at a start only (`app.py:126`), and the docstring that speaks of
  closing them (`app.py:86`) has a restart in mind. `ShownRunningIsAlive` therefore says
  what a running row can be, and not that its run is alive.
* A replica that starts fails the running extractions of the others, whose tasks are not gone
  (the same docstring says they are); a run that is alive closes itself later and is
  completed again.
* The evaluator calls a request to which no rule applies `NOT_SATISFIED` unless there is
  no rule at all; an amount that is missing counts as nothing against a limit; a
  target reports its first missing dimension only, and a comparison that fails on types
  is reported as a missing fact, or masked by one that is missing.

* A reply that does not say whether the rules it cites settle what was asked passes as
  answered: `ai_case_intent.py:2374` refuses an explicit no only
  (`ai_case_plan.py:244` says "absence is not assent").
* That a rule named as what carried a piece of evidence belongs to that piece is not
  checked, only that it was retained (`ai_case_plan.py:141` says the decision stage checks it).
* A re-run after a publication that fails, or whose worker dies, is logged and never made
  up for. Two re-runs may end in either order, and the latest run of a test is the one that
  ended last, on whichever version.
* When a worker dies between the commit of a deletion and the cleanup, the search entries stay
  and nobody is told; the index of the project is dropped by the project's key, which
  may be that of a new project by then.
* A reading that fails ends the evaluation while the other readings go on unawaited; only
  the tracks are protected from that.

## Abstractions

* `PolicyIndex` models the index of one project, so its deletion is not in it;
  `DeletableProjects = {}` is an assumption of the module.
* A version is its number and all versions are published active. The corpus of a
  version is never empty, and quality figures, profiles and scopes are left out.
* `Report` may happen at any moment of the work and not only at stage boundaries,
  which adds behaviours and removes none.
* Retries inside the search client and the AI client are folded into the outcome
  of the call they retry. An HTTP request that is delivered twice is two calls.
* The decider may answer anything or raise. What it retrieves is `PolicyIndex`'s
  query; the two are not composed.
* Publication's content is draft, edited or imported; two edits are not told apart.
  Everybody's writes appear at the commit, which at READ COMMITTED is when others
  see them; a write that waits for another's row lock is one that commits later.
* In `Publication` all candidates exist from the start, as drafts; `ExtractionRuns`
  creates, retires and decides them and publishes nothing. Clauses and evidence are in
  neither.
* `ExtractionRuns` takes a batch's candidates and the retirement of older ones as one
  commit, which they are, and a second reading that raises half way as one that raises
  before it wrote anything. Every rule is the only one of its clause: two rules of one
  clause with different text are matched by similarity in the code, here not at all.
* In `CaseEvaluation` the texts of a reply are there or not, and what the catalogue makes of
  a name is a constant; the caller's guidance, which crosses the language boundary beside
  the question and reaches the tracks only, is left out. Records are not empty. Any case in
  another language may fail on its way out, also one whose answer has no text.
* `Evaluator` leaves effective dates at being current or not, and the trace out.
* In `PolicyTests` a request that reads once and answers is one step; the history of a
  test's runs and the list of failing tests are taken as part of the list of tests. What
  a run finds, and the hash an expectation is sealed with, are left out.
* In `Teardown` a document has one version and a run one passage; a second upload
  of it is not modelled, nor an import that cites a document the project has no rules of.
  Search entries are those of a whole document. Projects are not created again.
* Correlation ids, hashes of envelopes, timings, telemetry and wording are left out.

## Not modelled

`src/` holds some hundred thousand lines of Python. About a third is
material of `handover/`: provenance builders and harnesses, most of them there twice, that
compute hashes of files and write reports. Another third is text in and text out:
`infrastructure/extraction` and `assistants` build prompts, normalise what a model
returned, and project it into records; what they do that this project can state
is that any answer may come back at any time, and that is how they appear here. `contracts` is
schemas. The routers that were not modelled read rows and return them, or write one row
in one transaction. What is left that keeps state over several steps is in the next section.

## Plan

What is left, in this order:

1. The register of uploads: one document uploaded twice at once, duplicate detection.
2. Review requests, exceptions and attestations: small lifecycles.
3. The evaluator over versions that hold two revisions of a rule, with rule ids and revisions
   told apart.
