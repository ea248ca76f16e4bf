------------------------------ MODULE PolicyTests ------------------------------
(***************************************************************************)
(* The saved tests of one project: written by people, proposed by a model, *)
(* or generated as a blind batch whose expected answers stay sealed until  *)
(* it has run; reviewed into guards, and run again after every publication *)
(* (api/routers/policy_tests.py, infrastructure/policy_tests,              *)
(* persistence/repositories/policy_tests.py, and the end of                *)
(* publish_approved_candidates in api/routers/candidate_rules.py).         *)
(*                                                                         *)
(* A handler reads, then commits once, at READ COMMITTED; an UPDATE writes *)
(* the columns that differ from what was loaded.  What a run finds is left *)
(* out: pass, fail and error are recorded alike.                           *)
(***************************************************************************)
EXTENDS Naturals

CONSTANTS
  Handlers,    (* concurrent requests                                         *)
  Tests,       (* the ids of the tests that may come to be                    *)
  Batches,     (* the ids of the blind batches that may come to be            *)
  None,        (* no batch, no test                                           *)
  MaxVersion   (* bound: how many versions are published                      *)

ASSUME PolicyTestsAssumption ==
  /\ None \notin Tests \cup Batches
  /\ MaxVersion \in Nat

VARIABLES
  tests,      (* policy_tests, by id                                          *)
  batches,    (* policy_test_batches: their status                            *)
  runs,       (* policy_test_runs                                             *)
  published,  (* the number of the last version                               *)
  pc,         (* where each handler is                                        *)
  held,       (* what it has loaded                                           *)
  shown,      (* history: the blind tests whose expectation a response held   *)
  accepted,   (* history: the proposals a person has accepted                 *)
  reruns,     (* history: what has become of each publication's re-run        *)
  guarded     (* history: for each version, the tests active since then       *)

vars == <<tests, batches, runs, published, pc, held, shown, accepted, reruns, guarded>>

-----------------------------------------------------------------------------
Reviews == {"pending_review", "active", "rejected"}

Test == [by : {"human", "ai"}, batch : Batches \cup {None}, review : Reviews,
         active : BOOLEAN]

Versions == 1 .. MaxVersion

Run == [test : Tests, version : Versions, trigger : {"manual", "on_publish"}]

\* The test under review as it was loaded, the tests to run and the version to run
\* them on, or the batch and its status.
Held == [test : Tests \cup {None}, row : Test, guards : SUBSET Tests,
         version : 0 .. MaxVersion, batch : Batches \cup {None},
         status : {"generated", "executed"}]

HumanTest == [by |-> "human", batch |-> None, review |-> "active", active |-> TRUE]

\* Mutant: a proposal joins the guards before anyone has looked at it.
ProposalAtOnce(b) == [by |-> "ai", batch |-> b, review |-> "pending_review", active |-> TRUE]

Proposal(b) == [by |-> "ai", batch |-> b, review |-> "pending_review", active |-> FALSE]

Nothing == [test |-> None, row |-> HumanTest, guards |-> {}, version |-> 0,
            batch |-> None, status |-> "generated"]

Saved == DOMAIN tests

Members(b) == {t \in Saved : tests[t].batch = b}

HasRun(t) == \E r \in runs : r.test = t

RunsOf(S, v, trigger) == [test : S, version : {v}, trigger : {trigger}]

\* list_by_policy_set(is_active=True).
Guards == {t \in Saved : tests[t].active}

\* The UPDATE of a column: none, if it is to become what was loaded.
Assign(stored, loaded, wanted) == IF wanted = loaded THEN stored ELSE wanted

Init ==
  /\ tests = [t \in {} |-> HumanTest]
  /\ batches = [b \in {} |-> "generated"]
  /\ runs = {}
  /\ published = 0
  /\ pc = [h \in Handlers |-> "idle"]
  /\ held = [h \in Handlers |-> Nothing]
  /\ shown = {}
  /\ accepted = {}
  /\ reruns = [v \in Versions |-> "none"]
  /\ guarded = [v \in Versions |-> {}]

Goto(h, from, to) == pc[h] = from /\ pc' = [pc EXCEPT ![h] = to]

Free == Tests \ Saved

Insert(S, row) ==
  tests' = [t \in Saved \cup S |-> IF t \in Saved THEN tests[t] ELSE row]

Show(S) == shown' = shown \cup {t \in S : tests[t].batch # None}

-----------------------------------------------------------------------------
(* Where tests come from.  The version a proposal is made for exists, and no    *)
(* version ever goes away, so the call of the model needs no step of its own.   *)

CreateTest(h) ==
  /\ pc[h] = "idle"
  /\ \E t \in Free : Insert({t}, HumanTest)
  /\ UNCHANGED <<batches, runs, published, pc, held, shown, accepted, reruns, guarded>>

\* Proposals outside a batch are not blind.
ProposeTests(h) ==
  /\ pc[h] = "idle"
  /\ published > 0
  /\ \E S \in (SUBSET Free) \ {{}} : Insert(S, Proposal(None))
  /\ UNCHANGED <<batches, runs, published, pc, held, shown, accepted, reruns, guarded>>

GenerateBatch(h) ==
  /\ Goto(h, "idle", "answer")
  /\ published > 0
  /\ \E b \in Batches \ DOMAIN batches, S \in (SUBSET Free) \ {{}} :
       /\ Insert(S, Proposal(b))
       /\ batches' = [c \in DOMAIN batches \cup {b} |->
                        IF c = b THEN "generated" ELSE batches[c]]
       /\ held' = [held EXCEPT ![h].batch = b, ![h].status = "generated"]
  /\ UNCHANGED <<runs, published, shown, accepted, reruns, guarded>>

-----------------------------------------------------------------------------
(* What responses show.                                                        *)

\* The list of tests.  The list of failing tests and the history of a test's runs
\* show some of the same.
ListTests(h) ==
  /\ pc[h] = "idle"
  /\ Show({t \in Saved : tests[t].batch = None \/ HasRun(t)})
  /\ UNCHANGED <<tests, batches, runs, published, pc, held, accepted, reruns, guarded>>

\* The list of batches, one of them: its row is loaded, and then its runs.
ListBatch(h) ==
  /\ Goto(h, "idle", "answer")
  /\ \E b \in DOMAIN batches :
       held' = [held EXCEPT ![h].batch = b, ![h].status = batches[b]]
  /\ UNCHANGED <<tests, batches, runs, published, shown, accepted, reruns, guarded>>

\* Mutant: the expectations of a batch are shown whatever its status.
RevealedAnyway(h) == Members(held[h].batch)

\* The tests of a batch whose expectations are shown: all, if the status loaded is
\* executed, else those that have a run.
Revealed(h) ==
  {t \in Members(held[h].batch) : held[h].status = "executed" \/ HasRun(t)}

AnswerBatch(h) ==
  /\ Goto(h, "answer", "idle")
  /\ Show(Revealed(h))
  /\ held' = [held EXCEPT ![h] = Nothing]
  /\ UNCHANGED <<tests, batches, runs, published, accepted, reruns, guarded>>

-----------------------------------------------------------------------------
(* Running.                                                                    *)

LoadBatch(h) ==
  /\ Goto(h, "idle", "execute")
  /\ \E b \in DOMAIN batches :
       held' = [held EXCEPT ![h].batch = b, ![h].guards = Members(b)]
  /\ UNCHANGED <<tests, batches, runs, published, shown, accepted, reruns, guarded>>

\* All tests on the version the caller chose, or on that of the batch; the runs and
\* the mark are one commit.
ExecuteBatch(h) ==
  /\ Goto(h, "execute", "answer")
  /\ \E v \in 1 .. published : runs' = runs \cup RunsOf(held[h].guards, v, "manual")
  /\ batches' = [batches EXCEPT ![held[h].batch] = "executed"]
  /\ held' = [held EXCEPT ![h].status = "executed", ![h].guards = {}]
  /\ UNCHANGED <<tests, published, shown, accepted, reruns, guarded>>

\* One test, whatever its review says, on any version; the answer holds what was
\* expected of it.
RunTest(h) ==
  /\ pc[h] = "idle"
  /\ \E t \in Saved, v \in 1 .. published :
       /\ runs' = runs \cup RunsOf({t}, v, "manual")
       /\ Show({t})
  /\ UNCHANGED <<tests, batches, published, pc, held, accepted, reruns, guarded>>

-----------------------------------------------------------------------------
(* Review.  Any test may be reviewed, also a second time.                       *)

LoadTest(h) ==
  /\ Goto(h, "idle", "review")
  /\ \E t \in Saved : held' = [held EXCEPT ![h].test = t, ![h].row = tests[t]]
  /\ UNCHANGED <<tests, batches, runs, published, shown, accepted, reruns, guarded>>

\* Mutant: the decision is stored under its own name.
ReviewedByVerb(h, t, review, active) ==
  [tests[t] EXCEPT !.review = IF active THEN "accept" ELSE "reject", !.active = active]

Reviewed(h, t, review, active) ==
  [tests[t] EXCEPT !.review = Assign(@, held[h].row.review, review),
                   !.active = Assign(@, held[h].row.active, active)]

ReviewTest(h, decision) ==
  /\ Goto(h, "review", "idle")
  /\ LET t == held[h].test
         verdict == IF decision = "accept" THEN "active" ELSE "rejected"
     IN  /\ tests' = [tests EXCEPT ![t] = Reviewed(h, t, verdict, decision = "accept")]
         /\ accepted' = IF decision = "accept" THEN accepted \cup {t} ELSE accepted
         /\ Show({t})
         /\ guarded' = [v \in Versions |->
                          {g \in guarded[v] : g = t => tests'[t].active}]
  /\ held' = [held EXCEPT ![h] = Nothing]
  /\ UNCHANGED <<batches, runs, published, reruns>>

-----------------------------------------------------------------------------
(* Publication, and the re-run at its end.                                      *)

Publish(h) ==
  /\ Goto(h, "idle", "published")
  /\ published < MaxVersion
  /\ published' = published + 1
  /\ held' = [held EXCEPT ![h].version = published + 1]
  /\ reruns' = [reruns EXCEPT ![published + 1] = "due"]
  /\ guarded' = [guarded EXCEPT ![published + 1] = Guards]
  /\ UNCHANGED <<tests, batches, runs, shown, accepted>>

\* Mutant: guards that have been run before are not run again.
ListNewGuards(h) ==
  /\ Goto(h, "published", "rerun")
  /\ held' = [held EXCEPT ![h].guards = {t \in Guards : ~HasRun(t)}]
  /\ UNCHANGED <<tests, batches, runs, published, shown, accepted, reruns, guarded>>

\* The index build lies before it.
ListGuards(h) ==
  /\ Goto(h, "published", "rerun")
  /\ held' = [held EXCEPT ![h].guards = Guards]
  /\ UNCHANGED <<tests, batches, runs, published, shown, accepted, reruns, guarded>>

Rerun(h) ==
  /\ Goto(h, "rerun", "idle")
  /\ runs' = runs \cup RunsOf(held[h].guards, held[h].version, "on_publish")
  /\ reruns' = [reruns EXCEPT ![held[h].version] = "done"]
  /\ held' = [held EXCEPT ![h] = Nothing]
  /\ UNCHANGED <<tests, batches, published, shown, accepted, guarded>>

\* A statement raises, or the worker dies: nothing of the transaction remains.  A
\* publication has been committed before its re-run, which is then never made up for.
Abandon(h) ==
  /\ pc[h] # "idle"
  /\ pc' = [pc EXCEPT ![h] = "idle"]
  /\ reruns' = IF pc[h] \in {"published", "rerun"}
               THEN [reruns EXCEPT ![held[h].version] = "lost"] ELSE reruns
  /\ held' = [held EXCEPT ![h] = Nothing]
  /\ UNCHANGED <<tests, batches, runs, published, shown, accepted, guarded>>

-----------------------------------------------------------------------------
Next == \E h \in Handlers :
  \/ CreateTest(h) \/ ProposeTests(h) \/ GenerateBatch(h)
  \/ ListTests(h) \/ ListBatch(h) \/ AnswerBatch(h)
  \/ LoadBatch(h) \/ ExecuteBatch(h) \/ RunTest(h)
  \/ LoadTest(h) \/ (\E decision \in {"accept", "reject"} : ReviewTest(h, decision))
  \/ Publish(h) \/ ListGuards(h) \/ Rerun(h)
  \/ Abandon(h)

Spec == Init /\ [][Next]_vars

-----------------------------------------------------------------------------
(* The state: rows of the three tables, and handlers with what they loaded.     *)
TypeOK ==
  /\ DOMAIN tests \subseteq Tests /\ \A t \in Saved : tests[t] \in Test
  /\ DOMAIN batches \subseteq Batches
  /\ \A b \in DOMAIN batches : batches[b] \in {"generated", "executed"}
  /\ runs \subseteq Run
  /\ published \in 0 .. MaxVersion
  /\ pc \in [Handlers -> {"idle", "answer", "execute", "review", "published", "rerun"}]
  /\ held \in [Handlers -> Held]
  /\ shown \subseteq Saved /\ accepted \subseteq Saved
  /\ reruns \in [Versions -> {"none", "due", "done", "lost"}]
  /\ guarded \in [Versions -> SUBSET Saved]

(* Nobody sees what a sealed scenario is expected to give before a run of it is *)
(* committed, whoever lists, generates or runs beside it (_batch_to_response,   *)
(* list_policy_tests), unless it was reviewed: the answer to a review shows it. *)
BlindUntilRun ==
  \A t \in shown : HasRun(t) \/ tests[t].review # "pending_review"

(* What a model proposed is run after a publication only if a person accepted   *)
(* it, in whatever order reviews and publications commit (propose_policy_tests, *)
(* review_policy_test, run_active_tests_for_version).                           *)
GuardsAreAcceptedByPeople ==
  \A r \in runs :
    r.trigger = "on_publish" => tests[r.test].by = "human" \/ r.test \in accepted

(* A re-run that ends well has run every guard that was active all the time     *)
(* since the publication, though it lists them long after (publish_approved_    *)
(* candidates, run_active_tests_for_version).                                   *)
RerunCoversGuards ==
  \A v \in Versions :
    reruns[v] = "done" =>
      RunsOf(guarded[v], v, "on_publish") \subseteq runs
=============================================================================
