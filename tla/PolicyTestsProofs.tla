-------------------------- MODULE PolicyTestsProofs --------------------------
(***************************************************************************)
(* Proofs about PolicyTests for every number of handlers, tests, batches   *)
(* and versions.                                                           *)
(***************************************************************************)
EXTENDS PolicyTests, TLAPS

-----------------------------------------------------------------------------
(* What a handler holds at each place is about rows that exist: no row of the  *)
(* three tables is ever deleted, and no test changes its batch.                *)

Places == {"idle", "answer", "execute", "review", "published", "rerun"}

Holding(h) ==
  /\ pc[h] = "review" => held[h].test \in Saved
  /\ pc[h] \in {"execute", "answer"} => held[h].batch \in DOMAIN batches
  /\ pc[h] = "execute" => held[h].guards = Members(held[h].batch)
  /\ pc[h] \in {"published", "rerun"} => held[h].version \in 1 .. published
  /\ pc[h] = "rerun" => held[h].guards \subseteq Saved

HandlerInv == \A h \in Handlers : Holding(h)

BatchesOfTests ==
  \A t \in Saved : tests[t].batch \in DOMAIN batches \cup {None}

TypeInv == TypeOK /\ HandlerInv /\ BatchesOfTests

-----------------------------------------------------------------------------
(* The rows.                                                                    *)

LEMMA RowsOfTests ==
  /\ HumanTest \in Test
  /\ \A b \in Batches \cup {None} : Proposal(b) \in Test
BY DEF HumanTest, Proposal, Test, Reviews

LEMMA NothingIsHeld == Nothing \in Held
BY RowsOfTests, PolicyTestsAssumption DEF Nothing, Held

\* An INSERT adds rows and leaves those that are there alone.
LEMMA Inserted ==
  ASSUME TypeOK, NEW S \in SUBSET Free, NEW row \in Test, Insert(S, row)
  PROVE  /\ Saved' = Saved \cup S
         /\ \A t \in Saved : tests'[t] = tests[t]
         /\ \A t \in S : t \notin Saved /\ tests'[t] = row
         /\ Saved' \subseteq Tests
         /\ \A t \in Saved' : tests'[t] \in Test
BY DEF Insert, Free, Saved, TypeOK

\* The UPDATE of a review: the row keeps its author and its batch.
LEMMA ReviewedRow ==
  ASSUME TypeOK, HandlerInv, NEW h \in Handlers, pc[h] = "review",
         NEW verdict \in {"active", "rejected"}, NEW yes \in BOOLEAN
  PROVE  LET t == held[h].test
             row == Reviewed(h, t, verdict, yes)
         IN  /\ t \in Saved
             /\ row \in Test
             /\ row.by = tests[t].by /\ row.batch = tests[t].batch
             /\ row.review = Assign(tests[t].review, held[h].row.review, verdict)
             /\ row.active = Assign(tests[t].active, held[h].row.active, yes)
<1> DEFINE t == held[h].test
<1>1. t \in Saved /\ tests[t] \in Test
  BY DEF HandlerInv, Holding, TypeOK
<1>2. held[h].row \in Test
  BY DEF TypeOK, Held
<1> DEFINE review == Assign(tests[t].review, held[h].row.review, verdict)
           active == Assign(tests[t].active, held[h].row.active, yes)
<1>3. review \in Reviews /\ active \in BOOLEAN
  BY <1>1 DEF Assign, Reviews, Test
<1>4. Reviewed(h, t, verdict, yes) = [tests[t] EXCEPT !.review = review, !.active = active]
  BY DEF Reviewed
<1> HIDE DEF review, active
<1>5. QED
  BY <1>1, <1>3, <1>4 DEF Test, review, active

\* What a review changes, and what it does not.
LEMMA ReviewChanges ==
  ASSUME TypeOK, HandlerInv, NEW h \in Handlers, NEW decision \in {"accept", "reject"},
         ReviewTest(h, decision)
  PROVE  LET t == held[h].test
             verdict == IF decision = "accept" THEN "active" ELSE "rejected"
         IN  /\ t \in Saved /\ Saved' = Saved
             /\ \A u \in Saved : u # t => tests'[u] = tests[u]
             /\ tests'[t] = Reviewed(h, t, verdict, decision = "accept")
             /\ \A u \in Saved : /\ tests'[u] \in Test
                                 /\ tests'[u].by = tests[u].by
                                 /\ tests'[u].batch = tests[u].batch
<1> DEFINE t == held[h].test
           verdict == IF decision = "accept" THEN "active" ELSE "rejected"
           row == Reviewed(h, t, verdict, decision = "accept")
<1>1. pc[h] = "review" /\ tests' = [tests EXCEPT ![t] = row]
  BY DEF ReviewTest, Goto
<1>2. t \in Saved /\ row \in Test /\ row.by = tests[t].by /\ row.batch = tests[t].batch
  BY <1>1, ReviewedRow
<1> HIDE DEF row
<1>3. Saved' = Saved /\ tests'[t] = row /\ \A u \in Saved : u # t => tests'[u] = tests[u]
  BY <1>1, <1>2 DEF Saved
<1>4. QED
  BY <1>2, <1>3 DEF row, TypeOK

-----------------------------------------------------------------------------
(* Type correctness, together with what the handlers hold.                      *)

\* Where no handler moves and rows are only added, what the handlers hold stays true.
LEMMA HeldStays ==
  ASSUME TypeInv, NEW H \in SUBSET Handlers,
         \A h \in H : pc'[h] = pc[h] /\ held'[h] = held[h],
         Saved \subseteq Saved', DOMAIN batches \subseteq DOMAIN batches',
         published' \in Nat, published <= published',
         \A t \in Saved : tests'[t].batch = tests[t].batch,
         \A t \in Saved' \ Saved : tests'[t].batch \notin DOMAIN batches
  PROVE  \A h \in H : Holding(h)'
<1> SUFFICES ASSUME NEW h \in H PROVE Holding(h)'
  OBVIOUS
<1>1. Holding(h)
  BY DEF TypeInv, HandlerInv
<1>2. published \in Nat
  BY PolicyTestsAssumption DEF TypeInv, TypeOK
<1>3. pc[h] \in {"published", "rerun"} => held[h].version \in 1 .. published'
  BY <1>1, <1>2 DEF Holding
<1>4. ASSUME pc[h] = "execute"
      PROVE  held[h].guards = {t \in Saved' : tests'[t].batch = held[h].batch}
  BY <1>1, <1>4 DEF Holding, Members
<1>5. QED
  BY <1>1, <1>3, <1>4 DEF Holding, Members

\* Where no row is added, only the handler that moves is to be looked at.
LEMMA OneMoves ==
  ASSUME TypeInv, NEW h \in Handlers,
         \A k \in Handlers \ {h} : pc'[k] = pc[k] /\ held'[k] = held[k],
         Saved' = Saved, DOMAIN batches' = DOMAIN batches,
         published' \in Nat, published <= published',
         \A t \in Saved : tests'[t].batch = tests[t].batch,
         Holding(h)'
  PROVE  HandlerInv' /\ BatchesOfTests'
<1>1. \A k \in Handlers \ {h} : Holding(k)'
  BY HeldStays, Handlers \ {h} \in SUBSET Handlers
<1>2. HandlerInv'
  BY <1>1 DEF HandlerInv
<1>3. BatchesOfTests'
  BY DEF TypeInv, BatchesOfTests
<1>4. QED
  BY <1>2, <1>3

\* New tests, of no batch there was before.
LEMMA NewTests ==
  ASSUME TypeInv, NEW S \in SUBSET Free, NEW row \in Test, Insert(S, row),
         NEW H \in SUBSET Handlers, \A h \in H : pc'[h] = pc[h] /\ held'[h] = held[h],
         published' = published, DOMAIN batches \subseteq DOMAIN batches',
         row.batch \in (DOMAIN batches' \ DOMAIN batches) \cup {None},
         DOMAIN batches' \subseteq Batches
  PROVE  /\ \A h \in H : Holding(h)'
         /\ BatchesOfTests'
<1>1. /\ Saved' = Saved \cup S
      /\ \A t \in Saved : tests'[t] = tests[t]
      /\ \A t \in S : t \notin Saved /\ tests'[t] = row
  BY Inserted DEF TypeInv
<1>2. row.batch \notin DOMAIN batches
  BY PolicyTestsAssumption
<1>3. \A t \in Saved' \ Saved : tests'[t].batch \notin DOMAIN batches
  BY <1>1, <1>2
<1>4. published' \in Nat /\ published <= published'
  BY PolicyTestsAssumption DEF TypeInv, TypeOK
<1>5. BatchesOfTests'
  BY <1>1 DEF BatchesOfTests, TypeInv
<1>6. QED
  BY <1>1, <1>3, <1>4, <1>5, HeldStays

LEMMA TypeInit == Init => TypeInv
<1> SUFFICES ASSUME Init PROVE TypeInv
  OBVIOUS
<1>1. TypeOK
  BY NothingIsHeld, PolicyTestsAssumption DEF Init, TypeOK, Saved
<1>2. HandlerInv /\ BatchesOfTests
  BY DEF Init, HandlerInv, Holding, BatchesOfTests, Saved
<1>3. QED
  BY <1>1, <1>2 DEF TypeInv

LEMMA TypeStep == TypeInv /\ [Next]_vars => TypeInv'
<1> SUFFICES ASSUME TypeInv, [Next]_vars PROVE TypeInv'
  OBVIOUS
<1>0. TypeOK /\ HandlerInv /\ BatchesOfTests
  BY DEF TypeInv
<1>a. published \in Nat /\ MaxVersion \in Nat
  BY <1>0, PolicyTestsAssumption DEF TypeOK
<1>b. \A h \in Handlers : held[h] \in Held
  BY <1>0 DEF TypeOK
<1>1. ASSUME NEW h \in Handlers, CreateTest(h) PROVE TypeInv'
  <2>1. PICK t \in Free : Insert({t}, HumanTest)
    BY <1>1 DEF CreateTest
  <2>2. HumanTest \in Test /\ HumanTest.batch = None /\ {t} \in SUBSET Free
    BY <2>1, RowsOfTests DEF HumanTest
  <2>3. DOMAIN batches' \subseteq Batches
    BY <1>0, <1>1 DEF CreateTest, TypeOK
  <2>4. HandlerInv' /\ BatchesOfTests'
    BY <1>1, <2>1, <2>2, <2>3, NewTests, Handlers \in SUBSET Handlers DEF CreateTest, HandlerInv
  <2>5. Saved' \subseteq Tests /\ (\A u \in Saved' : tests'[u] \in Test) /\ Saved \subseteq Saved'
    BY <1>0, <2>1, <2>2, Inserted
  <2>6. TypeOK'
    BY <1>0, <1>1, <2>5 DEF CreateTest, TypeOK, Saved
  <2>7. QED
    BY <2>4, <2>6 DEF TypeInv
<1>2. ASSUME NEW h \in Handlers, ProposeTests(h) PROVE TypeInv'
  <2>1. PICK S \in (SUBSET Free) \ {{}} : Insert(S, Proposal(None))
    BY <1>2 DEF ProposeTests
  <2>2. Proposal(None) \in Test /\ Proposal(None).batch = None
    BY RowsOfTests DEF Proposal
  <2>3. DOMAIN batches' \subseteq Batches
    BY <1>0, <1>2 DEF ProposeTests, TypeOK
  <2>4. HandlerInv' /\ BatchesOfTests'
    BY <1>2, <2>1, <2>2, <2>3, NewTests, Handlers \in SUBSET Handlers DEF ProposeTests, HandlerInv
  <2>5. Saved' \subseteq Tests /\ (\A u \in Saved' : tests'[u] \in Test) /\ Saved \subseteq Saved'
    BY <1>0, <2>1, <2>2, Inserted
  <2>6. TypeOK'
    BY <1>0, <1>2, <2>5 DEF ProposeTests, TypeOK, Saved
  <2>7. QED
    BY <2>4, <2>6 DEF TypeInv
<1>3. ASSUME NEW h \in Handlers, GenerateBatch(h) PROVE TypeInv'
  <2>1. PICK b \in Batches \ DOMAIN batches, S \in (SUBSET Free) \ {{}} :
          /\ Insert(S, Proposal(b))
          /\ batches' = [c \in DOMAIN batches \cup {b} |->
                           IF c = b THEN "generated" ELSE batches[c]]
          /\ held' = [held EXCEPT ![h].batch = b, ![h].status = "generated"]
    BY <1>3 DEF GenerateBatch
  <2> DEFINE row == [held[h] EXCEPT !.batch = b, !.status = "generated"]
  <2>2. Proposal(b) \in Test /\ Proposal(b).batch = b
    BY RowsOfTests DEF Proposal
  <2>3. /\ DOMAIN batches' = DOMAIN batches \cup {b} /\ DOMAIN batches' \subseteq Batches
        /\ Proposal(b).batch \in (DOMAIN batches' \ DOMAIN batches) \cup {None}
        /\ published' = published
    BY <1>0, <1>3, <2>1, <2>2 DEF GenerateBatch, TypeOK
  <2>4. row \in Held /\ row.batch = b /\ held' = [held EXCEPT ![h] = row]
    BY <1>0, <1>b, <2>1 DEF TypeOK, Held
  <2> HIDE DEF row
  <2>5. /\ pc'[h] = "answer" /\ held'[h] = row
        /\ \A k \in Handlers \ {h} : pc'[k] = pc[k] /\ held'[k] = held[k]
        /\ pc' \in [Handlers -> Places] /\ held' \in [Handlers -> Held]
    BY <1>0, <1>3, <2>4 DEF GenerateBatch, Goto, TypeOK, Places
  <2>6. \A k \in Handlers \ {h} : Holding(k)'
    BY <2>1, <2>2, <2>3, <2>5, NewTests, Handlers \ {h} \in SUBSET Handlers
  <2>7. BatchesOfTests'
    BY <2>1, <2>2, <2>3, <2>5, NewTests, Handlers \ {h} \in SUBSET Handlers
  <2>8. HandlerInv'
    <3> SUFFICES ASSUME NEW k \in Handlers PROVE Holding(k)'
      BY DEF HandlerInv
    <3>1. CASE k = h
      BY <2>3, <2>4, <2>5, <3>1 DEF Holding
    <3>2. CASE k # h
      BY <2>6, <3>2
    <3>3. QED
      BY <3>1, <3>2
  <2>9. TypeOK'
    <3>1. Saved' \subseteq Tests /\ (\A t \in Saved' : tests'[t] \in Test) /\ Saved \subseteq Saved'
      BY <1>0, <2>1, <2>2, Inserted
    <3>2. \A c \in DOMAIN batches' : batches'[c] \in {"generated", "executed"}
      BY <1>0, <2>1 DEF TypeOK
    <3>3. QED
      BY <1>0, <1>3, <2>3, <2>5, <3>1, <3>2 DEF GenerateBatch, TypeOK, Saved, Places
  <2>10. QED
    BY <2>7, <2>8, <2>9 DEF TypeInv
<1>4. ASSUME NEW h \in Handlers, ListTests(h) PROVE TypeInv'
  <2>1. HandlerInv' /\ BatchesOfTests'
    BY <1>0, <1>4 DEF ListTests, HandlerInv, Holding, BatchesOfTests, Saved, Members
  <2>2. TypeOK'
    BY <1>0, <1>4 DEF ListTests, Show, TypeOK, Saved
  <2>3. QED
    BY <2>1, <2>2 DEF TypeInv
<1>5. ASSUME NEW h \in Handlers, ListBatch(h) PROVE TypeInv'
  <2>1. PICK b \in DOMAIN batches :
          held' = [held EXCEPT ![h].batch = b, ![h].status = batches[b]]
    BY <1>5 DEF ListBatch
  <2> DEFINE row == [held[h] EXCEPT !.batch = b, !.status = batches[b]]
  <2>2. row \in Held /\ row.batch = b /\ held' = [held EXCEPT ![h] = row]
    BY <1>0, <1>b, <2>1 DEF TypeOK, Held
  <2> HIDE DEF row
  <2>3. /\ pc'[h] = "answer" /\ held'[h] = row
        /\ \A k \in Handlers \ {h} : pc'[k] = pc[k] /\ held'[k] = held[k]
        /\ pc' \in [Handlers -> Places] /\ held' \in [Handlers -> Held]
    BY <1>0, <1>5, <2>2 DEF ListBatch, Goto, TypeOK, Places
  <2>4. HandlerInv' /\ BatchesOfTests'
    <3>1. Holding(h)'
      BY <1>5, <2>3, <2>2 DEF ListBatch, Holding, Saved, Members
    <3>2. QED
      BY <1>0, <1>5, <1>a, <2>3, <3>1, OneMoves DEF ListBatch, TypeInv, Saved
  <2>5. QED
    BY <1>0, <1>5, <2>3, <2>4 DEF ListBatch, TypeInv, TypeOK, Saved, Places
<1>6. ASSUME NEW h \in Handlers, AnswerBatch(h) PROVE TypeInv'
  <2>1. /\ pc'[h] = "idle" /\ held'[h] = Nothing
        /\ \A k \in Handlers \ {h} : pc'[k] = pc[k] /\ held'[k] = held[k]
        /\ pc' \in [Handlers -> Places] /\ held' \in [Handlers -> Held]
    BY <1>0, <1>6, NothingIsHeld DEF AnswerBatch, Goto, TypeOK, Places
  <2>2. HandlerInv' /\ BatchesOfTests'
    <3>1. Holding(h)'
      BY <1>6, <2>1 DEF AnswerBatch, Holding, Saved, Members
    <3>2. QED
      BY <1>0, <1>6, <1>a, <2>1, <3>1, OneMoves DEF AnswerBatch, TypeInv, Saved
  <2>3. Revealed(h) \subseteq Saved
    BY DEF Revealed, Members
  <2>4. QED
    BY <1>0, <1>6, <2>1, <2>2, <2>3 DEF AnswerBatch, Show, TypeInv, TypeOK, Saved, Places
<1>7. ASSUME NEW h \in Handlers, LoadBatch(h) PROVE TypeInv'
  <2>1. PICK b \in DOMAIN batches :
          held' = [held EXCEPT ![h].batch = b, ![h].guards = Members(b)]
    BY <1>7 DEF LoadBatch
  <2> DEFINE row == [held[h] EXCEPT !.batch = b, !.guards = Members(b)]
  <2>2. Members(b) \subseteq Tests
    BY <1>0 DEF Members, TypeOK, Saved
  <2>3. row \in Held /\ row.batch = b /\ row.guards = Members(b) /\ held' = [held EXCEPT ![h] = row]
    BY <1>0, <1>b, <2>1, <2>2 DEF TypeOK, Held
  <2> HIDE DEF row
  <2>4. /\ pc'[h] = "execute" /\ held'[h] = row
        /\ \A k \in Handlers \ {h} : pc'[k] = pc[k] /\ held'[k] = held[k]
        /\ pc' \in [Handlers -> Places] /\ held' \in [Handlers -> Held]
    BY <1>0, <1>7, <2>3 DEF LoadBatch, Goto, TypeOK, Places
  <2>5. HandlerInv' /\ BatchesOfTests'
    <3>1. Holding(h)'
      BY <1>7, <2>4, <2>3 DEF LoadBatch, Holding, Saved, Members
    <3>2. QED
      BY <1>0, <1>7, <1>a, <2>4, <3>1, OneMoves DEF LoadBatch, TypeInv, Saved
  <2>6. QED
    BY <1>0, <1>7, <2>4, <2>5 DEF LoadBatch, TypeInv, TypeOK, Saved, Places
<1>8. ASSUME NEW h \in Handlers, ExecuteBatch(h) PROVE TypeInv'
  <2>1. PICK v \in 1 .. published : runs' = runs \cup RunsOf(held[h].guards, v, "manual")
    BY <1>8 DEF ExecuteBatch
  <2> DEFINE row == [held[h] EXCEPT !.status = "executed", !.guards = {}]
  <2>2. row \in Held /\ row.batch = held[h].batch /\ held' = [held EXCEPT ![h] = row]
    BY <1>0, <1>8, <1>b DEF ExecuteBatch, TypeOK, Held
  <2>3. pc[h] = "execute" /\ held[h].batch \in DOMAIN batches /\ DOMAIN batches' = DOMAIN batches
    BY <1>0, <1>8 DEF ExecuteBatch, Goto, HandlerInv, Holding
  <2> HIDE DEF row
  <2>4. /\ pc'[h] = "answer" /\ held'[h] = row
        /\ \A k \in Handlers \ {h} : pc'[k] = pc[k] /\ held'[k] = held[k]
        /\ pc' \in [Handlers -> Places] /\ held' \in [Handlers -> Held]
    BY <1>0, <1>8, <2>2 DEF ExecuteBatch, Goto, TypeOK, Places
  <2>5. HandlerInv' /\ BatchesOfTests'
    <3>1. Holding(h)'
      BY <1>8, <2>4, <2>2, <2>3 DEF ExecuteBatch, Holding, Saved, Members
    <3>2. QED
      BY <1>0, <1>8, <1>a, <2>4, <3>1, <2>3, OneMoves DEF ExecuteBatch, TypeInv, Saved
  <2>6. runs' \subseteq Run
    BY <1>0, <1>a, <1>b, <1>8, <2>1 DEF RunsOf, Run, Held, Versions, TypeOK
  <2>7. \A b \in DOMAIN batches' : batches'[b] \in {"generated", "executed"}
    BY <1>0, <1>8, <2>3 DEF ExecuteBatch, TypeOK
  <2>8. QED
    BY <1>0, <1>8, <2>3, <2>4, <2>5, <2>6, <2>7 DEF ExecuteBatch, TypeInv, TypeOK, Saved, Places
<1>9. ASSUME NEW h \in Handlers, RunTest(h) PROVE TypeInv'
  <2>1. PICK t \in Saved, v \in 1 .. published :
          runs' = runs \cup RunsOf({t}, v, "manual") /\ Show({t})
    BY <1>9 DEF RunTest
  <2>2. HandlerInv' /\ BatchesOfTests'
    BY <1>0, <1>9 DEF RunTest, HandlerInv, Holding, BatchesOfTests, Saved, Members
  <2>3. runs' \subseteq Run
    BY <1>0, <1>a, <2>1 DEF RunsOf, Run, Versions, TypeOK, Saved
  <2>4. QED
    BY <1>0, <1>9, <2>1, <2>2, <2>3 DEF RunTest, Show, TypeInv, TypeOK, Saved
<1>10. ASSUME NEW h \in Handlers, LoadTest(h) PROVE TypeInv'
  <2>1. PICK t \in Saved : held' = [held EXCEPT ![h].test = t, ![h].row = tests[t]]
    BY <1>10 DEF LoadTest
  <2> DEFINE row == [held[h] EXCEPT !.test = t, !.row = tests[t]]
  <2>2. row \in Held /\ row.test = t /\ held' = [held EXCEPT ![h] = row]
    BY <1>0, <1>b, <2>1 DEF TypeOK, Held, Saved
  <2> HIDE DEF row
  <2>3. /\ pc'[h] = "review" /\ held'[h] = row
        /\ \A k \in Handlers \ {h} : pc'[k] = pc[k] /\ held'[k] = held[k]
        /\ pc' \in [Handlers -> Places] /\ held' \in [Handlers -> Held]
    BY <1>0, <1>10, <2>2 DEF LoadTest, Goto, TypeOK, Places
  <2>4. HandlerInv' /\ BatchesOfTests'
    <3>1. Holding(h)'
      BY <1>10, <2>3, <2>2 DEF LoadTest, Holding, Saved, Members
    <3>2. QED
      BY <1>0, <1>10, <1>a, <2>3, <3>1, OneMoves DEF LoadTest, TypeInv, Saved
  <2>5. QED
    BY <1>0, <1>10, <2>3, <2>4 DEF LoadTest, TypeInv, TypeOK, Saved, Places
<1>11. ASSUME NEW h \in Handlers, NEW decision \in {"accept", "reject"}, ReviewTest(h, decision)
       PROVE  TypeInv'
  <2>1. held[h].test \in Saved /\ Saved' = Saved
    BY <1>0, <1>11, ReviewChanges
  <2>2. \A u \in Saved : tests'[u] \in Test /\ tests'[u].batch = tests[u].batch
    BY <1>0, <1>11, ReviewChanges
  <2>3. /\ pc'[h] = "idle" /\ held'[h] = Nothing
        /\ \A k \in Handlers \ {h} : pc'[k] = pc[k] /\ held'[k] = held[k]
        /\ pc' \in [Handlers -> Places] /\ held' \in [Handlers -> Held]
    BY <1>0, <1>11, NothingIsHeld DEF ReviewTest, Goto, TypeOK, Places
  <2>4. HandlerInv' /\ BatchesOfTests'
    <3>1. Holding(h)'
      BY <1>11, <2>3 DEF ReviewTest, Holding, Saved, Members
    <3>2. QED
      BY <1>0, <1>11, <1>a, <2>3, <3>1, <2>1, <2>2, OneMoves DEF ReviewTest, TypeInv
  <2>5. guarded' \in [Versions -> SUBSET Saved]
    BY <1>0, <1>11 DEF ReviewTest, TypeOK
  <2>6. shown' \subseteq Saved /\ accepted' \subseteq Saved
    BY <1>0, <1>11, <2>1 DEF ReviewTest, Show, TypeOK
  <2>7. Saved' \subseteq Tests /\ \A u \in Saved' : tests'[u] \in Test
    BY <1>0, <2>1, <2>2 DEF TypeOK, Saved
  <2>8. QED
    BY <1>0, <1>11, <2>1, <2>3, <2>4, <2>5, <2>6, <2>7 DEF ReviewTest, TypeInv, TypeOK, Saved, Places
<1>12. ASSUME NEW h \in Handlers, Publish(h) PROVE TypeInv'
  <2> DEFINE row == [held[h] EXCEPT !.version = published + 1]
  <2>1. row \in Held /\ row.version = published + 1 /\ held' = [held EXCEPT ![h] = row]
    BY <1>0, <1>12, <1>a, <1>b DEF Publish, TypeOK, Held
  <2> HIDE DEF row
  <2>2. published' = published + 1 /\ published' \in 0 .. MaxVersion /\ published + 1 \in 1 .. published'
    BY <1>12, <1>a DEF Publish
  <2>3. /\ pc'[h] = "published" /\ held'[h] = row
        /\ \A k \in Handlers \ {h} : pc'[k] = pc[k] /\ held'[k] = held[k]
        /\ pc' \in [Handlers -> Places] /\ held' \in [Handlers -> Held]
    BY <1>0, <1>12, <2>1 DEF Publish, Goto, TypeOK, Places
  <2>4. HandlerInv' /\ BatchesOfTests'
    <3>1. Holding(h)'
      BY <1>12, <2>3, <2>1, <2>2 DEF Publish, Holding, Saved, Members
    <3>2. QED
      BY <1>0, <1>12, <1>a, <2>3, <3>1, <2>2, OneMoves DEF Publish, TypeInv, Saved
  <2>5. Guards \subseteq Saved
    BY DEF Guards
  <2>6. QED
    BY <1>0, <1>12, <2>2, <2>3, <2>4, <2>5 DEF Publish, TypeInv, TypeOK, Saved, Places
<1>13. ASSUME NEW h \in Handlers, ListGuards(h) PROVE TypeInv'
  <2> DEFINE row == [held[h] EXCEPT !.guards = Guards]
  <2>1. Guards \subseteq Saved /\ Saved \subseteq Tests
    BY <1>0 DEF Guards, TypeOK, Saved
  <2>2. /\ row \in Held /\ row.guards = Guards /\ row.version = held[h].version
        /\ held' = [held EXCEPT ![h] = row]
    BY <1>0, <1>13, <1>b, <2>1 DEF ListGuards, TypeOK, Held
  <2>3. held[h].version \in 1 .. published
    BY <1>0, <1>13 DEF ListGuards, Goto, HandlerInv, Holding
  <2> HIDE DEF row
  <2>4. /\ pc'[h] = "rerun" /\ held'[h] = row
        /\ \A k \in Handlers \ {h} : pc'[k] = pc[k] /\ held'[k] = held[k]
        /\ pc' \in [Handlers -> Places] /\ held' \in [Handlers -> Held]
    BY <1>0, <1>13, <2>2 DEF ListGuards, Goto, TypeOK, Places
  <2>5. HandlerInv' /\ BatchesOfTests'
    <3>1. Holding(h)'
      BY <1>13, <2>4, <2>1, <2>2, <2>3 DEF ListGuards, Holding, Saved, Members
    <3>2. QED
      BY <1>0, <1>13, <1>a, <2>4, <3>1, OneMoves DEF ListGuards, TypeInv, Saved
  <2>6. QED
    BY <1>0, <1>13, <2>4, <2>5 DEF ListGuards, TypeInv, TypeOK, Saved, Places
<1>14. ASSUME NEW h \in Handlers, Rerun(h) PROVE TypeInv'
  <2>1. /\ pc'[h] = "idle" /\ held'[h] = Nothing
        /\ \A k \in Handlers \ {h} : pc'[k] = pc[k] /\ held'[k] = held[k]
        /\ pc' \in [Handlers -> Places] /\ held' \in [Handlers -> Held]
    BY <1>0, <1>14, NothingIsHeld DEF Rerun, Goto, TypeOK, Places
  <2>2. HandlerInv' /\ BatchesOfTests'
    <3>1. Holding(h)'
      BY <1>14, <2>1 DEF Rerun, Holding, Saved, Members
    <3>2. QED
      BY <1>0, <1>14, <1>a, <2>1, <3>1, OneMoves DEF Rerun, TypeInv, Saved
  <2>3. held[h].version \in Versions /\ held[h].guards \subseteq Tests
    BY <1>0, <1>14, <1>a, <1>b DEF Rerun, Goto, HandlerInv, Holding, Versions, Held, TypeOK
  <2>4. runs' \subseteq Run
    BY <1>0, <1>14, <2>3 DEF Rerun, RunsOf, Run, TypeOK
  <2>5. QED
    BY <1>0, <1>14, <2>1, <2>2, <2>3, <2>4 DEF Rerun, TypeInv, TypeOK, Saved, Places
<1>15. ASSUME NEW h \in Handlers, Abandon(h) PROVE TypeInv'
  <2>1. /\ pc'[h] = "idle" /\ held'[h] = Nothing
        /\ \A k \in Handlers \ {h} : pc'[k] = pc[k] /\ held'[k] = held[k]
        /\ pc' \in [Handlers -> Places] /\ held' \in [Handlers -> Held]
    BY <1>0, <1>15, NothingIsHeld DEF Abandon, TypeOK, Places
  <2>2. HandlerInv' /\ BatchesOfTests'
    <3>1. Holding(h)'
      BY <1>15, <2>1 DEF Abandon, Holding, Saved, Members
    <3>2. QED
      BY <1>0, <1>15, <1>a, <2>1, <3>1, OneMoves DEF Abandon, TypeInv, Saved
  <2>3. QED
    BY <1>0, <1>15, <2>1, <2>2 DEF Abandon, TypeInv, TypeOK, Saved, Places
<1>16. CASE UNCHANGED vars
  <2>1. HandlerInv' /\ BatchesOfTests'
    BY <1>0, <1>16 DEF vars, HandlerInv, Holding, BatchesOfTests, Saved, Members
  <2>2. TypeOK'
    BY <1>0, <1>16 DEF vars, TypeOK, Saved
  <2>3. QED
    BY <2>1, <2>2 DEF TypeInv
<1>17. QED
  BY <1>1, <1>2, <1>3, <1>4, <1>5, <1>6, <1>7, <1>8, <1>9, <1>10, <1>11, <1>12, <1>13,
     <1>14, <1>15, <1>16 DEF Next

LEMMA TypeInvariant == Spec => []TypeInv
BY TypeInit, TypeStep, PTL DEF Spec

\* Every variable keeps its type: tests are never deleted, so what a review or a batch
\* was loaded for is still there when it is written (review_policy_test,
\* run_validation_batch).
THEOREM TypeCorrect == Spec => []TypeOK
<1>1. TypeInv => TypeOK
  BY DEF TypeInv
<1>2. QED
  BY <1>1, TypeInvariant, PTL

-----------------------------------------------------------------------------
(* What only grows, whoever moves.                                              *)

Grows ==
  /\ Saved \subseteq Saved' /\ DOMAIN batches \subseteq DOMAIN batches'
  /\ runs \subseteq runs' /\ accepted \subseteq accepted'
  /\ \A t \in Saved : /\ tests'[t].by = tests[t].by
                      /\ tests'[t].batch = tests[t].batch
                      /\ tests[t].review # "pending_review" => tests'[t].review # "pending_review"
  /\ \A t \in Saved' \ Saved : tests'[t].batch \notin DOMAIN batches

LEMMA InsertGrows ==
  ASSUME TypeOK, NEW S \in SUBSET Free, NEW row \in Test, Insert(S, row),
         row.batch \notin DOMAIN batches, DOMAIN batches \subseteq DOMAIN batches',
         runs' = runs, accepted' = accepted
  PROVE  Grows
BY Inserted DEF Grows

LEMMA StepGrows == TypeInv /\ [Next]_vars => Grows
<1> SUFFICES ASSUME TypeInv, [Next]_vars PROVE Grows
  OBVIOUS
<1>0. TypeOK /\ HandlerInv /\ None \notin DOMAIN batches
  BY PolicyTestsAssumption DEF TypeInv, TypeOK
<1>1. ASSUME NEW h \in Handlers, CreateTest(h) PROVE Grows
  <2>1. PICK t \in Free : Insert({t}, HumanTest)
    BY <1>1 DEF CreateTest
  <2>2. HumanTest \in Test /\ HumanTest.batch = None /\ {t} \in SUBSET Free
    BY <2>1, RowsOfTests DEF HumanTest
  <2>3. QED
    BY <1>0, <1>1, <2>1, <2>2, InsertGrows DEF CreateTest
<1>2. ASSUME NEW h \in Handlers, ProposeTests(h) PROVE Grows
  <2>1. PICK S \in SUBSET Free : Insert(S, Proposal(None))
    BY <1>2 DEF ProposeTests
  <2>2. Proposal(None) \in Test /\ Proposal(None).batch = None
    BY RowsOfTests DEF Proposal
  <2>3. QED
    BY <1>0, <1>2, <2>1, <2>2, InsertGrows DEF ProposeTests
<1>3. ASSUME NEW h \in Handlers, GenerateBatch(h) PROVE Grows
  <2>1. PICK b \in Batches \ DOMAIN batches, S \in SUBSET Free :
          Insert(S, Proposal(b)) /\ DOMAIN batches' = DOMAIN batches \cup {b}
    BY <1>3 DEF GenerateBatch
  <2>2. Proposal(b) \in Test /\ Proposal(b).batch = b
    BY RowsOfTests DEF Proposal
  <2>3. QED
    BY <1>0, <1>3, <2>1, <2>2, InsertGrows DEF GenerateBatch
<1>4. ASSUME NEW h \in Handlers, NEW decision \in {"accept", "reject"}, ReviewTest(h, decision)
      PROVE  Grows
  <2> DEFINE t == held[h].test
             verdict == IF decision = "accept" THEN "active" ELSE "rejected"
  <2>1. /\ t \in Saved /\ Saved' = Saved
        /\ \A u \in Saved : u # t => tests'[u] = tests[u]
        /\ tests'[t] = Reviewed(h, t, verdict, decision = "accept")
        /\ \A u \in Saved : tests'[u].by = tests[u].by /\ tests'[u].batch = tests[u].batch
    BY <1>0, <1>4, ReviewChanges
  <2>2. pc[h] = "review" /\ verdict \in {"active", "rejected"} /\ (decision = "accept") \in BOOLEAN
    BY <1>4 DEF ReviewTest, Goto
  <2>3. tests'[t].review = Assign(tests[t].review, held[h].row.review, verdict)
    BY <1>0, <2>1, <2>2, ReviewedRow
  <2>4. tests[t].review # "pending_review" => tests'[t].review # "pending_review"
    BY <2>2, <2>3 DEF Assign
  <2>5. QED
    BY <1>4, <2>1, <2>4 DEF ReviewTest, Grows
<1>5. ASSUME tests' = tests, DOMAIN batches' = DOMAIN batches, runs \subseteq runs',
             accepted' = accepted
      PROVE  Grows
  BY <1>5 DEF Grows, Saved
<1>6. ASSUME NEW h \in Handlers,
             \/ ListTests(h) \/ ListBatch(h) \/ AnswerBatch(h) \/ LoadBatch(h)
             \/ ExecuteBatch(h) \/ RunTest(h) \/ LoadTest(h)
             \/ Publish(h) \/ ListGuards(h) \/ Rerun(h) \/ Abandon(h)
      PROVE  Grows
  BY <1>5, <1>6 DEF ListTests, ListBatch, AnswerBatch, LoadBatch, ExecuteBatch, RunTest,
     LoadTest, Publish, ListGuards, Rerun, Abandon
<1>7. CASE UNCHANGED vars
  BY <1>5, <1>7 DEF vars
<1>8. QED
  BY <1>1, <1>2, <1>3, <1>4, <1>6, <1>7 DEF Next

\* The members of a batch and the runs of a test, therefore.
LEMMA MembersStay ==
  ASSUME Grows
  PROVE  /\ \A b \in DOMAIN batches : Members(b)' = Members(b)
         /\ \A t : HasRun(t) => HasRun(t)'
BY DEF Grows, Members, HasRun

-----------------------------------------------------------------------------
(* What is sealed stays sealed until it was run.                                *)

\* A batch that says executed has had a run of each of its tests.
Executed(b) == batches[b] = "executed" => \A t \in Members(b) : HasRun(t)

\* So has one that a handler has loaded as executed; and a test that was loaded as
\* decided is decided.
Sees(h) ==
  /\ pc[h] = "answer" /\ held[h].status = "executed" =>
       \A t \in Members(held[h].batch) : HasRun(t)
  /\ pc[h] = "review" /\ held[h].row.review # "pending_review" =>
       tests[held[h].test].review # "pending_review"

BlindInv ==
  /\ \A b \in DOMAIN batches : Executed(b)
  /\ \A h \in Handlers : Sees(h)
  /\ BlindUntilRun

\* Whatever nobody touches stays as it is.
LEMMA BlindStays ==
  ASSUME TypeInv, BlindInv, Grows
  PROVE  /\ \A b \in DOMAIN batches : batches'[b] = batches[b] => Executed(b)'
         /\ \A h \in Handlers : pc'[h] = pc[h] /\ held'[h] = held[h] => Sees(h)'
         /\ \A t \in shown : HasRun(t)' \/ tests'[t].review # "pending_review"
<1>1. ASSUME NEW b \in DOMAIN batches, batches'[b] = batches[b] PROVE Executed(b)'
  BY <1>1, MembersStay DEF BlindInv, Executed
<1>2. ASSUME NEW h \in Handlers, pc'[h] = pc[h], held'[h] = held[h] PROVE Sees(h)'
  <2>1. Holding(h) /\ Sees(h)
    BY DEF TypeInv, HandlerInv, BlindInv
  <2>2. QED
    BY <1>2, <2>1, MembersStay DEF Holding, Sees, Grows
<1>3. ASSUME NEW t \in shown PROVE HasRun(t)' \/ tests'[t].review # "pending_review"
  BY MembersStay DEF BlindInv, BlindUntilRun, Grows, TypeInv, TypeOK
<1>4. QED
  BY <1>1, <1>2, <1>3

\* What a response shows of a batch has been run.
LEMMA RevealedWasRun ==
  ASSUME BlindInv, NEW h \in Handlers, pc[h] = "answer", NEW t \in Revealed(h)
  PROVE  HasRun(t)
<1>1. Sees(h)
  BY DEF BlindInv
<1>2. QED
  BY <1>1 DEF Revealed, Sees

LEMMA BlindInit == Init => BlindInv
BY DEF Init, BlindInv, BlindUntilRun, Sees

LEMMA BlindStep == TypeInv /\ BlindInv /\ [Next]_vars => BlindInv'
<1> SUFFICES ASSUME TypeInv, BlindInv, [Next]_vars PROVE BlindInv'
  OBVIOUS
<1>0. TypeOK /\ HandlerInv /\ BatchesOfTests
  BY DEF TypeInv
<1>g. Grows
  BY StepGrows
<1>s. /\ \A b \in DOMAIN batches : batches'[b] = batches[b] => Executed(b)'
      /\ \A k \in Handlers : pc'[k] = pc[k] /\ held'[k] = held[k] => Sees(k)'
      /\ \A t \in shown : HasRun(t)' \/ tests'[t].review # "pending_review"
  BY <1>g, BlindStays
<1>m. /\ \A b \in DOMAIN batches : Members(b)' = Members(b)
      /\ \A t : HasRun(t) => HasRun(t)'
  BY <1>g, MembersStay
\* The handler that moves sees what it may; the batches and what was shown follow.
<1>o. ASSUME NEW h \in Handlers, batches' = batches,
             \A k \in Handlers \ {h} : pc'[k] = pc[k] /\ held'[k] = held[k],
             Sees(h)',
             \A t \in shown' \ shown : HasRun(t)' \/ tests'[t].review # "pending_review"
      PROVE  BlindInv'
  <2>1. \A k \in Handlers : Sees(k)'
    BY <1>o, <1>s
  <2>2. \A b \in DOMAIN batches' : Executed(b)'
    BY <1>o, <1>s
  <2>3. BlindUntilRun'
    BY <1>o, <1>s DEF BlindUntilRun
  <2>4. QED
    BY <2>1, <2>2, <2>3 DEF BlindInv
<1>1. ASSUME NEW h \in Handlers, CreateTest(h) \/ ProposeTests(h) PROVE BlindInv'
  <2>1. batches' = batches /\ pc' = pc /\ held' = held /\ shown' = shown
    BY <1>1 DEF CreateTest, ProposeTests
  <2>2. QED
    BY <2>1, <1>o, <1>s
<1>2. ASSUME NEW h \in Handlers, GenerateBatch(h) PROVE BlindInv'
  <2>1. PICK b \in Batches \ DOMAIN batches :
          /\ batches' = [c \in DOMAIN batches \cup {b} |->
                           IF c = b THEN "generated" ELSE batches[c]]
          /\ held' = [held EXCEPT ![h].batch = b, ![h].status = "generated"]
    BY <1>2 DEF GenerateBatch
  <2>2. held'[h].status = "generated" /\ pc'[h] = "answer"
    BY <1>0, <1>2, <2>1 DEF GenerateBatch, Goto, TypeOK, Held
  <2>3. \A k \in Handlers \ {h} : pc'[k] = pc[k] /\ held'[k] = held[k]
    BY <1>0, <1>2, <2>1 DEF GenerateBatch, Goto, TypeOK
  <2>4. \A c \in DOMAIN batches' : Executed(c)'
    <3>1. ASSUME NEW c \in DOMAIN batches PROVE Executed(c)'
      BY <1>s, <2>1, <3>1
    <3>2. Executed(b)'
      BY <2>1 DEF Executed
    <3>3. QED
      BY <2>1, <3>1, <3>2
  <2>5. \A k \in Handlers : Sees(k)'
    BY <1>s, <2>2, <2>3 DEF Sees
  <2>6. BlindUntilRun'
    BY <1>2, <1>s DEF GenerateBatch, BlindUntilRun
  <2>7. QED
    BY <2>4, <2>5, <2>6 DEF BlindInv
<1>3. ASSUME NEW h \in Handlers, ListTests(h) PROVE BlindInv'
  <2>1. batches' = batches /\ pc' = pc /\ held' = held
    BY <1>3 DEF ListTests
  <2>2. \A t \in shown' \ shown : HasRun(t)
    BY <1>3 DEF ListTests, Show
  <2>3. QED
    BY <1>m, <1>o, <1>s, <2>1, <2>2
<1>4. ASSUME NEW h \in Handlers, ListBatch(h) PROVE BlindInv'
  <2>1. PICK b \in DOMAIN batches :
          held' = [held EXCEPT ![h].batch = b, ![h].status = batches[b]]
    BY <1>4 DEF ListBatch
  <2>2. /\ pc'[h] = "answer" /\ held'[h].batch = b /\ held'[h].status = batches[b]
        /\ \A k \in Handlers \ {h} : pc'[k] = pc[k] /\ held'[k] = held[k]
        /\ batches' = batches /\ shown' = shown
    BY <1>0, <1>4, <2>1 DEF ListBatch, Goto, TypeOK, Held
  <2>3. Executed(b)
    BY <2>1 DEF BlindInv
  <2>4. Sees(h)'
    BY <1>m, <2>1, <2>2, <2>3 DEF Executed, Sees
  <2>5. QED
    BY <1>o, <2>2, <2>4
<1>5. ASSUME NEW h \in Handlers, AnswerBatch(h) PROVE BlindInv'
  <2>1. /\ pc[h] = "answer" /\ pc'[h] = "idle" /\ batches' = batches
        /\ \A k \in Handlers \ {h} : pc'[k] = pc[k] /\ held'[k] = held[k]
    BY <1>0, <1>5 DEF AnswerBatch, Goto, TypeOK
  <2>2. \A t \in shown' \ shown : HasRun(t)
    BY <1>5, <2>1, RevealedWasRun DEF AnswerBatch, Show
  <2>3. Sees(h)'
    BY <2>1 DEF Sees
  <2>4. QED
    BY <1>m, <1>o, <2>1, <2>2, <2>3
<1>6. ASSUME NEW h \in Handlers, ExecuteBatch(h) PROVE BlindInv'
  <2> DEFINE b == held[h].batch
  <2>1. /\ pc[h] = "execute" /\ pc'[h] = "answer" /\ held'[h].batch = b
        /\ \A k \in Handlers \ {h} : pc'[k] = pc[k] /\ held'[k] = held[k]
        /\ shown' = shown
    BY <1>0, <1>6 DEF ExecuteBatch, Goto, TypeOK, Held
  <2>2. b \in DOMAIN batches /\ held[h].guards = Members(b)
    BY <1>0, <2>1 DEF HandlerInv, Holding
  <2>3. PICK v \in 1 .. published : runs' = runs \cup RunsOf(Members(b), v, "manual")
    BY <1>6, <2>2 DEF ExecuteBatch
  <2>4. \A t \in Members(b) : HasRun(t)'
    <3>1. ASSUME NEW t \in Members(b) PROVE HasRun(t)'
      <4>1. [test |-> t, version |-> v, trigger |-> "manual"] \in runs'
        BY <2>3 DEF RunsOf
      <4>2. QED
        BY <4>1 DEF HasRun
    <3>2. QED
      BY <3>1
  <2>5. \A k \in Handlers : Sees(k)'
    BY <1>m, <1>s, <2>1, <2>2, <2>4 DEF Sees
  <2>6. \A c \in DOMAIN batches' : Executed(c)'
    <3>1. ASSUME NEW c \in DOMAIN batches, c # b PROVE Executed(c)'
      BY <1>6, <1>s, <3>1 DEF ExecuteBatch
    <3>2. ASSUME NEW c \in DOMAIN batches, c = b PROVE Executed(c)'
      BY <1>m, <2>2, <2>4, <3>2 DEF Executed
    <3>3. DOMAIN batches' = DOMAIN batches
      BY <1>6 DEF ExecuteBatch
    <3>4. QED
      BY <3>1, <3>2, <3>3
  <2>7. BlindUntilRun'
    BY <1>s, <2>1 DEF BlindUntilRun
  <2>8. QED
    BY <2>5, <2>6, <2>7 DEF BlindInv
<1>7. ASSUME NEW h \in Handlers, RunTest(h) PROVE BlindInv'
  <2>1. PICK u \in Saved, v \in 1 .. published :
          runs' = runs \cup RunsOf({u}, v, "manual") /\ Show({u})
    BY <1>7 DEF RunTest
  <2>2. [test |-> u, version |-> v, trigger |-> "manual"] \in runs'
    BY <2>1 DEF RunsOf
  <2>3. \A t \in shown' \ shown : HasRun(t)'
    BY <2>1, <2>2 DEF HasRun, Show
  <2>4. batches' = batches /\ pc' = pc /\ held' = held
    BY <1>7 DEF RunTest
  <2>5. QED
    BY <1>o, <1>s, <2>3, <2>4
<1>8. ASSUME NEW h \in Handlers, LoadTest(h) PROVE BlindInv'
  <2>1. PICK t \in Saved : held' = [held EXCEPT ![h].test = t, ![h].row = tests[t]]
    BY <1>8 DEF LoadTest
  <2>2. /\ pc'[h] = "review" /\ held'[h].test = t /\ held'[h].row = tests[t]
        /\ \A k \in Handlers \ {h} : pc'[k] = pc[k] /\ held'[k] = held[k]
        /\ batches' = batches /\ shown' = shown /\ tests' = tests
    BY <1>0, <1>8, <2>1 DEF LoadTest, Goto, TypeOK, Held
  <2>3. Sees(h)'
    BY <2>2 DEF Sees
  <2>4. QED
    BY <1>o, <2>2, <2>3
<1>9. ASSUME NEW h \in Handlers, NEW decision \in {"accept", "reject"}, ReviewTest(h, decision)
      PROVE  BlindInv'
  <2> DEFINE t == held[h].test
             verdict == IF decision = "accept" THEN "active" ELSE "rejected"
  <2>1. /\ pc[h] = "review" /\ pc'[h] = "idle" /\ batches' = batches /\ Show({t})
        /\ \A k \in Handlers \ {h} : pc'[k] = pc[k] /\ held'[k] = held[k]
    BY <1>0, <1>9 DEF ReviewTest, Goto, TypeOK
  <2>2. verdict \in {"active", "rejected"} /\ (decision = "accept") \in BOOLEAN
    OBVIOUS
  <2>3. tests'[t] = Reviewed(h, t, verdict, decision = "accept")
    BY <1>0, <1>9, ReviewChanges
  <2>4. tests'[t].review = Assign(tests[t].review, held[h].row.review, verdict)
    BY <1>0, <2>1, <2>2, <2>3, ReviewedRow
  <2>5. Sees(h)
    BY DEF BlindInv
  <2>6. tests'[t].review # "pending_review"
    BY <2>1, <2>2, <2>4, <2>5 DEF Assign, Sees
  <2>7. \A u \in shown' \ shown : u = t
    BY <2>1 DEF Show
  <2>8. Sees(h)'
    BY <2>1 DEF Sees
  <2>9. QED
    BY <1>o, <2>1, <2>6, <2>7, <2>8
<1>10. ASSUME NEW h \in Handlers,
              LoadBatch(h) \/ Publish(h) \/ ListGuards(h) \/ Rerun(h) \/ Abandon(h)
       PROVE  BlindInv'
  <2>1. /\ pc'[h] \notin {"answer", "review"} /\ batches' = batches /\ shown' = shown
        /\ \A k \in Handlers \ {h} : pc'[k] = pc[k] /\ held'[k] = held[k]
    BY <1>0, <1>10 DEF LoadBatch, Publish, ListGuards, Rerun, Abandon, Goto, TypeOK
  <2>2. Sees(h)'
    BY <2>1 DEF Sees
  <2>3. QED
    BY <1>o, <2>1, <2>2
<1>11. CASE UNCHANGED vars
  <2>1. batches' = batches /\ shown' = shown /\ pc' = pc /\ held' = held
    BY <1>11 DEF vars
  <2>2. QED
    BY <1>s, <2>1 DEF BlindInv, BlindUntilRun
<1>12. QED
  BY <1>1, <1>2, <1>3, <1>4, <1>5, <1>6, <1>7, <1>8, <1>9, <1>10, <1>11 DEF Next

\* No response holds what a sealed scenario is expected to give before a run of it is
\* committed or a person has decided about it, for any number of requests that generate,
\* list, run and review side by side (_batch_to_response, list_policy_tests).
THEOREM SealedUntilRun == Spec => []BlindUntilRun
<1>1. Spec => [](TypeInv /\ BlindInv)
  BY TypeInit, TypeStep, BlindInit, BlindStep, PTL DEF Spec
<1>2. BlindInv => BlindUntilRun
  BY DEF BlindInv
<1>3. QED
  BY <1>1, <1>2, PTL

-----------------------------------------------------------------------------
(* Nobody's proposal guards a publication.                                      *)

\* A person wrote the test or accepted it.
Trusted(t) == t \in Saved /\ (tests[t].by = "human" \/ t \in accepted)

TrustInv ==
  /\ \A t \in Guards : Trusted(t)
  /\ \A h \in Handlers : pc[h] = "rerun" => \A t \in held[h].guards : Trusted(t)
  /\ \A r \in runs : r.trigger = "on_publish" => Trusted(r.test)

LEMMA TrustInit == Init => TrustInv
BY DEF Init, TrustInv, Guards, Saved

\* Whom a person trusts stays trusted.
LEMMA TrustStays ==
  ASSUME TrustInv, Grows
  PROVE  /\ \A t : Trusted(t) => Trusted(t)'
         /\ \A r \in runs : r.trigger = "on_publish" => Trusted(r.test)'
         /\ \A h \in Handlers :
              pc'[h] = pc[h] /\ held'[h] = held[h] /\ pc'[h] = "rerun" =>
                \A t \in held'[h].guards : Trusted(t)'
<1>1. \A t : Trusted(t) => Trusted(t)'
  BY DEF Grows, Trusted
<1>2. QED
  BY <1>1 DEF TrustInv

LEMMA TrustStep == TypeInv /\ TrustInv /\ [Next]_vars => TrustInv'
<1> SUFFICES ASSUME TypeInv, TrustInv, [Next]_vars PROVE TrustInv'
  OBVIOUS
<1>0. TypeOK /\ HandlerInv
  BY DEF TypeInv
<1>g. Grows
  BY StepGrows
<1>s. /\ \A t : Trusted(t) => Trusted(t)'
      /\ \A r \in runs : r.trigger = "on_publish" => Trusted(r.test)'
      /\ \A k \in Handlers :
           pc'[k] = pc[k] /\ held'[k] = held[k] /\ pc'[k] = "rerun" =>
             \A t \in held'[k].guards : Trusted(t)'
  BY <1>g, TrustStays
\* What a step has to show: that the guards it makes are trusted, those its handler
\* lists, and those it runs after a publication.
<1>o. ASSUME NEW h \in Handlers,
             \A k \in Handlers \ {h} : pc'[k] = pc[k] /\ held'[k] = held[k],
             \A t \in Guards' : t \in Guards \/ Trusted(t)',
             pc'[h] = "rerun" => \A t \in held'[h].guards : Trusted(t)',
             \A r \in runs' \ runs : r.trigger = "on_publish" => Trusted(r.test)'
      PROVE  TrustInv'
  <2>1. \A t \in Guards' : Trusted(t)'
    BY <1>o, <1>s DEF TrustInv
  <2>2. \A k \in Handlers : pc'[k] = "rerun" => \A t \in held'[k].guards : Trusted(t)'
    BY <1>o, <1>s
  <2>3. \A r \in runs' : r.trigger = "on_publish" => Trusted(r.test)'
    BY <1>o, <1>s
  <2>4. QED
    BY <2>1, <2>2, <2>3 DEF TrustInv
<1>1. ASSUME NEW h \in Handlers, CreateTest(h) PROVE TrustInv'
  <2>1. PICK u \in Free : Insert({u}, HumanTest)
    BY <1>1 DEF CreateTest
  <2>2. /\ Saved' = Saved \cup {u}
        /\ \A t \in Saved : tests'[t] = tests[t]
        /\ tests'[u] = HumanTest
    BY <1>0, <2>1, RowsOfTests, Inserted, {u} \in SUBSET Free
  <2>3. \A t \in Guards' : t \in Guards \/ Trusted(t)'
    BY <2>2 DEF Guards, Trusted, HumanTest
  <2>4. pc' = pc /\ held' = held /\ runs' = runs
    BY <1>1 DEF CreateTest
  <2>5. QED
    BY <1>o, <1>s, <2>3, <2>4
\* A proposal guards nothing.
<1>2. ASSUME NEW b \in Batches \cup {None}, NEW S \in SUBSET Free, Insert(S, Proposal(b))
      PROVE  Guards' = Guards
  <2>1. Proposal(b) \in Test /\ Proposal(b).active = FALSE
    BY RowsOfTests DEF Proposal
  <2>2. /\ Saved' = Saved \cup S
        /\ \A t \in Saved : tests'[t] = tests[t]
        /\ \A t \in S : t \notin Saved /\ tests'[t] = Proposal(b)
    BY <1>0, <1>2, <2>1, Inserted
  <2>3. QED
    BY <2>1, <2>2 DEF Guards
<1>3. ASSUME NEW h \in Handlers, ProposeTests(h) PROVE TrustInv'
  <2>1. Guards' = Guards
    BY <1>2, <1>3 DEF ProposeTests
  <2>2. pc' = pc /\ held' = held /\ runs' = runs
    BY <1>3 DEF ProposeTests
  <2>3. QED
    BY <1>o, <1>s, <2>1, <2>2
<1>4. ASSUME NEW h \in Handlers, GenerateBatch(h) PROVE TrustInv'
  <2>1. Guards' = Guards
    BY <1>2, <1>4 DEF GenerateBatch
  <2>2. /\ pc'[h] = "answer" /\ runs' = runs
        /\ \A k \in Handlers \ {h} : pc'[k] = pc[k] /\ held'[k] = held[k]
    BY <1>0, <1>4 DEF GenerateBatch, Goto, TypeOK
  <2>3. QED
    BY <1>o, <2>1, <2>2
<1>5. ASSUME NEW h \in Handlers, NEW decision \in {"accept", "reject"}, ReviewTest(h, decision)
      PROVE  TrustInv'
  <2> DEFINE t == held[h].test
             verdict == IF decision = "accept" THEN "active" ELSE "rejected"
  <2>1. /\ t \in Saved /\ Saved' = Saved
        /\ \A u \in Saved : u # t => tests'[u] = tests[u]
        /\ tests'[t] = Reviewed(h, t, verdict, decision = "accept")
    BY <1>0, <1>5, ReviewChanges
  <2>2. /\ pc[h] = "review" /\ pc'[h] = "idle" /\ runs' = runs
        /\ verdict \in {"active", "rejected"} /\ (decision = "accept") \in BOOLEAN
        /\ accepted' = IF decision = "accept" THEN accepted \cup {t} ELSE accepted
        /\ \A k \in Handlers \ {h} : pc'[k] = pc[k] /\ held'[k] = held[k]
    BY <1>0, <1>5 DEF ReviewTest, Goto, TypeOK
  <2>3. tests'[t].active = Assign(tests[t].active, held[h].row.active, decision = "accept")
    BY <1>0, <2>1, <2>2, ReviewedRow
  <2>4. tests'[t].active => tests[t].active \/ t \in accepted'
    BY <2>2, <2>3 DEF Assign
  <2>5. \A u \in Guards' : u \in Guards \/ Trusted(u)'
    BY <2>1, <2>4 DEF Guards, Trusted
  <2>6. QED
    BY <1>o, <2>2, <2>5
<1>6. ASSUME NEW h \in Handlers, ListGuards(h) PROVE TrustInv'
  <2>1. /\ held'[h].guards = Guards /\ runs' = runs /\ tests' = tests
        /\ \A k \in Handlers \ {h} : pc'[k] = pc[k] /\ held'[k] = held[k]
    BY <1>0, <1>6 DEF ListGuards, Goto, TypeOK, Held
  <2>2. Guards' = Guards
    BY <2>1 DEF Guards, Saved
  <2>3. \A t \in Guards : Trusted(t)'
    BY <1>s DEF TrustInv
  <2>4. QED
    BY <1>o, <2>1, <2>2, <2>3
<1>7. ASSUME NEW h \in Handlers, Rerun(h) PROVE TrustInv'
  <2>1. /\ pc[h] = "rerun" /\ pc'[h] = "idle" /\ tests' = tests
        /\ runs' = runs \cup RunsOf(held[h].guards, held[h].version, "on_publish")
        /\ \A k \in Handlers \ {h} : pc'[k] = pc[k] /\ held'[k] = held[k]
    BY <1>0, <1>7 DEF Rerun, Goto, TypeOK
  <2>2. Guards' = Guards
    BY <2>1 DEF Guards, Saved
  <2>3. \A r \in runs' \ runs : Trusted(r.test)'
    <3>1. \A r \in runs' \ runs : r.test \in held[h].guards
      BY <2>1 DEF RunsOf
    <3>2. QED
      BY <1>s, <2>1, <3>1 DEF TrustInv
  <2>4. QED
    BY <1>o, <2>1, <2>2, <2>3
\* Runs that a caller asks for are not the publication's.
<1>8. ASSUME NEW S, NEW v, runs' = runs \cup RunsOf(S, v, "manual")
      PROVE  \A r \in runs' \ runs : r.trigger # "on_publish"
  BY <1>8 DEF RunsOf
<1>9. ASSUME NEW h \in Handlers, ExecuteBatch(h) \/ RunTest(h) PROVE TrustInv'
  <2>1. \A r \in runs' \ runs : r.trigger # "on_publish"
    BY <1>8, <1>9 DEF ExecuteBatch, RunTest
  <2>2. /\ tests' = tests
        /\ pc'[h] # "rerun" \/ (pc' = pc /\ held' = held)
        /\ \A k \in Handlers \ {h} : pc'[k] = pc[k] /\ held'[k] = held[k]
    <3>1. CASE ExecuteBatch(h)
      BY <1>0, <3>1 DEF ExecuteBatch, Goto, TypeOK
    <3>2. CASE RunTest(h)
      BY <3>2 DEF RunTest
    <3>3. QED
      BY <1>9, <3>1, <3>2
  <2>3. Guards' = Guards
    BY <2>2 DEF Guards, Saved
  <2>4. pc'[h] = "rerun" => \A t \in held'[h].guards : Trusted(t)'
    BY <1>s, <2>2
  <2>5. QED
    BY <1>o, <2>1, <2>2, <2>3, <2>4
<1>10. ASSUME NEW h \in Handlers,
              \/ ListTests(h) \/ ListBatch(h) \/ AnswerBatch(h) \/ LoadBatch(h)
              \/ LoadTest(h) \/ Publish(h) \/ Abandon(h)
       PROVE  TrustInv'
  <2>1. /\ tests' = tests /\ runs' = runs
        /\ pc'[h] # "rerun" \/ (pc' = pc /\ held' = held)
        /\ \A k \in Handlers \ {h} : pc'[k] = pc[k] /\ held'[k] = held[k]
    BY <1>0, <1>10 DEF ListTests, ListBatch, AnswerBatch, LoadBatch, LoadTest, Publish,
       Abandon, Goto, TypeOK
  <2>2. Guards' = Guards
    BY <2>1 DEF Guards, Saved
  <2>3. pc'[h] = "rerun" => \A t \in held'[h].guards : Trusted(t)'
    BY <1>s, <2>1
  <2>4. QED
    BY <1>o, <2>1, <2>2, <2>3
<1>11. CASE UNCHANGED vars
  <2>1. Guards' = Guards /\ pc' = pc /\ held' = held /\ runs' = runs
    BY <1>11 DEF vars, Guards, Saved
  <2>2. QED
    BY <1>s, <2>1 DEF TrustInv
<1>12. QED
  BY <1>1, <1>3, <1>4, <1>5, <1>6, <1>7, <1>9, <1>10, <1>11 DEF Next

\* A model may propose any number of tests at any time and reviewers may decide in any
\* order, a second time and on what they loaded before: what runs after a publication
\* was written or accepted by a person (propose_policy_tests, review_policy_test,
\* run_active_tests_for_version).
THEOREM ProposalsWaitForPeople == Spec => []GuardsAreAcceptedByPeople
<1>1. Spec => [](TypeInv /\ TrustInv)
  BY TypeInit, TypeStep, TrustInit, TrustStep, PTL DEF Spec
<1>2. TrustInv => GuardsAreAcceptedByPeople
  BY DEF TrustInv, Trusted, GuardsAreAcceptedByPeople
<1>3. QED
  BY <1>1, <1>2, PTL

-----------------------------------------------------------------------------
(* The re-run covers what guarded the version.                                  *)

\* What has been active since a publication is active, so the handler of the
\* publication has it once it has listed the guards.
Lists(h) == pc[h] = "rerun" => guarded[held[h].version] \subseteq held[h].guards

CoverInv ==
  /\ \A v \in Versions : guarded[v] \subseteq Guards
  /\ \A h \in Handlers : Lists(h)
  /\ RerunCoversGuards

LEMMA CoverInit == Init => CoverInv
BY DEF Init, CoverInv, Lists, RerunCoversGuards

\* A handler after its publication holds a version that there is.
LEMMA HeldVersions ==
  ASSUME TypeInv, NEW h \in Handlers, pc[h] \in {"published", "rerun"}
  PROVE  held[h].version \in Versions /\ held[h].version \in 1 .. published
BY PolicyTestsAssumption DEF TypeInv, HandlerInv, Holding, Versions, TypeOK

LEMMA CoverStep == TypeInv /\ CoverInv /\ [Next]_vars => CoverInv'
<1> SUFFICES ASSUME TypeInv, CoverInv, [Next]_vars PROVE CoverInv'
  OBVIOUS
<1>0. TypeOK /\ HandlerInv
  BY DEF TypeInv
<1>a. published \in Nat /\ MaxVersion \in Nat
  BY <1>0, PolicyTestsAssumption DEF TypeOK
<1>g. Grows
  BY StepGrows
\* Where what guards a version does not grow, the handlers that stay have listed it,
\* and a version that was done stays so.
<1>o. ASSUME NEW h \in Handlers,
             \A k \in Handlers \ {h} : pc'[k] = pc[k] /\ held'[k] = held[k],
             \A v \in Versions : guarded'[v] \subseteq guarded[v] /\ guarded'[v] \subseteq Guards',
             Lists(h)',
             \A v \in Versions :
               reruns'[v] = "done" =>
                 reruns[v] = "done" \/ RunsOf(guarded'[v], v, "on_publish") \subseteq runs'
      PROVE  CoverInv'
  <2>1. ASSUME NEW k \in Handlers \ {h} PROVE Lists(k)'
    <3>1. Lists(k) /\ (pc[k] = "rerun" => held[k].version \in Versions)
      BY HeldVersions DEF CoverInv
    <3>2. QED
      BY <1>o, <3>1 DEF Lists
  <2>2. ASSUME NEW v \in Versions, reruns'[v] = "done"
        PROVE  RunsOf(guarded'[v], v, "on_publish") \subseteq runs'
    <3>1. CASE reruns[v] = "done"
      <4>1. RunsOf(guarded[v], v, "on_publish") \subseteq runs
        BY <3>1 DEF CoverInv, RerunCoversGuards
      <4>2. RunsOf(guarded'[v], v, "on_publish") \subseteq RunsOf(guarded[v], v, "on_publish")
        BY <1>o DEF RunsOf
      <4>3. QED
        BY <1>g, <4>1, <4>2 DEF Grows
    <3>2. QED
      BY <1>o, <2>2, <3>1
  <2>3. RerunCoversGuards'
    BY <2>2 DEF RerunCoversGuards
  <2>4. QED
    BY <1>o, <2>1, <2>3 DEF CoverInv
\* A new test joins the guards at most: none leaves.
<1>1. ASSUME NEW S \in SUBSET Free, NEW row \in Test, Insert(S, row) PROVE Guards \subseteq Guards'
  BY <1>0, <1>1, Inserted DEF Guards
<1>2. ASSUME NEW h \in Handlers, CreateTest(h) \/ ProposeTests(h) \/ GenerateBatch(h)
      PROVE  CoverInv'
  <2>1. Guards \subseteq Guards'
    <3>1. CASE CreateTest(h)
      BY <1>1, <3>1, RowsOfTests DEF CreateTest
    <3>2. CASE ProposeTests(h)
      BY <1>1, <3>2, RowsOfTests DEF ProposeTests
    <3>3. CASE GenerateBatch(h)
      BY <1>1, <3>3, RowsOfTests DEF GenerateBatch
    <3>4. QED
      BY <1>2, <3>1, <3>2, <3>3
  <2>2. /\ guarded' = guarded /\ reruns' = reruns
        /\ pc'[h] # "rerun"
        /\ \A k \in Handlers \ {h} : pc'[k] = pc[k] /\ held'[k] = held[k]
    BY <1>0, <1>2 DEF CreateTest, ProposeTests, GenerateBatch, Goto, TypeOK
  <2>3. \A v \in Versions : guarded'[v] \subseteq Guards'
    BY <2>1, <2>2 DEF CoverInv
  <2>4. Lists(h)'
    BY <2>2 DEF Lists
  <2>5. QED
    BY <1>o, <2>2, <2>3, <2>4
<1>3. ASSUME NEW h \in Handlers, NEW decision \in {"accept", "reject"}, ReviewTest(h, decision)
      PROVE  CoverInv'
  <2> DEFINE t == held[h].test
  <2>1. t \in Saved /\ Saved' = Saved /\ \A u \in Saved : u # t => tests'[u] = tests[u]
    BY <1>0, <1>3, ReviewChanges
  <2>2. /\ pc'[h] = "idle" /\ reruns' = reruns
        /\ guarded' = [v \in Versions |-> {g \in guarded[v] : g = t => tests'[t].active}]
        /\ \A k \in Handlers \ {h} : pc'[k] = pc[k] /\ held'[k] = held[k]
    BY <1>0, <1>3 DEF ReviewTest, Goto, TypeOK
  <2>3. \A v \in Versions : guarded'[v] \subseteq guarded[v] /\ guarded'[v] \subseteq Guards'
    BY <2>1, <2>2 DEF CoverInv, Guards
  <2>4. Lists(h)'
    BY <2>2 DEF Lists
  <2>5. QED
    BY <1>o, <2>2, <2>3, <2>4
<1>4. ASSUME NEW h \in Handlers, Publish(h) PROVE CoverInv'
  <2>1. published + 1 \in Versions /\ published + 1 \notin 1 .. published
    BY <1>4, <1>a DEF Publish, Versions
  <2>2. Guards' = Guards
    BY <1>4 DEF Publish, Guards, Saved
  <2>3. /\ guarded' = [guarded EXCEPT ![published + 1] = Guards]
        /\ reruns' = [reruns EXCEPT ![published + 1] = "due"] /\ runs' = runs
        /\ pc'[h] = "published"
        /\ \A k \in Handlers \ {h} : pc'[k] = pc[k] /\ held'[k] = held[k]
    BY <1>0, <1>4 DEF Publish, Goto, TypeOK
  <2>4. \A v \in Versions : guarded'[v] \subseteq Guards'
    BY <1>0, <2>2, <2>3 DEF CoverInv, TypeOK
  <2>5. \A v \in Versions : v # published + 1 => guarded'[v] = guarded[v] /\ reruns'[v] = reruns[v]
    BY <1>0, <2>3 DEF TypeOK
  <2>6. \A k \in Handlers : Lists(k)'
    <3>1. ASSUME NEW k \in Handlers \ {h} PROVE Lists(k)'
      <4>1. /\ Lists(k)
            /\ pc[k] = "rerun" => /\ held[k].version \in Versions
                                  /\ held[k].version # published + 1
        BY <2>1, HeldVersions DEF CoverInv
      <4>2. QED
        BY <2>3, <2>5, <4>1 DEF Lists
    <3>2. Lists(h)'
      BY <2>3 DEF Lists
    <3>3. QED
      BY <3>1, <3>2
  <2>7. reruns'[published + 1] # "done"
    BY <1>0, <2>1, <2>3 DEF TypeOK
  <2>8. RerunCoversGuards'
    BY <2>3, <2>5, <2>7 DEF CoverInv, RerunCoversGuards
  <2>9. QED
    BY <2>4, <2>6, <2>8 DEF CoverInv
<1>5. ASSUME NEW h \in Handlers, ListGuards(h) PROVE CoverInv'
  <2>1. /\ held'[h].guards = Guards /\ held'[h].version = held[h].version
        /\ pc[h] = "published" /\ guarded' = guarded /\ reruns' = reruns /\ tests' = tests
        /\ \A k \in Handlers \ {h} : pc'[k] = pc[k] /\ held'[k] = held[k]
    BY <1>0, <1>5 DEF ListGuards, Goto, TypeOK, Held
  <2>2. Guards' = Guards
    BY <2>1 DEF Guards, Saved
  <2>3. held[h].version \in Versions
    BY <2>1, HeldVersions
  <2>4. Lists(h)'
    BY <2>1, <2>3 DEF Lists, CoverInv
  <2>5. \A v \in Versions : guarded'[v] \subseteq Guards'
    BY <2>1, <2>2 DEF CoverInv
  <2>6. QED
    BY <1>o, <2>1, <2>4, <2>5
<1>6. ASSUME NEW h \in Handlers, Rerun(h) PROVE CoverInv'
  <2> DEFINE v == held[h].version
  <2>1. /\ pc[h] = "rerun" /\ pc'[h] = "idle" /\ guarded' = guarded /\ tests' = tests
        /\ runs' = runs \cup RunsOf(held[h].guards, v, "on_publish")
        /\ reruns' = [reruns EXCEPT ![v] = "done"]
        /\ \A k \in Handlers \ {h} : pc'[k] = pc[k] /\ held'[k] = held[k]
    BY <1>0, <1>6 DEF Rerun, Goto, TypeOK
  <2>2. guarded[v] \subseteq held[h].guards
    BY <2>1 DEF CoverInv, Lists
  <2>3. RunsOf(guarded[v], v, "on_publish") \subseteq runs'
    BY <2>1, <2>2 DEF RunsOf
  <2>4. \A w \in Versions : w # v => reruns'[w] = reruns[w]
    BY <1>0, <2>1 DEF TypeOK
  <2>5. Lists(h)'
    BY <2>1 DEF Lists
  <2>6. \A w \in Versions : guarded'[w] \subseteq Guards'
    BY <2>1 DEF CoverInv, Guards, Saved
  <2>7. QED
    BY <1>o, <2>1, <2>3, <2>4, <2>5, <2>6
<1>7. ASSUME NEW h \in Handlers, Abandon(h) PROVE CoverInv'
  <2>1. /\ pc'[h] = "idle" /\ guarded' = guarded /\ tests' = tests
        /\ \A k \in Handlers \ {h} : pc'[k] = pc[k] /\ held'[k] = held[k]
    BY <1>0, <1>7 DEF Abandon, TypeOK
  <2>2. \A v \in Versions : reruns'[v] = "done" => reruns[v] = "done"
    BY <1>0, <1>7 DEF Abandon, TypeOK
  <2>3. Lists(h)'
    BY <2>1 DEF Lists
  <2>4. \A v \in Versions : guarded'[v] \subseteq Guards'
    BY <2>1 DEF CoverInv, Guards, Saved
  <2>5. QED
    BY <1>o, <2>1, <2>2, <2>3, <2>4
<1>8. ASSUME NEW h \in Handlers,
             \/ ListTests(h) \/ ListBatch(h) \/ AnswerBatch(h) \/ LoadBatch(h)
             \/ ExecuteBatch(h) \/ RunTest(h) \/ LoadTest(h)
      PROVE  CoverInv'
  <2>1. /\ tests' = tests /\ guarded' = guarded /\ reruns' = reruns /\ pc'[h] # "rerun"
        /\ \A k \in Handlers \ {h} : pc'[k] = pc[k] /\ held'[k] = held[k]
    BY <1>0, <1>8 DEF ListTests, ListBatch, AnswerBatch, LoadBatch, ExecuteBatch, RunTest,
       LoadTest, Goto, TypeOK
  <2>2. Lists(h)'
    BY <2>1 DEF Lists
  <2>3. \A v \in Versions : guarded'[v] \subseteq Guards'
    BY <2>1 DEF CoverInv, Guards, Saved
  <2>4. QED
    BY <1>o, <2>1, <2>2, <2>3
<1>9. CASE UNCHANGED vars
  <2>1. Guards' = Guards /\ RerunCoversGuards' /\ \A h \in Handlers : Lists(h)'
    BY <1>9 DEF vars, Guards, Saved, CoverInv, Lists, RerunCoversGuards
  <2>2. QED
    BY <1>9, <2>1 DEF vars, CoverInv
<1>10. QED
  BY <1>2, <1>3, <1>4, <1>5, <1>6, <1>7, <1>8, <1>9 DEF Next

\* A publication whose re-run ended well has run every guard that was active all the
\* time since its commit, whatever was created and reviewed while the index was built
\* and the guards were listed (publish_approved_candidates,
\* run_active_tests_for_version).
THEOREM RerunMissesNoGuard == Spec => []RerunCoversGuards
<1>1. Spec => [](TypeInv /\ CoverInv)
  BY TypeInit, TypeStep, CoverInit, CoverStep, PTL DEF Spec
<1>2. CoverInv => RerunCoversGuards
  BY DEF CoverInv
<1>3. QED
  BY <1>1, <1>2, PTL
=============================================================================
