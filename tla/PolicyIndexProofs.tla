-------------------------- MODULE PolicyIndexProofs --------------------------
(***************************************************************************)
(* Proofs about the build slot, for any number of builders, projects,      *)
(* deletions and commit faults, and about the search index of one project, *)
(* whose rebuild is a client of the slot.                                  *)
(***************************************************************************)
EXTENDS PolicyIndex, TLAPS

-----------------------------------------------------------------------------
(* The slot.                                                                 *)

LEMMA RowValues ==
  /\ NoRow \in Row
  /\ Running \in Row
  /\ \A status \in Terminal : Ended(status) \in Row
BY DEF NoRow, Running, Ended, Row, Statuses

\* Every step keeps the type of every variable.
LEMMA SlotTypeStep == SlotTypeOK /\ [SlotNext]_slotVars => SlotTypeOK'
<1> SUFFICES ASSUME SlotTypeOK, [SlotNext]_slotVars PROVE SlotTypeOK'
  OBVIOUS
<1> USE RowValues DEF SlotTypeOK, Terminal, Triggers, InFlight, Goto, CommitOutcomes
<1>1. ASSUME NEW b \in Builders, NEW why \in Triggers, Ask(b, why) PROVE SlotTypeOK'
  BY <1>1 DEF Ask
<1>2. ASSUME NEW b \in Builders, Select(b) PROVE SlotTypeOK'
  BY <1>2 DEF Select, Abandoned
<1>3. ASSUME NEW b \in Builders, Reclaim(b) PROVE SlotTypeOK'
  <2>1. rows' \in [Builders -> Row]
    BY <1>3 DEF Reclaim
  <2>2. stale' \in [Builders -> SUBSET Builders]
    BY <1>3 DEF Reclaim
  <2>3. pc' \in [Builders -> InFlight \cup {"idle", "refused", "done", "error", "lost"}]
    BY <1>3 DEF Reclaim
  <2>4. QED
    BY <1>3, <2>1, <2>2, <2>3 DEF Reclaim
<1>4. ASSUME NEW b \in Builders, ReclaimDeleted(b) PROVE SlotTypeOK'
  BY <1>4 DEF ReclaimDeleted
<1>5. ASSUME NEW b \in Builders, Insert(b) PROVE SlotTypeOK'
  <2>1. rows' \in [Builders -> Row]
    BY <1>5 DEF Insert
  <2>2. lapsed' \subseteq Builders
    BY <1>5 DEF Insert
  <2>3. pc' \in [Builders -> InFlight \cup {"idle", "refused", "done", "error", "lost"}]
    BY <1>5 DEF Insert
  <2>4. view' \in [Builders -> Statuses \cup {"expired"}]
    BY <1>5 DEF Insert, Statuses
  <2>5. QED
    BY <1>5, <2>1, <2>2, <2>3, <2>4 DEF Insert
<1>6. ASSUME NEW b \in Builders, Defer(b) PROVE SlotTypeOK'
  BY <1>6 DEF Defer
<1>7. ASSUME NEW b \in Builders, NEW well \in BOOLEAN, EndRebuild(b, well) PROVE SlotTypeOK'
  BY <1>7 DEF EndRebuild
<1>8. ASSUME NEW b \in Builders, Finish(b) PROVE SlotTypeOK'
  <2>1. rows' \in [Builders -> Row]
    BY <1>8 DEF Finish
  <2>2. pc' \in [Builders -> InFlight \cup {"idle", "refused", "done", "error", "lost"}]
    BY <1>8 DEF Finish
  <2>3. QED
    BY <1>8, <2>1, <2>2 DEF Finish
<1>9. ASSUME NEW b \in Builders, RecordState(b) PROVE SlotTypeOK'
  BY <1>9 DEF RecordState
<1>10. ASSUME NEW b \in Builders, Work(b) PROVE SlotTypeOK'
  <2>1. rows[b].status \in Statuses
    BY DEF Row
  <2>2. lapsed' \subseteq Builders
    BY <1>10 DEF Work, Report
  <2>3. view' \in [Builders -> Statuses \cup {"expired"}]
    BY <1>10, <2>1 DEF Work, Report, Statuses
  <2>4. QED
    BY <1>10, <2>2, <2>3 DEF Work
<1>11. ASSUME NEW b \in Builders, Again(b) PROVE SlotTypeOK'
  BY <1>11 DEF Again
<1>12. ASSUME NEW b \in Builders, Die(b) PROVE SlotTypeOK'
  BY <1>12 DEF Die
<1>13. ASSUME NEW b \in Builders, Lapse(b) PROVE SlotTypeOK'
  BY <1>13 DEF Lapse
<1>14. ASSUME NEW p \in Projects, DeleteProject(p) PROVE SlotTypeOK'
  BY <1>14 DEF DeleteProject
<1>15. CASE UNCHANGED slotVars
  BY <1>15 DEF slotVars
<1>16. QED
  BY <1>1, <1>2, <1>3, <1>4, <1>5, <1>6, <1>7, <1>8, <1>9, <1>10, <1>11, <1>12,
     <1>13, <1>14, <1>15 DEF SlotNext, Proceed

\* Every variable keeps its type.
THEOREM SlotTypeCorrect == SlotSpec => []SlotTypeOK
<1>1. SlotInit => SlotTypeOK
  BY RowValues DEF SlotInit, SlotTypeOK, Triggers
<1>2. QED
  BY <1>1, SlotTypeStep, PTL DEF SlotSpec

-----------------------------------------------------------------------------
(* The invariant behind mutual exclusion.  That a live builder holds the slot *)
(* is not inductive: a reclaim takes the slot of whatever it selected before, *)
(* so one has to know that nothing alive is ever selected, which follows from *)
(* its lease not having lapsed when the selection is made.                    *)

Dead(b) == pc[b] \in {"error", "lost"}

OneHolder == \A b, d \in Builders : Holds(b) /\ Holds(d) => b = d

HoldersBuildOrDied == \A b \in Builders : Holds(b) => Building(b) \/ Dead(b)

SelectedAreDead ==
  \A b, d \in Builders :
    b \in stale[d] /\ Steady(b) => Dead(b) /\ rows[b] \in {Running, Ended("failed")}

LiveLeaseHolds ==
  \A b \in Builders : Building(b) /\ Steady(b) => Holds(b) /\ b \notin lapsed

SlotInv ==
  /\ SlotTypeOK
  /\ RunningHoldsTheSlot
  /\ OneHolder
  /\ HoldersBuildOrDied
  /\ SelectedAreDead
  /\ LiveLeaseHolds

\* What the three kinds of row say.
LEMMA RowFields ==
  /\ NoRow.slot = FALSE /\ NoRow.status = "none"
  /\ Running.slot = TRUE /\ Running.status = "running"
  /\ \A s \in Terminal : Ended(s).slot = FALSE /\ Ended(s).status = s
  /\ \A s \in Terminal : Ended(s).status # "running"
  /\ \A s \in Terminal : Ended(s) # NoRow
BY DEF NoRow, Running, Ended, Terminal

\* A row of the type with the slot set and in step is the running row.
LEMMA HeldRow ==
  ASSUME NEW row \in Row, row.slot, row.status = "running" PROVE row = Running
BY DEF Row, Running

LEMMA SlotInvInit == SlotInit => SlotInv
<1> SUFFICES ASSUME SlotInit PROVE SlotInv
  OBVIOUS
<1>1. SlotTypeOK
  BY RowValues DEF SlotInit, SlotTypeOK, Triggers
<1>2. \A b \in Builders : ~Holds(b) /\ rows[b].status = "none" /\ pc[b] = "idle" /\ stale[b] = {}
  BY RowFields DEF SlotInit, Holds
<1>3. QED
  BY <1>1, <1>2 DEF SlotInv, RunningHoldsTheSlot, OneHolder, HoldersBuildOrDied,
     SelectedAreDead, LiveLeaseHolds, Building

\* A step that writes no row, selects nothing, lets no lease lapse, revives no
\* project and moves a builder neither into a build nor out of death preserves
\* the invariant.
LEMMA QuietStep ==
  ASSUME SlotInv, SlotTypeOK',
         rows' = rows, stale' \in [Builders -> SUBSET Builders],
         \A d \in Builders : stale'[d] \subseteq stale[d],
         lapsed' \subseteq lapsed, projects' \subseteq projects, target' = target,
         \A d \in Builders : Dead(d) => Dead(d)',
         \A d \in Builders : Building(d)' => Building(d),
         \A d \in Builders : Building(d) => Building(d)' \/ Dead(d)' \/ ~Holds(d)
  PROVE  SlotInv'
<1>1. \A b \in Builders : Steady(b)' => Steady(b)
  BY DEF Steady
<1>2. \A b \in Builders : Holds(b)' <=> Holds(b)
  BY DEF Holds
<1>3. RunningHoldsTheSlot'
  BY <1>2 DEF SlotInv, RunningHoldsTheSlot
<1>4. OneHolder'
  BY <1>2 DEF SlotInv, OneHolder
<1>5. HoldersBuildOrDied'
  BY <1>2 DEF SlotInv, HoldersBuildOrDied
<1>6. SelectedAreDead'
  BY <1>1 DEF SlotInv, SelectedAreDead
<1>7. LiveLeaseHolds'
  BY <1>1, <1>2 DEF SlotInv, LiveLeaseHolds
<1>8. QED
  BY <1>3, <1>4, <1>5, <1>6, <1>7 DEF SlotInv

\* Only what holds the slot past its lease is selected, and that is dead.
LEMMA SelectStep ==
  ASSUME SlotInv, SlotTypeOK', NEW b \in Builders, Select(b) PROVE SlotInv'
<1> USE DEF Select, Abandoned, Goto
<1>1. \A d \in Builders : (Holds(d)' <=> Holds(d)) /\ (Steady(d)' <=> Steady(d))
  BY DEF Holds, Steady
<1>2. \A d \in Builders : (Dead(d)' <=> Dead(d)) /\ (Building(d)' <=> Building(d))
  BY DEF SlotInv, SlotTypeOK, Dead, Building
<1>3. RunningHoldsTheSlot' /\ OneHolder' /\ HoldersBuildOrDied' /\ LiveLeaseHolds'
  BY <1>1, <1>2
     DEF SlotInv, RunningHoldsTheSlot, OneHolder, HoldersBuildOrDied, LiveLeaseHolds
<1>4. SelectedAreDead'
  <2> SUFFICES ASSUME NEW c \in Builders, NEW d \in Builders, c \in stale'[d], Steady(c)'
               PROVE  Dead(c) /\ rows[c] \in {Running, Ended("failed")}
    BY <1>2 DEF SelectedAreDead
  <2>1. CASE d = b
    <3>1. Holds(c) /\ c \in lapsed
      BY <2>1 DEF SlotInv, SlotTypeOK
    <3>2. ~Building(c)
      BY <1>1, <3>1 DEF SlotInv, LiveLeaseHolds
    <3>3. rows[c] = Running
      BY <3>1, HeldRow DEF SlotInv, SlotTypeOK, RunningHoldsTheSlot, Holds
    <3>4. QED
      BY <3>1, <3>2, <3>3 DEF SlotInv, HoldersBuildOrDied
  <2>2. CASE d # b
    <3>1. c \in stale[d]
      BY <2>2 DEF SlotInv, SlotTypeOK
    <3>2. QED
      BY <1>1, <3>1 DEF SlotInv, SelectedAreDead
  <2>3. QED
    BY <2>1, <2>2
<1>5. QED
  BY <1>3, <1>4 DEF SlotInv

\* A reclaim takes the slot of dead builders only, whatever they wrote since.
LEMMA ReclaimStep ==
  ASSUME SlotInv, SlotTypeOK', NEW b \in Builders, Reclaim(b) PROVE SlotInv'
<1> USE DEF Reclaim, Goto
<1>1. \A d \in Builders : rows'[d] = rows[d] \/ (d \in stale[b] /\ rows'[d] = Ended("failed"))
  BY DEF SlotInv, SlotTypeOK
<1>2. \A d \in Builders : stale'[d] \subseteq stale[d]
  BY DEF SlotInv, SlotTypeOK
<1>3. \A d \in Builders : (Dead(d) => Dead(d)') /\ (Building(d)' <=> Building(d))
  BY DEF SlotInv, SlotTypeOK, Dead, Building, CommitOutcomes
<1>4. \A d \in Builders : Steady(d)' <=> Steady(d)
  BY DEF Steady
<1>5. \A d \in Builders : Holds(d)' => Holds(d)
  BY <1>1, RowFields DEF Holds, Terminal
<1>6. RunningHoldsTheSlot'
  BY <1>1, RowFields DEF SlotInv, RunningHoldsTheSlot, Holds, Terminal
<1>7. OneHolder' /\ HoldersBuildOrDied'
  BY <1>3, <1>5 DEF SlotInv, OneHolder, HoldersBuildOrDied
<1>8. SelectedAreDead'
  BY <1>1, <1>2, <1>3, <1>4 DEF SlotInv, SelectedAreDead
<1>9. LiveLeaseHolds'
  <2> SUFFICES ASSUME NEW d \in Builders, Building(d), Steady(d)
               PROVE  Holds(d)' /\ d \notin lapsed'
    BY <1>3, <1>4 DEF LiveLeaseHolds
  <2>1. d \notin stale[b]
    BY DEF SlotInv, SelectedAreDead, Building, Dead
  <2>2. rows'[d] = rows[d]
    BY <1>1, <2>1
  <2>3. QED
    BY <2>2 DEF SlotInv, LiveLeaseHolds, Holds
<1>10. QED
  BY <1>6, <1>7, <1>8, <1>9 DEF SlotInv


\* The row is inserted when nobody holds the slot, and the builder's lease starts.
LEMMA InsertStep ==
  ASSUME SlotInv, SlotTypeOK', NEW b \in Builders, Insert(b) PROVE SlotInv'
<1> USE DEF Insert, Goto
<1>1. \/ rows' = rows /\ ~Building(b)'
      \/ /\ \A d \in Builders : ~Holds(d)
         /\ rows' = [rows EXCEPT ![b] = Running]
         /\ lapsed' = lapsed \ {b}
         /\ Building(b)' \/ Dead(b)'
  BY DEF SlotInv, SlotTypeOK, SlotIsTaken, CommitOutcomes, Building, Dead
<1>2. \A d \in Builders \ {b} :
        /\ Dead(d)' <=> Dead(d)
        /\ Building(d)' <=> Building(d)
        /\ rows'[d] = rows[d]
        /\ d \in lapsed' <=> d \in lapsed
  BY DEF SlotInv, SlotTypeOK, Dead, Building
<1>3. ~Dead(b) /\ ~Building(b)
  BY DEF Dead, Building
<1>4. \A d \in Builders : (Steady(d)' <=> Steady(d)) /\ stale'[d] = stale[d]
  BY DEF Steady
<1>5. rows'[b] = rows[b] \/ rows'[b] = Running
  BY <1>1 DEF SlotInv, SlotTypeOK
<1>6. RunningHoldsTheSlot'
  BY <1>2, <1>5, RowFields DEF SlotInv, RunningHoldsTheSlot, Holds
<1>7. OneHolder' /\ HoldersBuildOrDied'
  <2>1. CASE rows' = rows /\ ~Building(b)'
    <3>1. ~Holds(b)
      BY <1>3 DEF SlotInv, HoldersBuildOrDied
    <3>2. QED
      BY <2>1, <3>1, <1>2 DEF SlotInv, OneHolder, HoldersBuildOrDied, Holds
  <2>2. CASE /\ \A d \in Builders : ~Holds(d)
             /\ Building(b)' \/ Dead(b)'
    BY <2>2, <1>2 DEF SlotInv, OneHolder, HoldersBuildOrDied, Holds
  <2>3. QED
    BY <1>1, <2>1, <2>2
<1>8. SelectedAreDead'
  BY <1>2, <1>3, <1>4 DEF SlotInv, SelectedAreDead
<1>9. LiveLeaseHolds'
  <2> SUFFICES ASSUME NEW d \in Builders, Building(d)', Steady(d)
               PROVE  Holds(d)' /\ d \notin lapsed'
    BY <1>4 DEF LiveLeaseHolds
  <2>1. CASE d = b
    BY <2>1, <1>1, RowFields DEF SlotInv, SlotTypeOK, Holds
  <2>2. CASE d # b
    BY <2>2, <1>2 DEF SlotInv, LiveLeaseHolds, Holds
  <2>3. QED
    BY <2>1, <2>2
<1>10. QED
  BY <1>6, <1>7, <1>8, <1>9 DEF SlotInv

\* A step of a live builder b that makes its own row terminal, or leaves every
\* row alone, and takes it out of any build it was in.
LEMMA SettleStep ==
  ASSUME SlotInv, SlotTypeOK', NEW b \in Builders, ~Dead(b),
         rows' = rows \/ \E s \in Terminal : rows' = [rows EXCEPT ![b] = Ended(s)],
         \A d \in Builders \ {b} : pc'[d] = pc[d],
         ~Building(b)', rows' = rows => ~Holds(b) \/ Dead(b)',
         UNCHANGED <<projects, target, lapsed, stale>>
  PROVE  SlotInv'
<1>1. \A d \in Builders \ {b} :
        /\ (Dead(d)' <=> Dead(d)) /\ (Building(d)' <=> Building(d))
        /\ rows'[d] = rows[d]
  BY DEF SlotInv, SlotTypeOK, Dead, Building
<1>2. rows'[b] = rows[b] \/ \E s \in Terminal : rows'[b] = Ended(s)
  BY DEF SlotInv, SlotTypeOK
<1>3. \A d \in Builders : (Steady(d)' <=> Steady(d)) /\ stale'[d] = stale[d]
  BY DEF Steady
<1>4. RunningHoldsTheSlot'
  BY <1>1, <1>2, RowFields DEF SlotInv, RunningHoldsTheSlot, Holds
<1>5. \A d \in Builders : Holds(d)' => Holds(d)
  BY <1>1, <1>2, RowFields DEF Holds
<1>6. Holds(b)' => Dead(b)'
  <2>1. CASE rows' = rows
    BY <2>1 DEF Holds
  <2>2. CASE \E s \in Terminal : rows' = [rows EXCEPT ![b] = Ended(s)]
    BY <2>2, RowFields DEF SlotInv, SlotTypeOK, Holds
  <2>3. QED
    BY <2>1, <2>2
<1>7. OneHolder' /\ HoldersBuildOrDied'
  BY <1>1, <1>5, <1>6 DEF SlotInv, OneHolder, HoldersBuildOrDied
<1>8. SelectedAreDead'
  BY <1>1, <1>3 DEF SlotInv, SelectedAreDead
<1>9. LiveLeaseHolds'
  BY <1>1, <1>3 DEF SlotInv, LiveLeaseHolds, Holds
<1>10. QED
  BY <1>4, <1>7, <1>8, <1>9 DEF SlotInv

LEMMA DeferStep ==
  ASSUME SlotInv, SlotTypeOK', NEW b \in Builders, Defer(b) PROVE SlotInv'
<1> USE DEF Defer, Goto
<1>1. ~Dead(b) /\ ~Building(b) /\ ~Building(b)'
  BY DEF SlotInv, SlotTypeOK, Dead, Building
<1>2. ~Holds(b)
  BY <1>1 DEF SlotInv, HoldersBuildOrDied
<1>3. \A d \in Builders \ {b} : pc'[d] = pc[d]
  BY DEF SlotInv, SlotTypeOK
<1>4. rows' = rows \/ \E s \in Terminal : rows' = [rows EXCEPT ![b] = Ended(s)]
  BY DEF Terminal
<1>5. QED
  BY <1>1, <1>2, <1>3, <1>4, SettleStep

LEMMA FinishStep ==
  ASSUME SlotInv, SlotTypeOK', NEW b \in Builders, Finish(b) PROVE SlotInv'
<1> USE DEF Finish, Goto
<1>1. ~Dead(b) /\ ~Building(b)'
  BY DEF SlotInv, SlotTypeOK, Dead, Building
<1>2. \A d \in Builders \ {b} : pc'[d] = pc[d]
  BY DEF SlotInv, SlotTypeOK
<1>3. rows' = rows \/ \E s \in Terminal : rows' = [rows EXCEPT ![b] = Ended(s)]
  BY DEF Terminal
<1>4. rows' = rows => ~Holds(b) \/ Dead(b)'
  <2> SUFFICES ASSUME rows' = rows, Holds(b), ~Dead(b)' PROVE FALSE
    OBVIOUS
  <2>1. rows'[b] = Ended(IF built[b] THEN "completed" ELSE "failed")
    BY DEF SlotInv, SlotTypeOK, Dead, CommitOutcomes
  <2>2. QED
    BY <2>1, RowFields DEF Holds, Terminal
<1>5. QED
  BY <1>1, <1>2, <1>3, <1>4, SettleStep

LEMMA LapseStep ==
  ASSUME SlotInv, SlotTypeOK', NEW b \in Builders, Lapse(b) PROVE SlotInv'
<1> USE DEF Lapse
<1>1. \A d \in Builders : /\ Steady(d)' <=> Steady(d)
                          /\ Dead(d)' <=> Dead(d)
                          /\ Building(d)' <=> Building(d)
                          /\ Holds(d)' <=> Holds(d)
  BY DEF Steady, Dead, Building, Holds
<1>2. RunningHoldsTheSlot' /\ OneHolder' /\ HoldersBuildOrDied' /\ SelectedAreDead'
  BY <1>1 DEF SlotInv, RunningHoldsTheSlot, OneHolder, HoldersBuildOrDied, SelectedAreDead
<1>3. LiveLeaseHolds'
  BY <1>1 DEF SlotInv, LiveLeaseHolds, Steady
<1>4. QED
  BY <1>2, <1>3 DEF SlotInv

\* Teardown takes rows away, and with each its builder's claim to be steady.
LEMMA DeleteStep ==
  ASSUME SlotInv, SlotTypeOK', NEW p \in Projects, DeleteProject(p) PROVE SlotInv'
<1> USE DEF DeleteProject
<1>1. \A d \in Builders : /\ Dead(d)' <=> Dead(d)
                          /\ Building(d)' <=> Building(d)
                          /\ stale'[d] = stale[d]
  BY DEF Dead, Building
<1>2. \A d \in Builders : rows'[d] = rows[d] \/ rows'[d] = NoRow
  OBVIOUS
<1>3. \A d \in Builders : Steady(d)' => Steady(d) /\ rows'[d] = rows[d]
  BY DEF Steady
<1>4. \A d \in Builders : Holds(d)' => Holds(d)
  BY <1>2, RowFields DEF Holds
<1>5. RunningHoldsTheSlot'
  BY <1>2, RowFields DEF SlotInv, RunningHoldsTheSlot, Holds
<1>6. OneHolder' /\ HoldersBuildOrDied'
  BY <1>1, <1>4 DEF SlotInv, OneHolder, HoldersBuildOrDied
<1>7. SelectedAreDead'
  BY <1>1, <1>3 DEF SlotInv, SelectedAreDead
<1>8. LiveLeaseHolds'
  BY <1>1, <1>3 DEF SlotInv, LiveLeaseHolds, Holds
<1>9. QED
  BY <1>5, <1>6, <1>7, <1>8 DEF SlotInv


LEMMA SlotStep == SlotInv /\ [SlotNext]_slotVars => SlotInv'
<1> SUFFICES ASSUME SlotInv, [SlotNext]_slotVars PROVE SlotInv'
  OBVIOUS
<1>1. SlotTypeOK /\ SlotTypeOK'
  BY SlotTypeStep DEF SlotInv
<1>2. ASSUME NEW b \in Builders, NEW why \in Triggers, Ask(b, why) PROVE SlotInv'
  BY <1>1, <1>2, QuietStep DEF Ask, Goto, SlotTypeOK, Dead, Building
<1>3. ASSUME NEW b \in Builders, ReclaimDeleted(b) PROVE SlotInv'
  BY <1>1, <1>3, QuietStep DEF ReclaimDeleted, Goto, SlotTypeOK, Dead, Building
<1>4. ASSUME NEW b \in Builders, NEW well \in BOOLEAN, EndRebuild(b, well) PROVE SlotInv'
  BY <1>1, <1>4, QuietStep DEF EndRebuild, Goto, SlotTypeOK, Dead, Building
<1>5. ASSUME NEW b \in Builders, RecordState(b) PROVE SlotInv'
  BY <1>1, <1>5, QuietStep DEF RecordState, Goto, SlotTypeOK, Dead, Building
<1>6. ASSUME NEW b \in Builders, Work(b) PROVE SlotInv'
  <2>1. lapsed' \subseteq lapsed
    BY <1>6 DEF Work, Report
  <2>2. QED
    BY <1>1, <1>6, <2>1, QuietStep DEF Work, SlotTypeOK, Dead, Building
<1>7. ASSUME NEW b \in Builders, Again(b) PROVE SlotInv'
  BY <1>1, <1>7, QuietStep DEF Again, SlotTypeOK, Dead, Building
<1>8. ASSUME NEW b \in Builders, Die(b) PROVE SlotInv'
  BY <1>1, <1>8, QuietStep DEF Die, InFlight, SlotTypeOK, Dead, Building
<1>9. CASE UNCHANGED slotVars
  BY <1>1, <1>9, QuietStep DEF slotVars, SlotTypeOK, Dead, Building
<1>10. QED
  BY <1>1, <1>2, <1>3, <1>4, <1>5, <1>6, <1>7, <1>8, <1>9, SelectStep, ReclaimStep,
     InsertStep, DeferStep, FinishStep, LapseStep, DeleteStep DEF SlotNext, Proceed

LEMMA SlotInvariant == SlotSpec => []SlotInv
BY SlotInvInit, SlotStep, PTL DEF SlotSpec

\* A build's row holds the slot exactly while the row says it runs.
THEOREM SlotInStep == SlotSpec => []RunningHoldsTheSlot
<1>1. SlotInv => RunningHoldsTheSlot
  BY DEF SlotInv
<1>2. QED
  BY <1>1, SlotInvariant, PTL

\* No reclaim, deletion elsewhere or failed commit takes the slot from a build
\* that keeps reporting.
THEOREM LiveBuildsKeepTheSlot == SlotSpec => []LiveBuildKeepsTheSlot
<1>1. SlotInv => LiveBuildKeepsTheSlot
  BY DEF SlotInv, LiveLeaseHolds, LiveBuildKeepsTheSlot
<1>2. QED
  BY <1>1, SlotInvariant, PTL

\* Two builds that keep reporting never overlap.
THEOREM BuildsNeverOverlap == SlotSpec => []OneBuildAtATime
<1>1. SlotInv => OneBuildAtATime
  BY DEF SlotInv, LiveLeaseHolds, OneHolder, OneBuildAtATime
<1>2. QED
  BY <1>1, SlotInvariant, PTL

-----------------------------------------------------------------------------
(* Terminal history rows.  A row its builder has still to finish is not one,  *)
(* and what a reclaim selects holds the slot until that reclaim or an earlier *)
(* one of the same row fails it.                                              *)

LEMMA HistoryStep ==
  SlotInv /\ [SlotNext]_slotVars =>
    [\A b \in Builders :
       rows[b].status \in Terminal /\ pc[b] \notin {"inserting", "deferring"}
         /\ b \notin SlowBuilders /\ target[b] \in projects'
         => rows'[b] = rows[b]]_slotVars
<1> SUFFICES ASSUME SlotInv, SlotNext, NEW b \in Builders,
                    rows[b].status \in Terminal, pc[b] \notin {"inserting", "deferring"},
                    b \notin SlowBuilders, target[b] \in projects', rows'[b] # rows[b]
             PROVE FALSE
  BY DEF slotVars
<1>1. SlotTypeOK /\ ~Holds(b)
  BY DEF SlotInv, RunningHoldsTheSlot, Terminal
<1>2. projects' \subseteq projects /\ target' = target
  BY <1>1 DEF SlotNext, Proceed, Ask, Select, Reclaim, ReclaimDeleted, Insert, Defer, EndRebuild,
     Finish, RecordState, Work, Again, Die, Lapse, DeleteProject, SlotTypeOK
<1>3. Steady(b) /\ ~Building(b)
  BY <1>1, <1>2 DEF Steady, SlotInv, LiveLeaseHolds
<1>4. ASSUME NEW d \in Builders, Reclaim(d) PROVE FALSE
  <2>1. b \in stale[d] /\ rows'[b] = Ended("failed")
    BY <1>1, <1>4 DEF Reclaim, SlotTypeOK
  <2>2. rows[b] = Running
    BY <1>3, <2>1 DEF SlotInv, SelectedAreDead
  <2>3. QED
    BY <1>1, <2>2, RowFields DEF Holds
<1>5. ASSUME NEW d \in Builders, Insert(d) PROVE FALSE
  BY <1>1, <1>5 DEF Insert, Goto, SlotTypeOK
<1>6. ASSUME NEW d \in Builders, Defer(d) PROVE FALSE
  BY <1>1, <1>6 DEF Defer, Goto, SlotTypeOK
<1>7. ASSUME NEW d \in Builders, Finish(d) PROVE FALSE
  BY <1>1, <1>3, <1>7 DEF Finish, Goto, SlotTypeOK, Building
<1>8. ASSUME NEW p \in Projects, DeleteProject(p) PROVE FALSE
  BY <1>1, <1>8 DEF DeleteProject, SlotTypeOK
<1>9. rows' = rows
  BY <1>4, <1>5, <1>6, <1>7, <1>8
     DEF SlotNext, Proceed, Ask, Select, ReclaimDeleted, EndRebuild, RecordState, Work, Again, Die, Lapse
<1>10. QED
  BY <1>9

\* What the history says of how a steady builder's attempt ended is not revised.
THEOREM HistoryStaysFinal == SlotSpec => HistoryIsFinal
BY SlotInvariant, HistoryStep, PTL DEF SlotSpec, HistoryIsFinal

-----------------------------------------------------------------------------
(* The index uses the slot.                                                  *)

\* A step of the index is a step of the slot or leaves its variables alone.
LEMMA SlotMove == [Next]_vars => [SlotNext]_slotVars
<1> SUFFICES ASSUME [Next]_vars PROVE SlotNext \/ UNCHANGED slotVars
  OBVIOUS
<1>1. ASSUME NEW b \in Builders, Request(b) PROVE SlotNext
  BY <1>1 DEF Request, SlotNext, Triggers
<1>2. ASSUME NEW b \in Builders, Coordinate(b) PROVE SlotNext
  BY <1>2 DEF Coordinate, SlotNext, Proceed
<1>3. ASSUME NEW b \in Builders, Conclude(b) PROVE SlotNext
  BY <1>3 DEF Conclude, SlotNext, Proceed
<1>4. ASSUME NEW b \in Builders, Record(b) PROVE SlotNext
  BY <1>4 DEF Record, SlotNext, Proceed
<1>5. ASSUME NEW b \in Builders, Lose(b) PROVE SlotNext
  BY <1>5 DEF Lose, SlotNext
<1>6. ASSUME NEW b \in Builders, Rebuild(b) PROVE UNCHANGED slotVars
  BY <1>6 DEF Rebuild, Collect, Mark, Upload, CountAcknowledgements, FindStale, Sweep,
     Judge, Reject, MarkReady, Abort, Turn
<1>7. ASSUME NEW v \in Validators, Validate(v) PROVE UNCHANGED slotVars
  BY <1>7 DEF Validate, Expect, Compare, ReadManifest, Annotate, GiveUp, Check
<1>8. ASSUME NEW q \in Queries, Query(q) PROVE UNCHANGED slotVars
  <2>1. CASE LoadScope(q)
    BY <2>1 DEF LoadScope, Inquire, rebuildVars
  <2>2. CASE PassGate(q)
    BY <2>2 DEF PassGate, Inquire, rebuildVars
  <2>3. CASE Search(q)
    BY <2>3 DEF Search, Inquire, rebuildVars
  <2>4. CASE NextCase(q)
    BY <2>4 DEF NextCase, Inquire, rebuildVars
  <2>5. QED
    BY <1>8, <2>1, <2>2, <2>3, <2>4 DEF Query
<1>9. QED
  BY <1>1, <1>2, <1>3, <1>4, <1>5, <1>6, <1>7, <1>8 DEF Next, vars

\* Whatever the index answers, the rebuild follows the protocol of the slot.
THEOREM RebuildsUseTheSlot == Spec => SlotProtocol
<1>1. Init => SlotInit
  BY DEF Init
<1>2. QED
  BY <1>1, SlotMove, PTL DEF Spec, SlotProtocol, SlotSpec, slotVars

\* So what holds of the slot holds of it in the hands of the index.
LEMMA SlotSafe == Spec => [](SlotTypeOK /\ OneBuildAtATime)
BY RebuildsUseTheSlot, SlotTypeCorrect, BuildsNeverOverlap, PTL DEF SlotProtocol

\* No two live rebuilds overlap, for any number of them, with every commit fault and crash.
THEOREM RebuildsNeverOverlap == Spec => []OneBuildAtATime
BY SlotSafe, PTL

-----------------------------------------------------------------------------
(* Types.                                                                    *)

LEMMA ConstantTypes ==
  /\ 0 \in Versions /\ 1 \in Versions
  /\ NoManifest \in Manifest
  /\ \A v \in Versions : Corpus(v) \subseteq Documents
<1>1. 0 \in Versions /\ 1 \in Versions
  BY PolicyIndexAssumption DEF Versions
<1>2. NoManifest \in Manifest
  BY <1>1 DEF NoManifest, Manifest
<1>3. \A v \in Versions : Corpus(v) \subseteq Documents
  BY DEF Corpus, Documents
<1>4. QED
  BY <1>1, <1>2, <1>3

LEMMA ManifestWrites ==
  ASSUME NEW m \in Manifest, NEW n \in Versions, NEW q \in {"none", "passed", "failed"}
  PROVE  /\ [m EXCEPT !.state = "incomplete", !.version = n] \in Manifest
         /\ [m EXCEPT !.quality = q] \in Manifest
         /\ [state |-> "ready", quality |-> "passed", version |-> n] \in Manifest
BY DEF Manifest

LEMMA TypeStep == TypeOK /\ SlotTypeOK' /\ [Next]_vars => TypeOK'
<1> SUFFICES ASSUME TypeOK, SlotTypeOK', [Next]_vars PROVE TypeOK'
  OBVIOUS
<1> USE ConstantTypes DEF TypeOK, validationVars, queryVars
<1>1. ASSUME NEW b \in Builders, Request(b) PROVE TypeOK'
  <2>1. active' \in Versions
    BY <1>1, PolicyIndexAssumption DEF Request, Versions
  <2>2. QED
    BY <1>1, <2>1 DEF Request
<1>2. ASSUME NEW b \in Builders, Coordinate(b) PROVE TypeOK'
  BY <1>2 DEF Coordinate, rebuildVars
<1>3. ASSUME NEW b \in Builders, Rebuild(b) PROVE TypeOK'
  <2> USE DEF Turn, Steps
  <2>1. CASE Collect(b)
    BY <2>1 DEF Collect
  <2>2. CASE Mark(b)
    <3>1. manifest' \in Manifest
      <4>1. Marked(b) \in Manifest
        BY ManifestWrites DEF Marked
      <4>2. manifest' \in {manifest, Marked(b)}
        BY <2>2 DEF Mark
      <4>3. QED
        BY <4>1, <4>2
    <3>2. step' \in [Builders -> Steps]
      BY <2>2 DEF Mark
    <3>3. QED
      BY <2>2, <3>1, <3>2 DEF Mark
  <2>3. CASE Upload(b)
    <3>1. PICK d \in todo[b] : todo' = [todo EXCEPT ![b] = @ \ {d}] /\
            (docs' = docs \cup {d} \/ docs' = docs)
      BY <2>3 DEF Upload
    <3>2. docs' \subseteq Documents /\ todo' \in [Builders -> SUBSET Documents]
      BY <3>1
    <3>3. step' \in [Builders -> Steps] /\ short' \in [Builders -> BOOLEAN]
      BY <2>3 DEF Upload
    <3>4. QED
      BY <2>3, <3>2, <3>3 DEF Upload
  <2>4. CASE CountAcknowledgements(b)
    BY <2>4 DEF CountAcknowledgements
  <2>5. CASE FindStale(b)
    BY <2>5 DEF FindStale
  <2>6. CASE Sweep(b)
    <3>1. docs' \subseteq Documents /\ found' \in [Builders -> SUBSET Documents]
      BY <2>6 DEF Sweep
    <3>2. step' \in [Builders -> Steps]
      BY <2>6 DEF Sweep
    <3>3. QED
      BY <2>6, <3>1, <3>2 DEF Sweep
  <2>7. CASE Judge(b)
    BY <2>7 DEF Judge
  <2>8. CASE Reject(b)
    <3>1. Marked(b) \in Manifest
      BY ManifestWrites DEF Marked
    <3>2. manifest' \in Manifest
      BY <2>8, <3>1, ManifestWrites DEF Reject
    <3>3. QED
      BY <2>8, <3>2 DEF Reject
  <2>9. CASE MarkReady(b)
    <3>1. manifest' \in Manifest /\ completed' \subseteq Versions
      <4>1. [state |-> "ready", quality |-> "passed", version |-> version[b]] \in Manifest
        BY ManifestWrites
      <4>2. manifest' \in {manifest, [state |-> "ready", quality |-> "passed", version |-> version[b]]}
        BY <2>9 DEF MarkReady
      <4>3. completed' \subseteq Versions
        BY <2>9 DEF MarkReady
      <4>4. QED
        BY <4>1, <4>2, <4>3
    <3>2. step' \in [Builders -> Steps]
      BY <2>9 DEF MarkReady
    <3>3. QED
      BY <2>9, <3>1, <3>2 DEF MarkReady
  <2>10. CASE Abort(b)
    BY <2>10 DEF Abort
  <2>11. QED
    BY <1>3, <2>1, <2>2, <2>3, <2>4, <2>5, <2>6, <2>7, <2>8, <2>9, <2>10 DEF Rebuild
<1>4. ASSUME NEW b \in Builders, Conclude(b) PROVE TypeOK'
  BY <1>4 DEF Conclude, Forget, Steps
<1>5. ASSUME NEW b \in Builders, Record(b) PROVE TypeOK'
  <2>1. recorded' \in [status : {"never", "built", "failed"}, indexed : Versions]
    BY <1>5 DEF Record
  <2>2. QED
    BY <1>5, <2>1 DEF Record
<1>6. ASSUME NEW b \in Builders, Lose(b) PROVE TypeOK'
  BY <1>6 DEF Lose, Forget, Steps
<1>7. ASSUME NEW v \in Validators, Validate(v) PROVE TypeOK'
  <2> USE DEF Check, Dismiss
  <2>1. CASE Expect(v)
    BY <2>1 DEF Expect
  <2>2. CASE Compare(v)
    BY <2>2 DEF Compare
  <2>3. CASE ReadManifest(v)
    BY <2>3 DEF ReadManifest
  <2>4. CASE Annotate(v)
    <3>1. manifest' \in Manifest
      <4>1. copy[v] \in Manifest /\ verdict[v] \in {"none", "passed", "failed"}
        OBVIOUS
      <4>2. [copy[v] EXCEPT !.quality = verdict[v]] \in Manifest
        BY <4>1, ManifestWrites, ConstantTypes
      <4>3. manifest' \in {manifest, [copy[v] EXCEPT !.quality = verdict[v]]}
        BY <2>4 DEF Annotate
      <4>4. QED
        BY <4>2, <4>3
    <3>2. QED
      BY <2>4, <3>1 DEF Annotate
  <2>5. CASE GiveUp(v)
    BY <2>5 DEF GiveUp
  <2>6. QED
    BY <1>7, <2>1, <2>2, <2>3, <2>4, <2>5 DEF Validate
<1>8. ASSUME NEW q \in Queries, Query(q) PROVE TypeOK'
  <2>1. CASE LoadScope(q)
    BY <2>1 DEF LoadScope, Inquire, rebuildVars
  <2>2. CASE PassGate(q)
    BY <2>2 DEF PassGate, Inquire, rebuildVars
  <2>3. CASE Search(q)
    BY <2>3 DEF Search, Inquire, rebuildVars
  <2>4. CASE NextCase(q)
    BY <2>4 DEF NextCase, Inquire, rebuildVars
  <2>5. QED
    BY <1>8, <2>1, <2>2, <2>3, <2>4 DEF Query
<1>9. CASE UNCHANGED vars
  BY <1>9 DEF vars, rebuildVars
<1>10. QED
  BY <1>1, <1>2, <1>3, <1>4, <1>5, <1>6, <1>7, <1>8, <1>9 DEF Next

\* Every variable of the index keeps its type.
THEOREM TypeCorrect == Spec => []TypeOK
<1>1. Init /\ SlotTypeOK => TypeOK
  BY ConstantTypes DEF Init, TypeOK, Steps
<1>2. QED
  BY <1>1, SlotSafe, TypeStep, PTL DEF Spec

-----------------------------------------------------------------------------
(* What a validation may write back.  It copies the state it read, so that    *)
(* state must have been earned whoever holds it.                              *)

Earned(m) == m.state = "ready" => m.version \in completed

ReadyInv ==
  /\ Earned(manifest)
  /\ \A v \in Validators : Earned(copy[v])

\* A version that was completed stays completed.
LEMMA CompletedGrows == TypeOK /\ [Next]_vars => completed \subseteq completed'
<1> SUFFICES ASSUME TypeOK, [Next]_vars PROVE completed \subseteq completed'
  OBVIOUS
<1>1. ASSUME NEW b \in Builders, Rebuild(b) PROVE completed \subseteq completed'
  BY <1>1 DEF Rebuild, Collect, Mark, Upload, CountAcknowledgements, FindStale, Sweep,
     Judge, Reject, MarkReady, Abort
<1>2. ASSUME NEW b \in Builders,
             Request(b) \/ Coordinate(b) \/ Conclude(b) \/ Record(b) \/ Lose(b)
      PROVE  completed' = completed
  BY <1>2 DEF Request, Coordinate, Conclude, Record, Lose, rebuildVars
<1>3. ASSUME NEW v \in Validators, Validate(v) PROVE completed' = completed
  BY <1>3 DEF Validate, Expect, Compare, ReadManifest, Annotate, GiveUp, Check
<1>4. ASSUME NEW q \in Queries, Query(q) PROVE completed' = completed
  BY <1>4 DEF Query, LoadScope, PassGate, Search, NextCase, Inquire, rebuildVars
<1>5. QED
  BY <1>1, <1>2, <1>3, <1>4 DEF Next, vars, rebuildVars

\* Each step keeps the manifest, or writes one that is earned; and each validation
\* keeps its copy, drops it, or takes the manifest.
LEMMA ReadyStep == TypeOK /\ ReadyInv /\ [Next]_vars => ReadyInv'
<1> SUFFICES ASSUME TypeOK, ReadyInv, [Next]_vars PROVE ReadyInv'
  OBVIOUS
<1>1. completed \subseteq completed'
  BY CompletedGrows
<1>2. ASSUME copy' = copy, manifest' = manifest PROVE ReadyInv'
  BY <1>1, <1>2 DEF ReadyInv, Earned
<1>3. ASSUME NEW b \in Builders, Rebuild(b) PROVE ReadyInv'
  <2> USE DEF Turn, validationVars
  <2>1. copy' = copy
    BY <1>3 DEF Rebuild, Collect, Mark, Upload, CountAcknowledgements, FindStale, Sweep,
       Judge, Reject, MarkReady, Abort
  <2>2. SUFFICES Earned(manifest)'
    BY <1>1, <2>1 DEF ReadyInv, Earned
  <2>3. manifest.state \in {"absent", "incomplete", "ready"} /\ manifest \in Manifest
    BY DEF TypeOK, Manifest
  <2>4. Marked(b).state = "incomplete" /\ [Marked(b) EXCEPT !.quality = "failed"].state = "incomplete"
    BY <2>3 DEF Marked, Manifest
  <2>5. CASE Mark(b)
    <3>1. manifest' \in {manifest, Marked(b)}
      BY <2>5 DEF Mark
    <3>2. QED
      BY <1>1, <2>4, <3>1 DEF ReadyInv, Earned
  <2>6. CASE Reject(b)
    <3>1. manifest' \in {manifest, [Marked(b) EXCEPT !.quality = "failed"]}
      BY <2>6 DEF Reject
    <3>2. QED
      BY <1>1, <2>4, <3>1 DEF ReadyInv, Earned
  <2>7. CASE MarkReady(b)
    <3>1. \/ manifest' = manifest
          \/ manifest'.version = version[b] /\ version[b] \in completed'
      BY <2>7 DEF MarkReady
    <3>2. QED
      BY <1>1, <3>1 DEF ReadyInv, Earned
  <2>8. ASSUME manifest' = manifest PROVE Earned(manifest)'
    BY <1>1, <2>8 DEF ReadyInv, Earned
  <2>9. QED
    BY <1>3, <2>5, <2>6, <2>7, <2>8 DEF Rebuild, Collect, Upload, CountAcknowledgements,
       FindStale, Sweep, Judge, Abort
<1>4. ASSUME NEW b \in Builders,
             Request(b) \/ Coordinate(b) \/ Conclude(b) \/ Record(b) \/ Lose(b)
      PROVE  ReadyInv'
  BY <1>2, <1>4 DEF Request, Coordinate, Conclude, Record, Lose, rebuildVars, validationVars
<1>5. ASSUME NEW v \in Validators, Validate(v) PROVE ReadyInv'
  <2> USE DEF Check, Dismiss
  <2>1. copy \in [Validators -> Manifest] /\ verdict[v] \in {"none", "passed", "failed"}
    BY DEF TypeOK
  <2>2. Earned(NoManifest)'
    BY DEF Earned, NoManifest
  <2>3. CASE Expect(v) \/ Compare(v)
    BY <1>2, <2>3 DEF Expect, Compare
  <2>4. CASE ReadManifest(v)
    BY <1>1, <2>1, <2>4 DEF ReadManifest, ReadyInv, Earned
  <2>5. CASE GiveUp(v)
    BY <1>1, <2>1, <2>2, <2>5 DEF GiveUp, ReadyInv, Earned
  <2>6. CASE Annotate(v)
    <3>1. copy' = [copy EXCEPT ![v] = NoManifest]
      BY <2>6 DEF Annotate
    <3>2. manifest' \in {manifest, [copy[v] EXCEPT !.quality = verdict[v]]}
      BY <2>6 DEF Annotate
    <3>3. copy[v] \in Manifest
      BY <2>1
    <3>4. /\ [copy[v] EXCEPT !.quality = verdict[v]].state = copy[v].state
          /\ [copy[v] EXCEPT !.quality = verdict[v]].version = copy[v].version
      BY <3>3 DEF Manifest
    <3>5. Earned(manifest)'
      BY <1>1, <3>2, <3>4 DEF ReadyInv, Earned
    <3>6. \A w \in Validators : Earned(copy[w])'
      BY <1>1, <2>1, <2>2, <3>1 DEF ReadyInv, Earned
    <3>7. QED
      BY <3>5, <3>6 DEF ReadyInv
  <2>7. QED
    BY <1>5, <2>3, <2>4, <2>5, <2>6 DEF Validate
<1>6. ASSUME NEW q \in Queries, Query(q) PROVE ReadyInv'
  BY <1>2, <1>6 DEF Query, LoadScope, PassGate, Search, NextCase, Inquire, rebuildVars,
     validationVars
<1>7. CASE UNCHANGED vars
  BY <1>2, <1>7 DEF vars, rebuildVars, validationVars
<1>8. QED
  BY <1>3, <1>4, <1>5, <1>6, <1>7 DEF Next

\* No validation, however long ago it read the manifest it writes back, makes a
\* version answerable that no rebuild ever completed.
THEOREM OnlyRebuildsMakeReady == Spec => []ReadyWasBuilt
<1>1. Init => ReadyInv
  BY DEF Init, ReadyInv, Earned, NoManifest
<1>2. ReadyInv => ReadyWasBuilt
  BY DEF ReadyInv, Earned, ReadyWasBuilt, Ready
<1>3. QED
  BY <1>1, <1>2, ReadyStep, TypeCorrect, PTL DEF Spec

-----------------------------------------------------------------------------
(* Where a builder that does not rebuild is, and who else can be rebuilding.  *)

IdleIsFresh == \A b \in Builders : step[b] # "collecting" => pc[b] = "working"

\* What the slot's own steps do to a place in the rebuild.
LEMMA CoordinatePlaces ==
  ASSUME TypeOK, NEW b \in Builders, Coordinate(b), NEW d \in Builders
  PROVE  /\ pc[d] = "working" => pc'[d] = "working"
         /\ pc'[d] \in {"finishing", "recording"} => pc[d] \in {"finishing", "recording"}
         /\ built'[d] = built[d]
<1> USE DEF TypeOK, SlotTypeOK
<1>1. CASE Work(b)
  BY <1>1 DEF Work
<1>2. CASE Lapse(b)
  BY <1>2 DEF Lapse
<1>3. CASE Again(b)
  BY <1>3 DEF Again
<1>4. CASE Select(b) \/ Reclaim(b)
  BY <1>4 DEF Select, Reclaim, Goto
<1>5. CASE Insert(b)
  BY <1>5 DEF Insert, Goto
<1>6. CASE Defer(b)
  BY <1>6 DEF Defer, Goto
<1>7. CASE Finish(b)
  BY <1>7 DEF Finish, Goto
<1>8. QED
  BY <1>1, <1>2, <1>3, <1>4, <1>5, <1>6, <1>7 DEF Coordinate

LEMMA FreshStep == TypeOK /\ IdleIsFresh /\ [Next]_vars => IdleIsFresh'
<1> SUFFICES ASSUME TypeOK, IdleIsFresh, [Next]_vars, NEW d \in Builders,
                    step'[d] # "collecting"
             PROVE  pc'[d] = "working"
  BY DEF IdleIsFresh
<1>0. step \in [Builders -> Steps]
  BY DEF TypeOK
<1> USE DEF IdleIsFresh, slotVars
<1>1. ASSUME NEW b \in Builders, Request(b) PROVE pc'[d] = "working"
  BY <1>1 DEF Request, Ask, Goto, TypeOK, SlotTypeOK
<1>2. ASSUME NEW b \in Builders, Coordinate(b) PROVE pc'[d] = "working"
  BY <1>2, CoordinatePlaces DEF Coordinate, rebuildVars
<1>3. ASSUME NEW b \in Builders, Rebuild(b) PROVE pc'[d] = "working"
  <2>1. /\ pc[b] = "working" /\ pc' = pc
        /\ \E to : step' = [step EXCEPT ![b] = to]
    BY <1>3 DEF Rebuild, Collect, Mark, Upload, CountAcknowledgements, FindStale, Sweep,
       Judge, Reject, MarkReady, Abort, Turn
  <2>2. QED
    BY <1>0, <2>1
<1>4. ASSUME NEW b \in Builders, Conclude(b) PROVE pc'[d] = "working"
  BY <1>0, <1>4 DEF Conclude, Forget, EndRebuild, Goto, TypeOK, SlotTypeOK
<1>5. ASSUME NEW b \in Builders, Record(b) PROVE pc'[d] = "working"
  BY <1>5 DEF Record, RecordState, Goto, TypeOK, SlotTypeOK
<1>6. ASSUME NEW b \in Builders, Lose(b) PROVE pc'[d] = "working"
  BY <1>0, <1>6 DEF Lose, Forget, Die, TypeOK, SlotTypeOK
<1>7. ASSUME NEW v \in Validators, Validate(v) PROVE pc'[d] = "working"
  BY <1>7 DEF Validate, Expect, Compare, ReadManifest, Annotate, GiveUp, Check
<1>8. ASSUME NEW q \in Queries, Query(q) PROVE pc'[d] = "working"
  BY <1>8 DEF Query, LoadScope, PassGate, Search, NextCase, Inquire, rebuildVars
<1>9. CASE UNCHANGED vars
  BY <1>9 DEF vars, rebuildVars
<1>10. QED
  BY <1>1, <1>2, <1>3, <1>4, <1>5, <1>6, <1>7, <1>8, <1>9 DEF Next

\* An acknowledged write took effect.
LEMMA HeardWrites == \A o \in WriteOutcomes : o.ok => o.applied
BY DEF WriteOutcomes

-----------------------------------------------------------------------------
(* The latest-state row.  The number a build records was active when it was   *)
(* asked for, so the version it loaded is no older, and that one it completed. *)

Backed(n) == \E v \in completed : n <= v

Behind == \A b \in Builders : number[b] <= active

LoadedLater ==
  \A b \in Builders : step[b] \notin {"collecting", "failed"} => number[b] <= version[b]

BuiltCompleted == \A b \in Builders : step[b] = "built" => version[b] \in completed

ReportsAreBacked ==
  \A b \in Builders : built[b] /\ pc[b] \in {"finishing", "recording"} => Backed(number[b])

RecordInv ==
  /\ IdleIsFresh
  /\ Behind
  /\ LoadedLater
  /\ BuiltCompleted
  /\ ReportsAreBacked
  /\ RecordNeverRunsAhead

\* A step that leaves numbers, versions and places in the rebuild alone, and
\* lets nobody end a build.
LEMMA RecordKept ==
  ASSUME TypeOK, RecordInv, [Next]_vars, IdleIsFresh', recorded' = recorded,
         number' = number, version' = version, active' = active, step' = step,
         \A d \in Builders : pc'[d] \in {"finishing", "recording"}
                               => pc[d] \in {"finishing", "recording"} /\ built'[d] = built[d]
  PROVE  RecordInv'
<1>1. completed \subseteq completed'
  BY CompletedGrows
<1>2. QED
  BY <1>1 DEF RecordInv, Behind, LoadedLater, BuiltCompleted, ReportsAreBacked,
     RecordNeverRunsAhead, Backed

LEMMA RebuildRecord ==
  ASSUME TypeOK, RecordInv, [Next]_vars, IdleIsFresh', NEW b \in Builders, Rebuild(b)
  PROVE  RecordInv'
<1> USE DEF Turn
<1>1. completed \subseteq completed'
  BY CompletedGrows
<1>2. /\ UNCHANGED slotVars
      /\ UNCHANGED <<active, recorded, number>>
      /\ \E to : step' = [step EXCEPT ![b] = to]
      /\ version' = version \/ Collect(b)
  BY DEF Rebuild, Collect, Mark, Upload, CountAcknowledgements, FindStale, Sweep,
     Judge, Reject, MarkReady, Abort
<1>3. step \in [Builders -> Steps] /\ version \in [Builders -> Versions]
  BY DEF TypeOK
<1>4. Behind' /\ ReportsAreBacked' /\ RecordNeverRunsAhead'
  BY <1>1, <1>2 DEF RecordInv, Behind, ReportsAreBacked, RecordNeverRunsAhead, Backed, slotVars
<1>5. \A d \in Builders \ {b} : step'[d] = step[d] /\ version'[d] = version[d]
  BY <1>2, <1>3 DEF Collect
<1>6. step'[b] = "built" => version'[b] \in completed'
  <2>1. CASE MarkReady(b)
    BY <1>3, <2>1, HeardWrites DEF MarkReady
  <2>2. CASE ~MarkReady(b)
    BY <1>3, <2>2 DEF Rebuild, Collect, Mark, Upload, CountAcknowledgements, FindStale, Sweep,
       Judge, Reject, Abort
  <2>3. QED
    BY <2>1, <2>2
<1>7. step'[b] \notin {"collecting", "failed"} => number'[b] <= version'[b]
  <2>1. CASE Collect(b)
    BY <1>2, <1>3, <2>1 DEF Collect, RecordInv, Behind
  <2>2. CASE ~Collect(b)
    BY <1>2, <1>3, <2>2 DEF Rebuild, Mark, Upload, CountAcknowledgements, FindStale, Sweep,
       Judge, Reject, MarkReady, Abort, RecordInv, LoadedLater
  <2>3. QED
    BY <2>1, <2>2
<1>8. LoadedLater' /\ BuiltCompleted'
  BY <1>1, <1>2, <1>5, <1>6, <1>7 DEF RecordInv, LoadedLater, BuiltCompleted
<1>9. QED
  BY <1>4, <1>8 DEF RecordInv

LEMMA RecordStep == TypeOK /\ RecordInv /\ [Next]_vars => RecordInv'
<1> SUFFICES ASSUME TypeOK, RecordInv, [Next]_vars PROVE RecordInv'
  OBVIOUS
<1>0. IdleIsFresh'
  BY FreshStep DEF RecordInv
<1>1. completed \subseteq completed'
  BY CompletedGrows
<1>2. number \in [Builders -> Versions] /\ step \in [Builders -> Steps] /\ active \in Versions
      /\ version \in [Builders -> Versions] /\ Versions \subseteq Nat
      /\ pc \in [Builders -> InFlight \cup {"idle", "refused", "done", "error", "lost"}]
      /\ built \in [Builders -> BOOLEAN]
  BY DEF TypeOK, SlotTypeOK, Versions
<1>3. ASSUME NEW b \in Builders, Request(b) PROVE RecordInv'
  <2>1. step[b] = "collecting" /\ step' = step /\ version' = version /\ recorded' = recorded
    BY <1>3 DEF Request, Ask, Goto, RecordInv, IdleIsFresh
  <2>2. /\ active <= active'
        /\ active' \in Nat
        /\ \A d \in Builders : number'[d] = IF d = b THEN active' ELSE number[d]
    BY <1>2, <1>3 DEF Request
  <2>3. \A d \in Builders : pc'[d] \in {"finishing", "recording"} =>
          d # b /\ pc[d] = pc'[d] /\ built'[d] = built[d]
    BY <1>2, <1>3 DEF Request, Ask, Goto
  <2>4. Behind'
    <3>1. \A d \in Builders : number[d] \in Nat /\ number[d] <= active
      BY <1>2 DEF RecordInv, Behind
    <3>2. QED
      BY <1>2, <2>2, <3>1 DEF Behind
  <2>5. LoadedLater' /\ BuiltCompleted'
    BY <1>1, <2>1, <2>2 DEF RecordInv, LoadedLater, BuiltCompleted
  <2>6. ReportsAreBacked'
    BY <1>1, <2>2, <2>3 DEF RecordInv, ReportsAreBacked, Backed
  <2>7. RecordNeverRunsAhead'
    BY <1>1, <2>1 DEF RecordInv, RecordNeverRunsAhead
  <2>8. QED
    BY <1>0, <2>4, <2>5, <2>6, <2>7 DEF RecordInv
<1>4. ASSUME NEW b \in Builders, Coordinate(b) PROVE RecordInv'
  BY <1>0, <1>4, CoordinatePlaces, RecordKept DEF Coordinate, rebuildVars
<1>5. ASSUME NEW b \in Builders, Rebuild(b) PROVE RecordInv'
  BY <1>0, <1>5, RebuildRecord
<1>6. ASSUME NEW b \in Builders, Conclude(b) PROVE RecordInv'
  <2>1. \A d \in Builders : step'[d] = (IF d = b THEN "collecting" ELSE step[d])
                         /\ version'[d] = (IF d = b THEN 0 ELSE version[d])
    BY <1>2, <1>6 DEF Conclude, Forget
  <2>2. \A d \in Builders : pc'[d] = (IF d = b THEN "finishing" ELSE pc[d])
                         /\ built'[d] = (IF d = b THEN step[b] = "built" ELSE built[d])
    BY <1>2, <1>6 DEF Conclude, EndRebuild, Goto
  <2>3. UNCHANGED <<active, recorded, number>>
    BY <1>6 DEF Conclude
  <2>4. step[b] = "built" => Backed(number[b])
    BY DEF RecordInv, LoadedLater, BuiltCompleted, Backed
  <2>5. ReportsAreBacked'
    BY <1>1, <2>2, <2>3, <2>4 DEF RecordInv, ReportsAreBacked, Backed
  <2>6. QED
    BY <1>0, <1>1, <2>1, <2>3, <2>5 DEF RecordInv, Behind, LoadedLater, BuiltCompleted,
       RecordNeverRunsAhead
<1>7. ASSUME NEW b \in Builders, Record(b) PROVE RecordInv'
  <2>1. UNCHANGED <<active, step, version, built>> /\ step[b] = "collecting"
    BY <1>7 DEF Record, RecordState, Goto, RecordInv, IdleIsFresh
  <2>2. \A d \in Builders : number'[d] = IF d = b THEN 0 ELSE number[d]
    BY <1>2, <1>7 DEF Record
  <2>3. \A d \in Builders : pc'[d] \in {"finishing", "recording"} => d # b /\ pc[d] = pc'[d]
    BY <1>2, <1>7 DEF Record, RecordState, Goto
  <2>4. pc[b] = "recording"
    BY <1>7 DEF Record, RecordState, Goto
  <2>5. \/ recorded'.indexed = recorded.indexed
        \/ recorded'.indexed = number[b] /\ Backed(number[b])
    <3>1. recorded \in [status : {"never", "built", "failed"}, indexed : Versions]
      BY DEF TypeOK
    <3>2. \/ recorded' = recorded
          \/ recorded' = [recorded EXCEPT !.status = "failed"]
          \/ built[b] /\ recorded' = [status |-> "built", indexed |-> number[b]]
      BY <1>7, Zenon DEF Record
    <3>3. [recorded EXCEPT !.status = "failed"].indexed = recorded.indexed
      BY <3>1
    <3>4. built[b] => Backed(number[b])
      BY <2>4 DEF RecordInv, ReportsAreBacked
    <3>5. [status |-> "built", indexed |-> number[b]].indexed = number[b]
      OBVIOUS
    <3>6. CASE recorded' = recorded \/ recorded' = [recorded EXCEPT !.status = "failed"]
      BY <3>3, <3>6
    <3>7. CASE built[b] /\ recorded' = [status |-> "built", indexed |-> number[b]]
      BY <3>4, <3>5, <3>7
    <3>8. QED
      BY <3>2, <3>6, <3>7
  <2>6. RecordNeverRunsAhead'
    BY <1>1, <2>5 DEF RecordInv, RecordNeverRunsAhead, Backed
  <2>7. Behind'
    BY <1>2, <2>1, <2>2 DEF RecordInv, Behind
  <2>8. LoadedLater' /\ BuiltCompleted'
    BY <1>1, <2>1, <2>2 DEF RecordInv, LoadedLater, BuiltCompleted
  <2>9. ReportsAreBacked'
    BY <1>1, <2>1, <2>2, <2>3 DEF RecordInv, ReportsAreBacked, Backed
  <2>10. QED
    BY <1>0, <2>6, <2>7, <2>8, <2>9 DEF RecordInv
<1>8. ASSUME NEW b \in Builders, Lose(b) PROVE RecordInv'
  <2>1. \A d \in Builders : step'[d] = (IF d = b THEN "collecting" ELSE step[d])
                         /\ version'[d] = (IF d = b THEN 0 ELSE version[d])
                         /\ number'[d] = (IF d = b THEN 0 ELSE number[d])
                         /\ pc'[d] = (IF d = b THEN "lost" ELSE pc[d])
    BY <1>2, <1>8 DEF Lose, Forget, Die
  <2>2. UNCHANGED <<active, recorded, built>>
    BY <1>8 DEF Lose, Die
  <2>3. Behind' /\ LoadedLater' /\ BuiltCompleted'
    BY <1>1, <1>2, <2>1, <2>2 DEF RecordInv, Behind, LoadedLater, BuiltCompleted
  <2>4. ReportsAreBacked'
    BY <1>1, <2>1, <2>2 DEF RecordInv, ReportsAreBacked, Backed
  <2>5. RecordNeverRunsAhead'
    BY <1>1, <2>2 DEF RecordInv, RecordNeverRunsAhead
  <2>6. QED
    BY <1>0, <2>3, <2>4, <2>5 DEF RecordInv
<1>9. ASSUME NEW v \in Validators, Validate(v) PROVE RecordInv'
  BY <1>0, <1>9, RecordKept DEF Validate, Expect, Compare, ReadManifest, Annotate, GiveUp,
     Check, slotVars
<1>10. ASSUME NEW q \in Queries, Query(q) PROVE RecordInv'
  BY <1>0, <1>10, RecordKept DEF Query, LoadScope, PassGate, Search, NextCase, Inquire,
     slotVars, rebuildVars
<1>11. CASE UNCHANGED vars
  BY <1>0, <1>11, RecordKept DEF vars, slotVars, rebuildVars
<1>12. QED
  BY <1>3, <1>4, <1>5, <1>6, <1>7, <1>8, <1>9, <1>10, <1>11 DEF Next

LEMMA RecordInvariant == Spec => [](TypeOK /\ RecordInv)
<1>1. Init => RecordInv
  BY PolicyIndexAssumption DEF Init, RecordInv, IdleIsFresh, Behind, LoadedLater, BuiltCompleted,
     ReportsAreBacked, RecordNeverRunsAhead, SlotInit
<1>2. QED
  BY <1>1, RecordStep, TypeCorrect, PTL DEF Spec

\* The record of the project never claims a version newer than any made ready.
THEOREM RecordIsBacked == Spec => []RecordNeverRunsAhead
<1>1. RecordInv => RecordNeverRunsAhead
  BY DEF RecordInv
<1>2. QED
  BY <1>1, RecordInvariant, PTL

-----------------------------------------------------------------------------
(* What is answerable is whole.  It rests on the slot: while one builder        *)
(* rewrites the corpus every other one is outside the rebuild, so what it has   *)
(* written stays, and the manifest it took out of `ready` stays out.  No build  *)
(* outlives its lease here and nobody annotates the manifest meanwhile.         *)

AloneAtWork ==
  \A b, d \in Builders : pc[b] = "working" /\ pc[d] = "working" => b = d

LEMMA ProjectsStay == [Next]_vars => projects' = projects
<1> SUFFICES ASSUME [Next]_vars PROVE projects' = projects
  OBVIOUS
<1> USE DEF slotVars
<1>1. ASSUME NEW b \in Builders, Coordinate(b) PROVE projects' = projects
  BY <1>1 DEF Coordinate, Select, Reclaim, Insert, Defer, Work,
     Finish, Again, Lapse
<1>2. ASSUME NEW b \in Builders, Request(b) \/ Conclude(b) \/ Record(b) \/ Lose(b)
      PROVE  projects' = projects
  BY <1>2 DEF Request, Conclude, Record, Lose, Ask, EndRebuild, RecordState, Die
<1>3. ASSUME NEW b \in Builders, Rebuild(b) PROVE projects' = projects
  BY <1>3 DEF Rebuild, Collect, Mark, Upload, CountAcknowledgements, FindStale, Sweep,
     Judge, Reject, MarkReady, Abort, Turn
<1>4. ASSUME NEW v \in Validators, Validate(v) PROVE projects' = projects
  BY <1>4 DEF Validate, Expect, Compare, ReadManifest, Annotate, GiveUp, Check
<1>5. ASSUME NEW q \in Queries, Query(q) PROVE projects' = projects
  BY <1>5 DEF Query, LoadScope, PassGate, Search, NextCase, Inquire
<1>6. QED
  BY <1>1, <1>2, <1>3, <1>4, <1>5 DEF Next, vars

LEMMA Alone == SlowBuilders = {} => (Spec => []AloneAtWork)
<1> SUFFICES ASSUME SlowBuilders = {} PROVE Spec => []AloneAtWork
  OBVIOUS
<1>1. Spec => [](projects = Projects)
  <2>1. Init => projects = Projects
    BY DEF Init, SlotInit
  <2>2. projects = Projects /\ [Next]_vars => (projects = Projects)'
    BY ProjectsStay
  <2>3. QED
    BY <2>1, <2>2, PTL DEF Spec
<1>2. SlotTypeOK /\ OneBuildAtATime /\ projects = Projects => AloneAtWork
  BY DEF SlotTypeOK, OneBuildAtATime, Building, Steady, AloneAtWork
<1>3. QED
  BY <1>1, <1>2, SlotSafe, PTL

Rewriting(b) ==
  step[b] \in {"uploading", "finding", "sweeping", "validating", "rejecting", "publishing"}

ClosedWhileRewriting == \A b \in Builders : Rewriting(b) => ~Ready

UploadsAddUp ==
  \A b \in Builders :
    step[b] = "uploading" /\ ~short[b] => Corpus(version[b]) \subseteq docs \cup todo[b]

WholeOnceCounted ==
  \A b \in Builders :
    step[b] \in {"finding", "sweeping", "validating", "rejecting", "publishing", "built"}
      => Corpus(version[b]) \subseteq docs

SweepsTheOthers ==
  \A b \in Builders : step[b] = "sweeping" => found[b] \cap Corpus(version[b]) = {}

WholeInv ==
  /\ IdleIsFresh
  /\ AnswerableIsWhole
  /\ BuiltIsAnswerable
  /\ ClosedWhileRewriting
  /\ UploadsAddUp
  /\ WholeOnceCounted
  /\ SweepsTheOthers

\* A step that leaves the index alone, and of each builder either leaves the rebuild
\* alone or ends it.
LEMMA WholeKept ==
  ASSUME WholeInv, IdleIsFresh', docs' = docs, manifest' = manifest,
         \A d \in Builders :
           \/ step'[d] = "collecting"
           \/ /\ step'[d] = step[d] /\ version'[d] = version[d] /\ todo'[d] = todo[d]
              /\ short'[d] = short[d] /\ found'[d] = found[d]
  PROVE  WholeInv'
<1>1. \A v : Corpus(v)' = Corpus(v)
  BY DEF Corpus
<1>2. Ready' = Ready
  BY DEF Ready
<1>3. AnswerableIsWhole' /\ BuiltIsAnswerable'
  BY <1>1, <1>2 DEF WholeInv, AnswerableIsWhole, BuiltIsAnswerable, Corpus
<1>4. ClosedWhileRewriting'
  BY <1>2 DEF WholeInv, ClosedWhileRewriting, Rewriting
<1>5. UploadsAddUp' /\ WholeOnceCounted' /\ SweepsTheOthers'
  BY <1>1 DEF WholeInv, UploadsAddUp, WholeOnceCounted, SweepsTheOthers, Corpus
<1>6. QED
  BY <1>3, <1>4, <1>5 DEF WholeInv

\* The builder that rebuilds need only look after itself: nobody else is at work.
LEMMA OthersAreOut ==
  ASSUME TypeOK, WholeInv, AloneAtWork, [Next]_vars, NEW b \in Builders, Rebuild(b)
  PROVE  \A d \in Builders \ {b} : step[d] = "collecting" /\ step'[d] = "collecting"
<1>1. pc[b] = "working" /\ \E to : step' = [step EXCEPT ![b] = to]
  BY DEF Rebuild, Collect, Mark, Upload, CountAcknowledgements, FindStale, Sweep,
     Judge, Reject, MarkReady, Abort, Turn
<1>2. QED
  BY <1>1 DEF WholeInv, IdleIsFresh, AloneAtWork, TypeOK

\* What its step has to establish then.
LEMMA WholeForOne ==
  ASSUME NEW b \in Builders, IdleIsFresh',
         \A d \in Builders \ {b} : step'[d] = "collecting",
         AnswerableIsWhole',
         step'[b] = "built" => (Ready' /\ manifest'.version = version'[b]),
         Rewriting(b)' => ~Ready',
         (step'[b] = "uploading" /\ ~short'[b])
           => Corpus(version'[b]) \subseteq docs' \cup todo'[b],
         step'[b] \in {"finding", "sweeping", "validating", "rejecting", "publishing", "built"}
           => Corpus(version'[b]) \subseteq docs',
         step'[b] = "sweeping" => found'[b] \cap Corpus(version'[b]) = {}
  PROVE  WholeInv'
<1>1. BuiltIsAnswerable' /\ ClosedWhileRewriting'
  BY DEF BuiltIsAnswerable, ClosedWhileRewriting, Rewriting
<1>2. UploadsAddUp'
  BY DEF UploadsAddUp, Corpus
<1>3. WholeOnceCounted' /\ SweepsTheOthers'
  BY DEF WholeOnceCounted, SweepsTheOthers, Corpus
<1>4. QED
  BY <1>1, <1>2, <1>3 DEF WholeInv

LEMMA RebuildWhole ==
  ASSUME TypeOK, WholeInv, IdleIsFresh', AloneAtWork, [Next]_vars, NEW b \in Builders, Rebuild(b)
  PROVE  WholeInv'
<1> USE DEF Turn
<1>1. \A d \in Builders \ {b} : step'[d] = "collecting"
  BY OthersAreOut
<1>2. /\ step \in [Builders -> Steps] /\ version \in [Builders -> Versions]
      /\ todo \in [Builders -> SUBSET Documents] /\ short \in [Builders -> BOOLEAN]
      /\ found \in [Builders -> SUBSET Documents] /\ manifest \in Manifest
  BY DEF TypeOK
<1>3. ASSUME manifest' = manifest, docs \subseteq docs' PROVE AnswerableIsWhole'
  BY <1>3 DEF WholeInv, AnswerableIsWhole, Ready, Corpus
<1>4. Rewriting(b) => ~Ready
  BY DEF WholeInv, ClosedWhileRewriting
<1>5. CASE Collect(b) \/ Abort(b)
  <2>1. step'[b] \in {"marking", "failed"} /\ manifest' = manifest /\ docs' = docs
    BY <1>2, <1>5 DEF Collect, Abort
  <2>2. QED
    BY <1>1, <1>3, <2>1, WholeForOne DEF Rewriting
<1>6. CASE Mark(b)
  <2>1. PICK o \in WriteOutcomes :
          /\ step' = [step EXCEPT ![b] = IF o.ok THEN "uploading" ELSE "failed"]
          /\ manifest' = IF o.applied THEN Marked(b) ELSE manifest
    BY <1>6 DEF Mark
  <2>2. /\ version' = version /\ docs' = docs
        /\ todo'[b] = Corpus(version[b])
    BY <1>2, <1>6 DEF Mark
  <2>3. Marked(b).state = "incomplete"
    BY <1>2 DEF Marked, Manifest
  <2>4. step'[b] \in {"uploading", "failed"} /\ (step'[b] = "uploading" => o.ok)
    BY <1>2, <2>1
  <2>5. step'[b] = "uploading" => ~Ready'
    BY <2>1, <2>3, <2>4, HeardWrites DEF Ready
  <2>6. AnswerableIsWhole'
    <3>1. CASE manifest' = manifest
      BY <1>3, <2>2, <3>1
    <3>2. CASE manifest' = Marked(b)
      BY <2>3, <3>2 DEF AnswerableIsWhole, Ready
    <3>3. QED
      BY <2>1, <3>1, <3>2
  <2>7. QED
    BY <1>1, <2>2, <2>4, <2>5, <2>6, WholeForOne DEF Rewriting
<1>7. CASE Upload(b)
  <2>0. step[b] = "uploading"
    BY <1>7 DEF Upload
  <2>1. PICK d \in todo[b], o \in WriteOutcomes :
          /\ todo' = [todo EXCEPT ![b] = @ \ {d}]
          /\ docs' = (IF o.applied THEN docs \cup {d} ELSE docs)
          /\ short' = [short EXCEPT ![b] = @ \/ ~o.ok]
    BY <1>7 DEF Upload
  <2>2. step'[b] \in {"uploading", "failed"} /\ UNCHANGED <<manifest, version>>
    BY <1>2, <1>7 DEF Upload
  <2>3. docs \subseteq docs' /\ todo'[b] = todo[b] \ {d}
    BY <1>2, <2>1
  <2>4. ~short'[b] => ~short[b] /\ d \in docs'
    <3>1. short'[b] = (short[b] \/ ~o.ok)
      BY <1>2, <2>1, Zenon
    <3>2. o.ok => d \in docs'
      BY <2>1, HeardWrites
    <3>3. QED
      BY <3>1, <3>2, Zenon
  <2>5. ~short'[b] => Corpus(version'[b]) \subseteq docs' \cup todo'[b]
    BY <2>0, <2>2, <2>3, <2>4 DEF WholeInv, UploadsAddUp
  <2>6. ~Ready'
    BY <1>4, <2>0, <2>2 DEF Rewriting, Ready
  <2>7. QED
    BY <1>1, <1>3, <2>2, <2>3, <2>5, <2>6, WholeForOne
<1>8. CASE CountAcknowledgements(b)
  <2>1. /\ step[b] = "uploading" /\ todo[b] = {}
        /\ step'[b] \in {"finding", "failed"} /\ (step'[b] = "finding" => ~short[b])
        /\ UNCHANGED <<docs, manifest, version>>
    BY <1>2, <1>8 DEF CountAcknowledgements
  <2>2. step'[b] = "finding" => Corpus(version[b]) \subseteq docs
    BY <2>1 DEF WholeInv, UploadsAddUp
  <2>3. ~Ready'
    BY <1>4, <2>1 DEF Rewriting, Ready
  <2>4. QED
    BY <1>1, <1>3, <2>1, <2>2, <2>3, WholeForOne
<1>9. CASE FindStale(b)
  <2>1. /\ step[b] = "finding" /\ step'[b] = "sweeping"
        /\ found'[b] = docs \ Corpus(version[b])
        /\ UNCHANGED <<docs, manifest, version>>
    BY <1>2, <1>9 DEF FindStale
  <2>2. Corpus(version[b]) \subseteq docs
    BY <2>1 DEF WholeInv, WholeOnceCounted
  <2>3. ~Ready'
    BY <1>4, <2>1 DEF Rewriting, Ready
  <2>4. QED
    BY <1>1, <1>3, <2>1, <2>2, <2>3, WholeForOne
<1>10. CASE Sweep(b)
  <2>1. /\ step[b] = "sweeping" /\ step'[b] \in {"validating", "failed"}
        /\ UNCHANGED <<manifest, version>>
        /\ \E gone \in SUBSET found[b] : docs' = docs \ gone
    BY <1>2, <1>10 DEF Sweep
  <2>2. Corpus(version[b]) \subseteq docs'
    BY <2>1 DEF WholeInv, WholeOnceCounted, SweepsTheOthers
  <2>3. ~Ready'
    BY <1>4, <2>1 DEF Rewriting, Ready
  <2>4. AnswerableIsWhole'
    BY <2>3 DEF AnswerableIsWhole
  <2>5. QED
    BY <1>1, <2>1, <2>2, <2>3, <2>4, WholeForOne
<1>11. CASE Judge(b)
  <2>1. /\ step[b] = "validating" /\ step'[b] \in {"publishing", "rejecting"}
        /\ UNCHANGED <<docs, manifest, version>>
    BY <1>2, <1>11 DEF Judge
  <2>2. Corpus(version[b]) \subseteq docs
    BY <2>1 DEF WholeInv, WholeOnceCounted
  <2>3. ~Ready'
    BY <1>4, <2>1 DEF Rewriting, Ready
  <2>4. QED
    BY <1>1, <1>3, <2>1, <2>2, <2>3, WholeForOne
<1>12. CASE Reject(b)
  <2>1. /\ step[b] = "rejecting" /\ step'[b] = "failed" /\ docs' = docs
        /\ manifest' \in {manifest, [Marked(b) EXCEPT !.quality = "failed"]}
    BY <1>2, <1>12 DEF Reject
  <2>2. [Marked(b) EXCEPT !.quality = "failed"].state = "incomplete"
    BY <1>2 DEF Marked, Manifest
  <2>3. ~Ready'
    BY <1>4, <2>1, <2>2 DEF Rewriting, Ready
  <2>4. AnswerableIsWhole'
    BY <2>3 DEF AnswerableIsWhole
  <2>5. QED
    BY <1>1, <2>1, <2>3, <2>4, WholeForOne
<1>13. CASE MarkReady(b)
  <2> DEFINE ready == [state |-> "ready", quality |-> "passed", version |-> version[b]]
  <2>1. PICK o \in WriteOutcomes :
          /\ step' = [step EXCEPT ![b] = IF o.ok THEN "built" ELSE "failed"]
          /\ manifest' = IF o.applied THEN ready ELSE manifest
    BY <1>13 DEF MarkReady
  <2>2. step[b] = "publishing" /\ UNCHANGED <<docs, version>>
    BY <1>13 DEF MarkReady
  <2>3. Corpus(version[b]) \subseteq docs
    BY <2>2 DEF WholeInv, WholeOnceCounted
  <2>4. step'[b] \in {"built", "failed"} /\ (step'[b] = "built" => manifest' = ready)
    BY <1>2, <2>1, HeardWrites
  <2>5. AnswerableIsWhole'
    <3>1. CASE manifest' = manifest
      BY <1>3, <2>2, <3>1
    <3>2. CASE manifest' = ready
      BY <2>2, <2>3, <3>2 DEF AnswerableIsWhole, Corpus
    <3>3. QED
      BY <2>1, <3>1, <3>2
  <2>6. step'[b] = "built" => Ready' /\ manifest'.version = version'[b]
    BY <2>2, <2>4 DEF Ready
  <2>7. QED
    BY <1>1, <2>2, <2>3, <2>4, <2>5, <2>6, WholeForOne DEF Rewriting
<1>14. QED
  BY <1>5, <1>6, <1>7, <1>8, <1>9, <1>10, <1>11, <1>12, <1>13 DEF Rebuild

LEMMA WholeStep ==
  Validators = {} /\ TypeOK /\ AloneAtWork /\ WholeInv /\ [Next]_vars => WholeInv'
<1> SUFFICES ASSUME Validators = {}, TypeOK, AloneAtWork, WholeInv, [Next]_vars PROVE WholeInv'
  OBVIOUS
<1>1. IdleIsFresh'
  BY FreshStep DEF WholeInv
<1>2. ASSUME NEW b \in Builders, Rebuild(b) PROVE WholeInv'
  BY <1>1, <1>2, RebuildWhole
<1>3. ASSUME NEW b \in Builders, Request(b) \/ Coordinate(b) \/ Record(b) PROVE WholeInv'
  BY <1>1, <1>3, WholeKept DEF Request, Coordinate, Record, rebuildVars
<1>4. ASSUME NEW b \in Builders, Conclude(b) \/ Lose(b) PROVE WholeInv'
  <2>1. docs' = docs /\ manifest' = manifest /\ Forget(b)
    BY <1>4 DEF Conclude, Lose
  <2>2. QED
    BY <1>1, <2>1, WholeKept DEF Forget, TypeOK
<1>5. ASSUME NEW q \in Queries, Query(q) PROVE WholeInv'
  BY <1>1, <1>5, WholeKept DEF Query, LoadScope, PassGate, Search, NextCase, Inquire, rebuildVars
<1>6. CASE UNCHANGED vars
  BY <1>1, <1>6, WholeKept DEF vars, rebuildVars
<1>7. QED
  BY <1>2, <1>3, <1>4, <1>5, <1>6 DEF Next

LEMMA WholeInvariant ==
  Validators = {} /\ SlowBuilders = {} => (Spec => [](TypeOK /\ WholeInv))
<1> SUFFICES ASSUME Validators = {}, SlowBuilders = {} PROVE Spec => [](TypeOK /\ WholeInv)
  OBVIOUS
<1>1. Init => WholeInv
  BY DEF Init, WholeInv, IdleIsFresh, AnswerableIsWhole, BuiltIsAnswerable, ClosedWhileRewriting,
     UploadsAddUp, WholeOnceCounted, SweepsTheOthers, Ready, Rewriting, NoManifest
<1>2. Spec => []AloneAtWork
  BY Alone
<1>3. TypeOK /\ AloneAtWork /\ WholeInv /\ [Next]_vars => WholeInv'
  BY WholeStep
<1>4. QED
  BY <1>1, <1>2, <1>3, TypeCorrect, PTL DEF Spec

\* Whatever the index rejects or leaves unanswered, and wherever a rebuild dies: a
\* manifest that says `ready` stands over the whole corpus of its version.
THEOREM ReadyCorporaAreWhole ==
  Validators = {} /\ SlowBuilders = {} => (Spec => []AnswerableIsWhole)
<1> SUFFICES ASSUME Validators = {}, SlowBuilders = {} PROVE Spec => []AnswerableIsWhole
  OBVIOUS
<1>1. WholeInv => AnswerableIsWhole
  BY DEF WholeInv
<1>2. QED
  BY <1>1, WholeInvariant, PTL

\* A rebuild that is about to report success left its version answerable.
THEOREM SuccessMeansAnswerable ==
  Validators = {} /\ SlowBuilders = {} => (Spec => []BuiltIsAnswerable)
<1> SUFFICES ASSUME Validators = {}, SlowBuilders = {} PROVE Spec => []BuiltIsAnswerable
  OBVIOUS
<1>1. WholeInv => BuiltIsAnswerable
  BY DEF WholeInv
<1>2. QED
  BY <1>1, WholeInvariant, PTL

\* Nothing writes to a corpus a query may be matched against.
THEOREM CorpusIsWrittenBehindTheGate ==
  Validators = {} /\ SlowBuilders = {} => (Spec => WrittenOnlyWhileUnanswerable)
<1> SUFFICES ASSUME Validators = {}, SlowBuilders = {} PROVE Spec => WrittenOnlyWhileUnanswerable
  OBVIOUS
<1>1. WholeInv /\ [Next]_vars => [docs' # docs => ~Ready]_vars
  <2> SUFFICES ASSUME WholeInv, Next, docs' # docs PROVE ~Ready
    OBVIOUS
  <2>1. PICK b \in Builders : Upload(b) \/ Sweep(b)
    BY DEF Next, Request, Coordinate, Conclude, Record, Lose, Rebuild, Collect, Mark,
       CountAcknowledgements, FindStale, Judge, Reject, MarkReady, Abort, Validate, Expect,
       Compare, ReadManifest, Annotate, GiveUp, Check, Query, LoadScope, PassGate, Search,
       NextCase, Inquire, rebuildVars
  <2>2. QED
    BY <2>1 DEF Upload, Sweep, Turn, WholeInv, ClosedWhileRewriting, Rewriting
<1>2. QED
  BY <1>1, WholeInvariant, PTL DEF Spec, WrittenOnlyWhileUnanswerable
=============================================================================
