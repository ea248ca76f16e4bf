------------------------------ MODULE BuildSlot ------------------------------
(***************************************************************************)
(* The one build slot of a deployment: who may rebuild a policy index, how *)
(* a build reports that it is alive, how it ends, and how the slot of a    *)
(* dead build is taken back (search/policy_index_build_progress.py, and    *)
(* run_tracked_policy_index_build in search/policy_index.py).              *)
(*                                                                         *)
(* An element of Builders is one caller: a publish, or a rebuild request   *)
(* that is sent again after a refusal.  rows holds the history row of its  *)
(* latest attempt; earlier rows are terminal and nobody reads them here.   *)
(*                                                                         *)
(* A builder works through its own database session.  view is what that    *)
(* session believes of the builder's own row: the value it loaded, which a *)
(* commit does not refresh, or "expired" after a rollback.  Reading an     *)
(* attribute of an expired object raises, a session.get of it reloads it.  *)
(*                                                                         *)
(* The lease is two hours without a write.  Time is not modelled: Lapse    *)
(* says which silences may last that long.                                 *)
(***************************************************************************)
EXTENDS FiniteSets

CONSTANTS
  Builders,          (* callers that want to build an index                  *)
  Projects,          (* policy sets                                          *)
  SlowBuilders,      (* builders that may stay silent for a lease and live on *)
  DeletableProjects, (* projects an administrator may delete                 *)
  CommitFaults       (* how a commit may raise, as in CaseDecision           *)

ASSUME BuildSlotAssumption ==
  /\ SlowBuilders \subseteq Builders
  /\ DeletableProjects \subseteq Projects
  /\ CommitFaults \subseteq {"refused", "unacknowledged"}

VARIABLES
  projects,   (* the projects that exist                                      *)
  target,     (* the project each builder builds                              *)
  trigger,    (* why it builds it: a publish, or a rebuild request            *)
  rows,       (* policy_index_builds                                          *)
  lapsed,     (* builders whose row has not been written for a lease          *)
  pc,         (* where each builder is                                        *)
  view,       (* what its session holds of its own row                        *)
  stale,      (* the rows reclaim_abandoned_builds has selected               *)
  built       (* whether the rebuild that has just ended built the index      *)

slotVars == <<projects, target, trigger, rows, lapsed, pc, view, stale, built>>

-----------------------------------------------------------------------------
Triggers == {"publish", "rebuild"}

Terminal == {"completed", "failed", "deferred"}

Statuses == {"none", "running"} \cup Terminal

Row == [status : Statuses, slot : BOOLEAN]

NoRow == [status |-> "none", slot |-> FALSE]

Running == [status |-> "running", slot |-> TRUE]

Ended(status) == [status |-> status, slot |-> FALSE]

InFlight == {"selecting", "reclaiming", "inserting", "deferring",
             "working", "finishing", "recording"}

\* Whether a commit took effect, and whether the caller saw it succeed.
CommitOutcomes ==
  {[applied |-> TRUE, ok |-> TRUE]} \cup
  {[applied |-> f = "unacknowledged", ok |-> FALSE] : f \in CommitFaults}

Holds(b) == rows[b].slot

Building(b) == pc[b] \in {"working", "finishing"}

SlotInit ==
  /\ projects = Projects
  /\ target \in [Builders -> Projects]
  /\ trigger = [b \in Builders |-> "rebuild"]
  /\ rows = [b \in Builders |-> NoRow]
  /\ lapsed = {}
  /\ pc = [b \in Builders |-> "idle"]
  /\ view = [b \in Builders |-> "expired"]
  /\ stale = [b \in Builders |-> {}]
  /\ built = [b \in Builders |-> FALSE]

Goto(b, from, to) == pc[b] = from /\ pc' = [pc EXCEPT ![b] = to]

\* The caller finds its project and asks for a build, in a new session: a
\* publish once its version is committed, a rebuild request at once.
Ask(b, why) ==
  /\ target[b] \in projects
  /\ trigger' = [trigger EXCEPT ![b] = why]
  /\ Goto(b, "idle", "selecting")
  /\ view' = [view EXCEPT ![b] = "expired"]
  /\ built' = [built EXCEPT ![b] = FALSE]
  /\ UNCHANGED <<projects, target, rows, lapsed, stale>>

\* Mutants: the lease is not looked at; it is compared the wrong way round; the
\* query does not ask for rows that hold the slot, and an ended row is an old one.
EveryHolder == {d \in Builders : Holds(d)}
FreshHolders == {d \in Builders : Holds(d) /\ d \notin lapsed}
OldRows == {d \in Builders : rows[d] # NoRow /\ (Holds(d) => d \in lapsed)}

\* The slot holders past their lease.
Abandoned == {d \in Builders : Holds(d) /\ d \in lapsed}

\* reclaim_abandoned_builds, first half: it looks for them.
Select(b) ==
  /\ Goto(b, "selecting", IF Abandoned = {} THEN "inserting" ELSE "reclaiming")
  /\ stale' = [stale EXCEPT ![b] = Abandoned]
  /\ UNCHANGED <<projects, target, trigger, rows, lapsed, view, built>>

\* Second half: it fails those rows and takes their slot away, whatever they
\* have become since.  An UPDATE of a row deleted meanwhile raises.
Reclaim(b) ==
  /\ \E o \in CommitOutcomes :
       /\ o.applied => \A d \in stale[b] : rows[d] # NoRow
       /\ rows' = IF o.applied
                  THEN [d \in Builders |-> IF d \in stale[b] THEN Ended("failed") ELSE rows[d]]
                  ELSE rows
       /\ Goto(b, "reclaiming", IF o.ok THEN "inserting" ELSE "error")
  /\ stale' = [stale EXCEPT ![b] = {}]
  /\ UNCHANGED <<projects, target, trigger, lapsed, view, built>>

ReclaimDeleted(b) ==
  /\ \E d \in stale[b] : rows[d] = NoRow
  /\ Goto(b, "reclaiming", "error")
  /\ stale' = [stale EXCEPT ![b] = {}]
  /\ UNCHANGED <<projects, target, trigger, rows, lapsed, view, built>>

\* Mutant: no constraint on active_slot.
SlotIsUnguarded == FALSE

\* The unique constraint on active_slot, which only a running row fills.
SlotIsTaken == \E d \in Builders : Holds(d)

\* The INSERT of a running row that holds the slot.  That constraint, the one on
\* operation_id or the foreign key to a deleted project refuses it; an attempt
\* that is refused starts nothing.
Insert(b) ==
  /\ IF SlotIsTaken \/ target[b] \notin projects
     THEN Goto(b, "inserting", "deferring") /\ UNCHANGED <<rows, lapsed, view>>
     ELSE \/ \E o \in CommitOutcomes :
               /\ Goto(b, "inserting", IF o.ok THEN "working" ELSE "error")
               /\ rows' = IF o.applied THEN [rows EXCEPT ![b] = Running] ELSE rows
               /\ lapsed' = IF o.applied THEN lapsed \ {b} ELSE lapsed
               /\ view' = [view EXCEPT ![b] = IF o.ok THEN "running" ELSE "expired"]
          \/ Goto(b, "inserting", "deferring") /\ UNCHANGED <<rows, lapsed, view>>
  /\ UNCHANGED <<projects, target, trigger, stale, built>>

\* A refused attempt is kept in the history as a deferred row, if it can be.
\* The refusal came with a rollback, so the publish, which goes on to read
\* policy_set.id, fails.  The rebuild request answers 409 and quotes the build
\* that runs, which it read since; if its own row is refused too, that rollback
\* expires what it read, if it had read anything.
Defer(b) ==
  /\ \/ /\ target[b] \in projects
        /\ \E o \in CommitOutcomes :
             /\ rows' = IF o.applied THEN [rows EXCEPT ![b] = Ended("deferred")] ELSE rows
             /\ Goto(b, "deferring",
                     IF o.ok /\ trigger[b] = "rebuild" THEN "refused" ELSE "error")
     \/ /\ UNCHANGED rows
        /\ \E quoted \in BOOLEAN :
             Goto(b, "deferring",
                  IF trigger[b] = "publish" \/ quoted THEN "error" ELSE "refused")
  /\ UNCHANGED <<projects, target, trigger, lapsed, view, stale, built>>

\* RecordedBuildProgress._write, at every stage boundary.  It does nothing to
\* a row it finds settled; it writes the stage, and with it the time, of a row
\* its session believes running; what goes wrong it swallows, by a rollback.
Report(b) ==
  LET believed == IF view[b] = "expired" THEN rows[b].status ELSE view[b]
      exists == rows[b] # NoRow
  IN  \/ /\ believed = "running"
         /\ \E o \in CommitOutcomes :
              /\ o.applied => exists
              /\ lapsed' = IF o.applied THEN lapsed \ {b} ELSE lapsed
              /\ view' = [view EXCEPT ![b] = IF o.ok THEN "running" ELSE "expired"]
      \/ /\ believed = "running" /\ ~exists
         /\ view' = [view EXCEPT ![b] = "expired"]
         /\ UNCHANGED lapsed
      \/ /\ believed # "running"
         /\ view' = [view EXCEPT ![b] = IF exists THEN believed ELSE view[b]]
         /\ UNCHANGED lapsed

Work(b) ==
  /\ pc[b] = "working"
  /\ Report(b)
  /\ UNCHANGED <<projects, target, trigger, rows, pc, stale, built>>

\* The rebuild ends, well or badly: an exception is an outcome like another.
EndRebuild(b, well) ==
  /\ Goto(b, "working", "finishing")
  /\ built' = [built EXCEPT ![b] = well]
  /\ UNCHANGED <<projects, target, trigger, rows, lapsed, view, stale>>

\* The finally block: finish_build(session, build.id, ...).  It makes the row
\* terminal and releases the slot in one statement and never looks at what the
\* row says.  An UPDATE of a deleted row raises and is swallowed; build.id of an
\* expired object is not.  After a rollback the caller's own objects are expired
\* too, so the caller fails on the next attribute it reads.
Finish(b) ==
  /\ \/ /\ view[b] = "expired"
        /\ Goto(b, "finishing", "error")
        /\ UNCHANGED rows
     \/ /\ view[b] # "expired" /\ rows[b] = NoRow
        /\ Goto(b, "finishing", "error")
        /\ UNCHANGED rows
     \/ /\ view[b] # "expired" /\ rows[b] # NoRow
        /\ \E o \in CommitOutcomes :
             /\ Goto(b, "finishing", IF o.ok THEN "recording" ELSE "error")
             /\ rows' = IF o.applied
                        THEN [rows EXCEPT ![b] =
                                Ended(IF built[b] THEN "completed" ELSE "failed")]
                        ELSE rows
  /\ UNCHANGED <<projects, target, trigger, lapsed, view, stale, built>>

\* The caller writes the project's latest-state row and answers.  The foreign
\* key to a deleted project, or the commit, may raise.
RecordState(b) ==
  /\ \/ /\ target[b] \in projects
        /\ Goto(b, "recording", "done")
     \/ /\ target[b] \notin projects \/ CommitFaults # {}
        /\ Goto(b, "recording", "error")
  /\ UNCHANGED <<projects, target, trigger, rows, lapsed, view, stale, built>>

\* A caller that was answered may ask again.
Again(b) ==
  /\ pc[b] \in {"refused", "done"}
  /\ pc' = [pc EXCEPT ![b] = "idle"]
  /\ UNCHANGED <<projects, target, trigger, rows, lapsed, view, stale, built>>

\* The process of a builder dies.
Die(b) ==
  /\ pc[b] \in InFlight
  /\ pc' = [pc EXCEPT ![b] = "lost"]
  /\ UNCHANGED <<projects, target, trigger, rows, lapsed, view, stale, built>>

\* Two hours pass without a write to the row of a builder that is gone, or slow.
Lapse(b) ==
  /\ Holds(b) /\ b \notin lapsed
  /\ ~Building(b) \/ b \in SlowBuilders
  /\ lapsed' = lapsed \cup {b}
  /\ UNCHANGED <<projects, target, trigger, rows, pc, view, stale, built>>

\* Deleting a project deletes its build rows with it, the running one included.
DeleteProject(p) ==
  /\ p \in projects \cap DeletableProjects
  /\ projects' = projects \ {p}
  /\ rows' = [b \in Builders |-> IF target[b] = p THEN NoRow ELSE rows[b]]
  /\ UNCHANGED <<target, trigger, lapsed, pc, view, stale, built>>

\* What the builder's own code does next, once it has asked.
Proceed(b) ==
  \/ Select(b) \/ Reclaim(b) \/ ReclaimDeleted(b) \/ Insert(b) \/ Defer(b)
  \/ (\E well \in BOOLEAN : EndRebuild(b, well)) \/ Finish(b) \/ RecordState(b)

SlotNext ==
  \/ \E b \in Builders :
       \/ \E why \in Triggers : Ask(b, why)
       \/ Proceed(b) \/ Work(b) \/ Again(b) \/ Die(b) \/ Lapse(b)
  \/ \E p \in Projects : DeleteProject(p)

\* A live process goes on with its code, time passes, and whoever was refused
\* asks again: without that nobody reclaims anything, for nothing sweeps.
Fairness ==
  \A b \in Builders :
    /\ WF_slotVars(Proceed(b))
    /\ WF_slotVars(Lapse(b))
    /\ WF_slotVars(\E why \in Triggers : Ask(b, why))
    /\ WF_slotVars(Again(b))

SlotSpec == SlotInit /\ [][SlotNext]_slotVars
FairSpec == SlotSpec /\ Fairness

-----------------------------------------------------------------------------
SlotTypeOK ==
  /\ projects \subseteq Projects
  /\ target \in [Builders -> Projects]
  /\ trigger \in [Builders -> Triggers]
  /\ rows \in [Builders -> Row]
  /\ lapsed \subseteq Builders
  /\ pc \in [Builders -> InFlight \cup {"idle", "refused", "done", "error", "lost"}]
  /\ view \in [Builders -> Statuses \cup {"expired"}]
  /\ stale \in [Builders -> SUBSET Builders]
  /\ built \in [Builders -> BOOLEAN]

\* A build cannot end without releasing the slot, or release it without ending:
\* reclaiming, finishing, deferring and teardown all keep the two columns in step.
RunningHoldsTheSlot ==
  \A b \in Builders : Holds(b) <=> rows[b].status = "running"

\* A builder that keeps reporting, of a project nobody deletes under it.
Steady(b) == b \notin SlowBuilders /\ target[b] \in projects

\* Nobody takes the slot from a build that is alive: neither a reclaim prepared
\* earlier, nor the lease of an earlier attempt, nor another build's ending.
LiveBuildKeepsTheSlot ==
  \A b \in Builders : Building(b) /\ Steady(b) => Holds(b)

\* Two builds never run at once, across any number of replicas.
OneBuildAtATime ==
  \A b, d \in Builders :
    Building(b) /\ Building(d) /\ Steady(b) /\ Steady(d) => b = d

\* A history row that says how an attempt of a steady builder ended is not revised
\* by a reclaim or by the attempt itself; only the next attempt replaces it.
HistoryIsFinal ==
  [][\A b \in Builders :
       rows[b].status \in Terminal /\ pc[b] \notin {"inserting", "deferring"}
         /\ b \notin SlowBuilders /\ target[b] \in projects'
         => rows'[b] = rows[b]]_slotVars

\* Whether anyone is left to ask for the slot.
Deserted == \A b \in Builders : pc[b] \in {"lost", "error"} \/ target[b] \notin projects

\* A slot whose holder died is given back: its lease lapses and the next caller
\* takes it away, if there is one.
DeadBuildsReleaseTheSlot ==
  \A b \in Builders :
    (Holds(b) /\ pc[b] \in {"lost", "error"}) ~> (~Holds(b) \/ Deserted)
=============================================================================
