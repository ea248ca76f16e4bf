----------------------------- MODULE Publication -----------------------------
(***************************************************************************)
(* From candidate rules to published versions, in one project: review,     *)
(* bulk review, override, request for changes, edit, publish, import       *)
(* (api/routers/candidate_rules.py, policy_sets.py,                        *)
(* persistence/policy_version_import.py).                                  *)
(*                                                                         *)
(* Every handler reads in one or several statements and commits once, at   *)
(* READ COMMITTED and without row locks on what it read, so what it writes *)
(* may rest on rows that have changed since.  A statement that reads is a  *)
(* step; the writes of a handler are one step, its commit.  SQLAlchemy     *)
(* updates only the columns that differ from the value it loaded.          *)
(*                                                                         *)
(* A handler serves one request after another.  A candidate is the rank of *)
(* its row in creation order.  The content of a rule says where it comes   *)
(* from: the draft, an edit, or an import.                                 *)
(***************************************************************************)
EXTENDS Naturals

CONSTANTS
  Handlers,         (* concurrent requests                                    *)
  Candidates,       (* candidate rows, as ranks in creation order             *)
  Rules,            (* rule ids                                               *)
  MaxVersion,       (* bound: the highest version number                      *)
  Kinds,            (* the requests that arrive                               *)
  Imports,          (* the sets of rules an import may bring                  *)
  ExplicitNumbers   (* whether callers choose version numbers freely          *)

ASSUME PublicationAssumption ==
  /\ Candidates \subseteq Nat
  /\ \A some \in (SUBSET Candidates) \ {{}} : \E c \in some : \A d \in some : d <= c
  /\ MaxVersion \in Nat
  /\ Kinds \subseteq {"review", "override", "request", "edit", "publish", "import"}
  /\ Imports \subseteq SUBSET Rules
  /\ ExplicitNumbers \in BOOLEAN

VARIABLES
  rule,       (* the rule id in each candidate's payload                      *)
  rows,       (* candidate_rules                                              *)
  versions,   (* approved_policy_versions with their rules, by number         *)
  pc,         (* where each handler is                                        *)
  op,         (* what it was asked to do                                      *)
  batch,      (* what it loaded of which candidates                           *)
  number,     (* publish: the number of the new version                       *)
  merged,     (* publish: the rules of the new version                        *)
  off         (* publish: the versions it found active                        *)

vars == <<rule, rows, versions, pc, op, batch, number, merged, off>>
handlerVars == <<op, batch, number, merged, off>>

-----------------------------------------------------------------------------
Editable == {"candidate", "rejected", "changes_requested"}

Statuses == Editable \cup {"approved", "published"}

Contents == {"draft", "edited"}

Row == [status : Statuses, content : Contents, published : 0 .. MaxVersion,
        superseded : BOOLEAN]

RuleSets == [Rules -> Contents \cup {"imported", "absent"}]

Batches == UNION {[some -> Statuses \cup Contents] : some \in SUBSET Candidates}

Version == [active : BOOLEAN, rules : RuleSets]

Empty == [r \in Rules |-> "absent"]

Decisions == {"approved", "rejected"}

Operations ==
  [kind : {"review", "override"}, to : Decisions]
    \cup {[kind |-> "request", to |-> "changes_requested"],
          [kind |-> "edit", to |-> "edited"]}
    \cup [kind : {"publish", "import"}, to : {"active", "inactive"}]

Nothing == [kind |-> "none", to |-> "none"]

\* The status a request needs the candidate to have.
Permits(operation, status) ==
  CASE operation.kind \in {"review", "edit"} -> status \in Editable
    [] operation.kind = "request" -> status = "approved"
    [] operation.kind = "override" -> status # "published"
    [] OTHER -> FALSE

\* What a handler will need of a candidate row it loads.
Loaded(kind, row) == IF kind \in {"edit", "publish"} THEN row.content ELSE row.status

\* The UPDATE of a column: none, if it is to become what was loaded.
Assign(stored, loaded, wanted) == IF wanted = loaded THEN stored ELSE wanted

\* The rows as a handler's commit leaves them.  What a publish loaded is approved
\* and has no version yet, so both columns are always written.
UpdatedRow(k, c) ==
  CASE op[k].kind = "edit" ->
         [rows[c] EXCEPT !.content = Assign(@, batch[k][c], "edited")]
    [] op[k].kind = "publish" ->
         [rows[c] EXCEPT !.status = "published", !.published = number[k]]
    [] OTHER ->
         [rows[c] EXCEPT !.status = Assign(@, batch[k][c], op[k].to)]

Flushed(k) ==
  [c \in Candidates |-> IF c \in DOMAIN batch[k] THEN UpdatedRow(k, c) ELSE rows[c]]

Latest(S) == CHOOSE n \in S : \A m \in S : m <= n

ActiveVersions == {n \in DOMAIN versions : versions[n].active}

\* get_active_version: of the active versions, the one with the highest number.
CurrentRules ==
  IF ActiveVersions = {} THEN Empty ELSE versions[Latest(ActiveVersions)].rules

\* Mutant: a version holds what was newly approved and nothing else.
Delta(loaded) ==
  [r \in Rules |->
     LET named == {c \in DOMAIN loaded : rule[c] = r}
     IN  IF named = {} THEN "absent" ELSE loaded[Latest(named)]]

\* A full snapshot: the rules in force, each superseded by the last candidate of
\* the batch that has its id.
Snapshot(loaded) ==
  [r \in Rules |->
     LET named == {c \in DOMAIN loaded : rule[c] = r}
     IN  IF named = {} THEN CurrentRules[r] ELSE loaded[Latest(named)]]

Init ==
  /\ rule \in [Candidates -> Rules]
  /\ rows = [c \in Candidates |-> [status |-> "candidate", content |-> "draft",
                                   published |-> 0, superseded |-> FALSE]]
  /\ versions = [n \in {} |-> [active |-> FALSE, rules |-> Empty]]
  /\ pc = [k \in Handlers |-> "idle"]
  /\ op = [k \in Handlers |-> Nothing]
  /\ batch = [k \in Handlers |-> [c \in {} |-> "none"]]
  /\ number = [k \in Handlers |-> 0]
  /\ merged = [k \in Handlers |-> Empty]
  /\ off = [k \in Handlers |-> {}]

Goto(k, from, to) == pc[k] = from /\ pc' = [pc EXCEPT ![k] = to]

\* The session closes: what the handler held is gone.
Leave(k) ==
  /\ pc' = [pc EXCEPT ![k] = "idle"]
  /\ op' = [op EXCEPT ![k] = Nothing]
  /\ batch' = [batch EXCEPT ![k] = [c \in {} |-> "none"]]
  /\ number' = [number EXCEPT ![k] = 0]
  /\ merged' = [merged EXCEPT ![k] = Empty]
  /\ off' = [off EXCEPT ![k] = {}]

-----------------------------------------------------------------------------
(* Handlers that change candidates.                                          *)

\* get_by_id and the status check.  Nobody looks at superseded_at.
Load(k, c, operation) ==
  /\ operation.kind \in Kinds
  /\ Permits(operation, rows[c].status)
  /\ Goto(k, "idle", "storing")
  /\ op' = [op EXCEPT ![k] = operation]
  /\ batch' = [batch EXCEPT ![k] = [d \in {c} |-> Loaded(operation.kind, rows[c])]]
  /\ UNCHANGED <<rule, rows, versions, number, merged, off>>

\* A bulk review loads its candidates one after the other and skips those that
\* are not editable.
LoadAnother(k, c) ==
  /\ pc[k] = "storing" /\ op[k].kind = "review"
  /\ c \notin DOMAIN batch[k]
  /\ Permits(op[k], rows[c].status)
  /\ batch' = [batch EXCEPT ![k] =
                 [d \in DOMAIN batch[k] \cup {c} |->
                    IF d = c THEN Loaded("review", rows[c]) ELSE batch[k][d]]]
  /\ UNCHANGED <<rule, rows, versions, pc, op, number, merged, off>>

Store(k) ==
  /\ pc[k] = "storing"
  /\ rows' = Flushed(k)
  /\ Leave(k)
  /\ UNCHANGED <<rule, versions>>

\* A new extraction of the document retires what nobody has decided on, in one
\* conditional UPDATE.
Supersede(c) ==
  /\ rows[c].status = "candidate" /\ rows[c].published = 0 /\ ~rows[c].superseded
  /\ rows' = [rows EXCEPT ![c].superseded = TRUE]
  /\ UNCHANGED <<rule, versions, pc, handlerVars>>

-----------------------------------------------------------------------------
(* Publish: four reads, then one commit.                                     *)

Publishable == {c \in Candidates :
  rows[c].status = "approved" /\ rows[c].published = 0 /\ ~rows[c].superseded}

List(k, to) ==
  /\ "publish" \in Kinds
  /\ Publishable # {}
  /\ Goto(k, "idle", "numbering")
  /\ op' = [op EXCEPT ![k] = [kind |-> "publish", to |-> to]]
  /\ batch' = [batch EXCEPT ![k] = [c \in Publishable |-> Loaded("publish", rows[c])]]
  /\ UNCHANGED <<rule, rows, versions, number, merged, off>>

\* get_max_version_number() + 1, unless the caller names the number.
NextNumber == IF DOMAIN versions = {} THEN 1 ELSE Latest(DOMAIN versions) + 1

\* What it may be: where callers do not choose freely, an import comes with the
\* number its caller saw to be next.
Numbers == {n \in 1 .. MaxVersion : n = NextNumber \/ ExplicitNumbers}

ChooseNumber(k) ==
  /\ Goto(k, "numbering", "merging")
  /\ \E n \in Numbers : number' = [number EXCEPT ![k] = n]
  /\ UNCHANGED <<rule, rows, versions, op, batch, merged, off>>

MergeRules(k) ==
  /\ Goto(k, "merging", IF op[k].to = "active" THEN "deactivating" ELSE "inserting")
  /\ merged' = [merged EXCEPT ![k] = Snapshot(batch[k])]
  /\ UNCHANGED <<rule, rows, versions, op, batch, number, off>>

\* deactivate_all sees the versions that are committed.
DeactivateAll(k) ==
  /\ Goto(k, "deactivating", "inserting")
  /\ off' = [off EXCEPT ![k] = ActiveVersions]
  /\ UNCHANGED <<rule, rows, versions, op, batch, number, merged>>

\* The unique constraint on (policy set, version number).
NumberIsTaken(k) == number[k] \in DOMAIN versions

\* Mutant: a number that is taken is replaced by the next one at the commit.
InsertRenumbered(k) ==
  /\ pc[k] = "inserting"
  /\ NextNumber <= MaxVersion
  /\ versions' = [n \in DOMAIN versions \cup {NextNumber} |->
                    IF n = NextNumber
                    THEN [active |-> op[k].to = "active", rules |-> merged[k]]
                    ELSE [versions[n] EXCEPT !.active = @ /\ n \notin off[k]]]
  /\ rows' = Flushed(k)
  /\ Leave(k)
  /\ UNCHANGED rule

\* The commit: the version, the deactivations and the candidates' new status, or
\* nothing of it.
Insert(k) ==
  /\ pc[k] = "inserting"
  /\ ~NumberIsTaken(k)
  /\ versions' = [n \in DOMAIN versions \cup {number[k]} |->
                    IF n = number[k]
                    THEN [active |-> op[k].to = "active", rules |-> merged[k]]
                    ELSE [versions[n] EXCEPT !.active = @ /\ n \notin off[k]]]
  /\ rows' = Flushed(k)
  /\ Leave(k)
  /\ UNCHANGED rule

\* POST /versions: the caller brings number and rules, and no candidates.
Import(k, to) ==
  /\ "import" \in Kinds
  /\ Goto(k, "idle", IF to = "active" THEN "deactivating" ELSE "inserting")
  /\ op' = [op EXCEPT ![k] = [kind |-> "import", to |-> to]]
  /\ \E n \in Numbers : number' = [number EXCEPT ![k] = n]
  /\ \E brought \in Imports :
       merged' = [merged EXCEPT ![k] =
                    [r \in Rules |-> IF r \in brought THEN "imported" ELSE "absent"]]
  /\ UNCHANGED <<rule, rows, versions, batch, off>>

\* Mutant: the candidates keep their new status when the version is refused.
AbortKeepingRows(k) ==
  /\ pc[k] # "idle"
  /\ rows' = Flushed(k)
  /\ Leave(k)
  /\ UNCHANGED <<rule, versions>>

\* A number that is taken, a commit that fails, a process that dies: nothing of
\* what the handler did remains.
Abort(k) ==
  /\ pc[k] # "idle"
  /\ Leave(k)
  /\ UNCHANGED <<rule, rows, versions>>

Next ==
  \/ \E k \in Handlers :
       \/ \E c \in Candidates, operation \in Operations : Load(k, c, operation)
       \/ \E c \in Candidates : LoadAnother(k, c)
       \/ \E to \in {"active", "inactive"} : List(k, to) \/ Import(k, to)
       \/ ChooseNumber(k) \/ MergeRules(k) \/ DeactivateAll(k)
       \/ Store(k) \/ Insert(k) \/ Abort(k)
  \/ \E c \in Candidates : Supersede(c)

Spec == Init /\ [][Next]_vars

-----------------------------------------------------------------------------
TypeOK ==
  /\ rule \in [Candidates -> Rules]
  /\ rows \in [Candidates -> Row]
  /\ DOMAIN versions \subseteq 1 .. MaxVersion
  /\ versions \in [DOMAIN versions -> Version]
  /\ pc \in [Handlers -> {"idle", "storing", "numbering", "merging", "deactivating",
                          "inserting"}]
  /\ op \in [Handlers -> Operations \cup {Nothing}]
  /\ batch \in [Handlers -> Batches]
  /\ number \in [Handlers -> 0 .. MaxVersion]
  /\ merged \in [Handlers -> RuleSets]
  /\ off \in [Handlers -> SUBSET (1 .. MaxVersion)]

\* At most one version of a project is active, however many publishes race.
OneActiveVersion == \A m, n \in ActiveVersions : m = n

\* A row that says it was published names a version that holds its rule.
PublishedRowsNameTheirVersion ==
  \A c \in Candidates :
    rows[c].status = "published" =>
      /\ rows[c].published \in DOMAIN versions
      /\ versions[rows[c].published].rules[rule[c]] # "absent"
=============================================================================
