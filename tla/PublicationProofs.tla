-------------------------- MODULE PublicationProofs --------------------------
(* Proofs that racing publications keep one version active, lose no rule and  *)
(* leave no gap, for any number of handlers, candidates, rules and versions.  *)
EXTENDS PublicationLedger, TLAPS

-----------------------------------------------------------------------------
(* What a handler holds at each place, whatever the numbers are.             *)

Writing == {"deactivating", "inserting"}
Numbered == {"merging"} \cup Writing

\* A handler holds what it has to hold where it is.
Held(k) ==
  /\ pc[k] = "storing" => op[k].kind \in {"review", "override", "request", "edit"}
  /\ pc[k] \in {"numbering", "merging"} => op[k].kind = "publish"
  /\ pc[k] \in Writing => op[k].kind \in {"publish", "import"}
  /\ pc[k] = "deactivating" => op[k].to = "active"
  /\ op[k].kind = "publish" => \A c \in DOMAIN batch[k] : batch[k][c] \in Contents
  /\ pc[k] = "idle" \/ op[k].kind = "import" => DOMAIN batch[k] = {}
  /\ pc[k] \in Numbered => number[k] \in 1 .. MaxVersion
  /\ pc[k] \in Writing =>
       \/ op[k].kind = "publish" /\ \A c \in DOMAIN batch[k] : merged[k][rule[c]] # "absent"
       \/ op[k].kind = "import" /\ merged[k] \in [Rules -> {"imported", "absent"}]

HandlerInv == TypeOK /\ \A k \in Handlers : Held(k)

LEMMA LatestOfCandidates ==
  ASSUME NEW S, S \subseteq Candidates, S # {}
  PROVE  Latest(S) \in S
BY PublicationAssumption DEF Latest

LEMMA BatchType ==
  ASSUME NEW loaded \in Batches
  PROVE  /\ DOMAIN loaded \subseteq Candidates
         /\ \A c \in DOMAIN loaded : loaded[c] \in Statuses \cup Contents
BY DEF Batches

LEMMA IsBatch ==
  ASSUME NEW some \in SUBSET Candidates, NEW loaded \in [some -> Statuses \cup Contents]
  PROVE  loaded \in Batches
BY DEF Batches

LEMMA OperationFields ==
  \A o \in Operations \cup {Nothing} :
    /\ o.kind \in {"review", "override", "request", "edit", "publish", "import", "none"}
    /\ o.kind \in {"review", "override"} => o.to \in Decisions
    /\ o.kind = "request" => o.to = "changes_requested"
    /\ o.kind \in {"publish", "import"} => o.to \in {"active", "inactive"}
BY DEF Operations, Nothing, Decisions

\* The rules in force are a rule set.
LEMMA CurrentRulesType ==
  ASSUME TypeOK, \A m, n \in ActiveVersions : m = n
  PROVE  CurrentRules \in RuleSets
BY PublicationAssumption DEF CurrentRules, TypeOK, ActiveVersions, Latest, Version, RuleSets, Empty

\* A merge has a value for each rule, a publication's for each rule of its batch.
LEMMA SnapshotType ==
  ASSUME TypeOK, OneActiveVersion, NEW k \in Handlers,
         \A c \in DOMAIN batch[k] : batch[k][c] \in Contents
  PROVE  /\ Snapshot(batch[k]) \in RuleSets
         /\ \A c \in DOMAIN batch[k] : Snapshot(batch[k])[rule[c]] \in Contents
<1>1. CurrentRules \in RuleSets
  BY CurrentRulesType DEF OneActiveVersion
<1> DEFINE Named(r) == {c \in DOMAIN batch[k] : rule[c] = r}
<1>2. ASSUME NEW r \in Rules, Named(r) # {}
      PROVE  batch[k][Latest(Named(r))] \in Contents
  <2>1. Named(r) \subseteq Candidates
    BY BatchType DEF TypeOK
  <2>2. QED
    BY <1>2, <2>1, LatestOfCandidates
<1>3. Snapshot(batch[k]) =
        [r \in Rules |-> IF Named(r) = {} THEN CurrentRules[r]
                         ELSE batch[k][Latest(Named(r))]]
  BY DEF Snapshot
<1> HIDE DEF Named
<1>4. Snapshot(batch[k]) \in RuleSets
  BY <1>1, <1>2, <1>3 DEF RuleSets
<1>5. ASSUME NEW c \in DOMAIN batch[k] PROVE Snapshot(batch[k])[rule[c]] \in Contents
  <2>1. rule[c] \in Rules /\ Named(rule[c]) # {}
    BY BatchType DEF TypeOK, Named
  <2>2. QED
    BY <1>2, <1>3, <2>1
<1>6. QED
  BY <1>4, <1>5

\* A handler that does nothing holds what it held.
LEMMA HeldByOthers ==
  ASSUME NEW j \in Handlers, Held(j),
         pc'[j] = pc[j], op'[j] = op[j], batch'[j] = batch[j], number'[j] = number[j],
         merged'[j] = merged[j], rule' = rule
  PROVE  Held(j)'
BY DEF Held, Writing, Numbered

\* Leaving a handler keeps the types, and it holds nothing then.
LEMMA LeaveStep ==
  ASSUME HandlerInv, NEW k \in Handlers, Leave(k), rule' = rule
  PROVE  /\ rule' \in [Candidates -> Rules]
         /\ pc' \in [Handlers -> {"idle", "storing", "numbering", "merging",
                                  "deactivating", "inserting"}]
         /\ op' \in [Handlers -> Operations \cup {Nothing}]
         /\ batch' \in [Handlers -> Batches]
         /\ number' \in [Handlers -> 0 .. MaxVersion]
         /\ merged' \in [Handlers -> RuleSets]
         /\ off' \in [Handlers -> SUBSET (1 .. MaxVersion)]
         /\ \A j \in Handlers : Held(j)'
<1> USE PublicationAssumption DEF HandlerInv
<1>1. Empty \in RuleSets
  BY DEF Empty, RuleSets
<1>2. merged' \in [Handlers -> RuleSets]
  BY <1>1 DEF TypeOK, Leave
<1>3. batch' \in [Handlers -> Batches]
  <2>1. [c \in {} |-> "none"] \in [{} -> Statuses \cup Contents]
    OBVIOUS
  <2>2. [c \in {} |-> "none"] \in Batches
    BY <2>1, IsBatch
  <2>3. QED
    BY <2>2 DEF Leave, TypeOK
<1>4. ASSUME NEW j \in Handlers PROVE Held(j)'
  <2>1. CASE j = k
    BY <2>1 DEF Leave, TypeOK, Held, Writing, Numbered, Nothing
  <2>2. CASE j # k
    BY <2>2, HeldByOthers DEF Leave, TypeOK
  <2>3. QED
    BY <2>1, <2>2
<1>5. QED
  BY <1>2, <1>3, <1>4 DEF TypeOK, Leave

\* What a commit leaves in the rows are rows.
LEMMA FlushedType ==
  ASSUME HandlerInv, NEW k \in Handlers, pc[k] \in {"storing", "inserting"}
  PROVE  Flushed(k) \in [Candidates -> Row]
<1>1. ASSUME NEW c \in DOMAIN batch[k] PROVE UpdatedRow(k, c) \in Row
  <2>1. /\ c \in Candidates /\ rows[c] \in Row
        /\ op[k] \in Operations \cup {Nothing}
        /\ Held(k)
    BY BatchType DEF HandlerInv, TypeOK
  <2>2. CASE op[k].kind = "edit"
    BY <2>1, <2>2 DEF UpdatedRow, Row, Assign, Contents
  <2>3. CASE op[k].kind = "publish"
    <3>1. number[k] \in 0 .. MaxVersion
      BY DEF HandlerInv, TypeOK
    <3>2. "published" \in Statuses
      BY DEF Statuses
    <3>3. UpdatedRow(k, c) = [rows[c] EXCEPT !.status = "published", !.published = number[k]]
      BY <2>3 DEF UpdatedRow
    <3>4. QED
      BY <2>1, <3>1, <3>2, <3>3 DEF Row
  <2>4. CASE op[k].kind \in {"review", "override", "request"}
    <3>1. op[k].to \in Statuses
      BY <2>1, <2>4, OperationFields DEF Statuses, Editable, Decisions
    <3>2. UpdatedRow(k, c) = [rows[c] EXCEPT !.status = Assign(@, batch[k][c], op[k].to)]
      BY <2>4 DEF UpdatedRow
    <3>3. QED
      BY <2>1, <3>1, <3>2 DEF Row, Assign
  <2>5. QED
    BY <2>1, <2>2, <2>3, <2>4 DEF Held, Writing
<1>2. QED
  BY <1>1 DEF Flushed, HandlerInv, TypeOK

LEMMA HandlerInit == Init => HandlerInv
<1> SUFFICES ASSUME Init PROVE HandlerInv
  OBVIOUS
<1>1. [c \in {} |-> "none"] \in Batches
  <2>1. [c \in {} |-> "none"] \in [{} -> Statuses \cup Contents]
    OBVIOUS
  <2>2. QED
    BY <2>1, IsBatch
<1>2. Empty \in RuleSets
  BY DEF Empty, RuleSets
<1>3. rows \in [Candidates -> Row]
  BY PublicationAssumption DEF Init, Row, Statuses, Editable, Contents
<1>4. DOMAIN versions = {} /\ versions \in [DOMAIN versions -> Version]
  <2>1. DOMAIN versions = {}
    BY DEF Init
  <2>2. QED
    BY <2>1 DEF Init
<1>5. TypeOK
  BY <1>1, <1>2, <1>3, <1>4, PublicationAssumption DEF Init, TypeOK
<1>6. \A k \in Handlers : Held(k)
  BY DEF Init, Held, Nothing, Writing, Numbered
<1>7. QED
  BY <1>5, <1>6 DEF HandlerInv

LEMMA HandlerStep == HandlerInv /\ OneActiveVersion /\ [Next]_vars => HandlerInv'
<1> SUFFICES ASSUME HandlerInv, OneActiveVersion, [Next]_vars PROVE HandlerInv'
  OBVIOUS
<1> USE PublicationAssumption
<1>0. TypeOK /\ \A k \in Handlers : Held(k)
  BY DEF HandlerInv
<1>1. ASSUME NEW k \in Handlers, NEW c \in Candidates, NEW o \in Operations, Load(k, c, o)
      PROVE  HandlerInv'
  <2>1. rows[c].status \in Statuses /\ rows[c].content \in Contents
    BY <1>0 DEF TypeOK, Row
  <2>2. [d \in {c} |-> Loaded(o.kind, rows[c])] \in [{c} -> Statuses \cup Contents]
    BY <2>1 DEF Loaded
  <2>3. [d \in {c} |-> Loaded(o.kind, rows[c])] \in Batches
    BY <2>2, IsBatch
  <2>4. TypeOK'
    BY <1>0, <1>1, <2>3 DEF TypeOK, Load, Goto
  <2>5. o.kind \in {"review", "override", "request", "edit"}
    BY <1>1, OperationFields DEF Load, Permits
  <2>6. ASSUME NEW j \in Handlers PROVE Held(j)'
    <3>1. CASE j = k
      BY <1>0, <1>1, <2>5, <3>1 DEF Load, Goto, TypeOK, Held, Writing, Numbered
    <3>2. CASE j # k
      BY <1>0, <1>1, <3>2, HeldByOthers DEF Load, Goto, TypeOK
    <3>3. QED
      BY <3>1, <3>2
  <2>7. QED
    BY <2>4, <2>6 DEF HandlerInv
<1>2. ASSUME NEW k \in Handlers, NEW c \in Candidates, LoadAnother(k, c) PROVE HandlerInv'
  <2> DEFINE loaded == [d \in DOMAIN batch[k] \cup {c} |->
                          IF d = c THEN Loaded("review", rows[c]) ELSE batch[k][d]]
  <2>1. /\ rows[c].status \in Statuses
        /\ DOMAIN batch[k] \cup {c} \subseteq Candidates
        /\ \A d \in DOMAIN batch[k] : batch[k][d] \in Statuses \cup Contents
    BY <1>0, BatchType DEF TypeOK, Row
  <2>2. loaded \in [DOMAIN batch[k] \cup {c} -> Statuses \cup Contents]
    BY <2>1 DEF Loaded
  <2>3. loaded \in Batches
    BY <2>1, <2>2, IsBatch
  <2>4. TypeOK'
    BY <1>0, <1>2, <2>3 DEF TypeOK, LoadAnother
  <2>5. ASSUME NEW j \in Handlers PROVE Held(j)'
    <3>1. CASE j = k
      BY <1>0, <1>2, <3>1 DEF LoadAnother, TypeOK, Held, Writing, Numbered
    <3>2. CASE j # k
      BY <1>0, <1>2, <3>2, HeldByOthers DEF LoadAnother, TypeOK
    <3>3. QED
      BY <3>1, <3>2
  <2>6. QED
    BY <2>4, <2>5 DEF HandlerInv
<1>3. ASSUME NEW k \in Handlers, NEW to \in {"active", "inactive"}, List(k, to)
      PROVE  HandlerInv'
  <2> DEFINE loaded == [c \in Publishable |-> Loaded("publish", rows[c])]
             o == [kind |-> "publish", to |-> to]
  <2>1. /\ Publishable \in SUBSET Candidates
        /\ \A c \in Publishable : rows[c].content \in Contents
    BY <1>0 DEF TypeOK, Row, Publishable
  <2>2. /\ loaded \in [Publishable -> Statuses \cup Contents]
        /\ \A c \in DOMAIN loaded : loaded[c] \in Contents
    BY <2>1 DEF Loaded
  <2>3. loaded \in Batches
    BY <2>1, <2>2, IsBatch
  <2>4. o \in Operations
    BY DEF Operations
  <2>5. batch' = [batch EXCEPT ![k] = loaded] /\ op' = [op EXCEPT ![k] = o]
    BY <1>3 DEF List
  <2> HIDE DEF loaded
  <2>6. TypeOK'
    BY <1>0, <1>3, <2>3, <2>4, <2>5 DEF TypeOK, List, Goto
  <2>7. ASSUME NEW j \in Handlers PROVE Held(j)'
    <3>1. CASE j = k
      BY <1>0, <1>3, <2>2, <2>5, <3>1 DEF List, Goto, TypeOK, Held, Writing, Numbered
    <3>2. CASE j # k
      BY <1>0, <1>3, <3>2, HeldByOthers DEF List, Goto, TypeOK
    <3>3. QED
      BY <3>1, <3>2
  <2>8. QED
    BY <2>6, <2>7 DEF HandlerInv
<1>4. ASSUME NEW k \in Handlers, NEW to \in {"active", "inactive"}, Import(k, to)
      PROVE  HandlerInv'
  <2> DEFINE o == [kind |-> "import", to |-> to]
  <2>1. PICK n \in Numbers : number' = [number EXCEPT ![k] = n]
    BY <1>4 DEF Import
  <2>2. n \in 1 .. MaxVersion
    BY DEF Numbers
  <2>3. PICK brought \in Imports :
          merged' = [merged EXCEPT ![k] =
                       [r \in Rules |-> IF r \in brought THEN "imported" ELSE "absent"]]
    BY <1>4 DEF Import
  <2> DEFINE rules == [r \in Rules |-> IF r \in brought THEN "imported" ELSE "absent"]
  <2>4. rules \in RuleSets /\ rules \in [Rules -> {"imported", "absent"}]
    BY DEF RuleSets
  <2>5. o \in Operations
    BY DEF Operations
  <2>6. merged' = [merged EXCEPT ![k] = rules] /\ op' = [op EXCEPT ![k] = o]
    BY <1>4, <2>3 DEF Import
  <2> HIDE DEF rules
  <2>7. TypeOK'
    BY <1>0, <1>4, <2>1, <2>2, <2>4, <2>5, <2>6 DEF TypeOK, Import, Goto
  <2>8. ASSUME NEW j \in Handlers PROVE Held(j)'
    <3>1. CASE j = k
      <4>1. pc[k] = "idle" /\ DOMAIN batch[k] = {}
        BY <1>0, <1>4 DEF Import, Goto, Held
      <4>2. QED
        BY <1>0, <1>4, <2>1, <2>2, <2>4, <2>6, <3>1, <4>1
           DEF Import, Goto, TypeOK, Held, Writing, Numbered
    <3>2. CASE j # k
      BY <1>0, <1>4, <2>1, <2>6, <3>2, HeldByOthers DEF Import, Goto, TypeOK
    <3>3. QED
      BY <3>1, <3>2
  <2>9. QED
    BY <2>7, <2>8 DEF HandlerInv
<1>5. ASSUME NEW k \in Handlers, ChooseNumber(k) PROVE HandlerInv'
  <2>1. PICK n \in Numbers : number' = [number EXCEPT ![k] = n]
    BY <1>5 DEF ChooseNumber
  <2>2. n \in 1 .. MaxVersion
    BY DEF Numbers
  <2>3. TypeOK'
    BY <1>0, <1>5, <2>1, <2>2 DEF TypeOK, ChooseNumber, Goto
  <2>4. ASSUME NEW j \in Handlers PROVE Held(j)'
    <3>1. CASE j = k
      BY <1>0, <1>5, <2>1, <2>2, <3>1 DEF ChooseNumber, Goto, TypeOK, Held, Writing, Numbered
    <3>2. CASE j # k
      BY <1>0, <1>5, <2>1, <3>2, HeldByOthers DEF ChooseNumber, Goto, TypeOK
    <3>3. QED
      BY <3>1, <3>2
  <2>5. QED
    BY <2>3, <2>4 DEF HandlerInv
<1>6. ASSUME NEW k \in Handlers, MergeRules(k) PROVE HandlerInv'
  <2>1. op[k].kind = "publish" /\ \A c \in DOMAIN batch[k] : batch[k][c] \in Contents
    BY <1>0, <1>6 DEF MergeRules, Goto, Held
  <2>2. /\ Snapshot(batch[k]) \in RuleSets
        /\ \A c \in DOMAIN batch[k] : Snapshot(batch[k])[rule[c]] \in Contents
    BY <1>0, <2>1, SnapshotType
  <2>3. TypeOK'
    BY <1>0, <1>6, <2>2 DEF TypeOK, MergeRules, Goto
  <2>4. ASSUME NEW j \in Handlers PROVE Held(j)'
    <3>1. CASE j = k
      <4>1. \A c \in DOMAIN batch[k] : Snapshot(batch[k])[rule[c]] # "absent"
        BY <2>2 DEF Contents
      <4>2. merged'[k] = Snapshot(batch[k])
        BY <1>0, <1>6 DEF MergeRules, TypeOK
      <4>3. QED
        BY <1>0, <1>6, <2>1, <3>1, <4>1, <4>2
           DEF MergeRules, Goto, TypeOK, Held, Writing, Numbered
    <3>2. CASE j # k
      BY <1>0, <1>6, <3>2, HeldByOthers DEF MergeRules, Goto, TypeOK
    <3>3. QED
      BY <3>1, <3>2
  <2>5. QED
    BY <2>3, <2>4 DEF HandlerInv
<1>7. ASSUME NEW k \in Handlers, DeactivateAll(k) PROVE HandlerInv'
  <2>1. TypeOK'
    BY <1>0, <1>7 DEF TypeOK, DeactivateAll, Goto, ActiveVersions
  <2>2. ASSUME NEW j \in Handlers PROVE Held(j)'
    <3>1. CASE j = k
      BY <1>0, <1>7, <3>1 DEF DeactivateAll, Goto, TypeOK, Held, Writing, Numbered
    <3>2. CASE j # k
      BY <1>0, <1>7, <3>2, HeldByOthers DEF DeactivateAll, Goto, TypeOK
    <3>3. QED
      BY <3>1, <3>2
  <2>3. QED
    BY <2>1, <2>2 DEF HandlerInv
<1>8. ASSUME NEW k \in Handlers, Store(k) PROVE HandlerInv'
  <2>1. rows' \in [Candidates -> Row]
    BY <1>8, FlushedType DEF Store
  <2>2. QED
    BY <1>0, <1>8, <2>1, LeaveStep DEF Store, HandlerInv, TypeOK
<1>9. ASSUME NEW k \in Handlers, Insert(k) PROVE HandlerInv'
  <2>1. rows' \in [Candidates -> Row]
    BY <1>9, FlushedType DEF Insert
  <2>2. number[k] \in 1 .. MaxVersion /\ merged[k] \in RuleSets
    BY <1>0, <1>9 DEF Insert, Held, Writing, Numbered, TypeOK
  <2>3. DOMAIN versions' \subseteq 1 .. MaxVersion
    BY <1>0, <1>9, <2>2 DEF Insert, TypeOK
  <2>4. ASSUME NEW n \in DOMAIN versions' PROVE versions'[n] \in Version
    <3>1. CASE n = number[k]
      BY <1>9, <2>2, <3>1 DEF Insert, Version
    <3>2. CASE n # number[k]
      <4>1. n \in DOMAIN versions /\ versions[n] \in Version
        BY <1>0, <1>9, <3>2 DEF Insert, TypeOK
      <4>2. versions'[n] = [versions[n] EXCEPT !.active = @ /\ n \notin off[k]]
        BY <1>9, <3>2 DEF Insert
      <4>3. QED
        BY <4>1, <4>2 DEF Version
    <3>3. QED
      BY <3>1, <3>2
  <2>5. versions' \in [DOMAIN versions' -> Version]
    BY <1>9, <2>4 DEF Insert
  <2>6. QED
    BY <1>0, <1>9, <2>1, <2>3, <2>5, LeaveStep DEF Insert, HandlerInv, TypeOK
<1>10. ASSUME NEW k \in Handlers, Abort(k) PROVE HandlerInv'
  BY <1>0, <1>10, LeaveStep DEF Abort, HandlerInv, TypeOK
<1>11. ASSUME NEW c \in Candidates, Supersede(c) PROVE HandlerInv'
  <2>1. [rows[c] EXCEPT !.superseded = TRUE] \in Row
    BY <1>0 DEF TypeOK, Row
  <2>2. rows' \in [Candidates -> Row]
    BY <1>0, <1>11, <2>1 DEF TypeOK, Supersede
  <2>3. TypeOK'
    BY <1>0, <1>11, <2>2 DEF TypeOK, Supersede, handlerVars
  <2>4. QED
    BY <1>0, <1>11, <2>3, HeldByOthers DEF Supersede, handlerVars, HandlerInv
<1>12. CASE UNCHANGED vars
  <2>1. TypeOK'
    BY <1>0, <1>12 DEF TypeOK, vars
  <2>2. QED
    BY <1>0, <1>12, <2>1, HeldByOthers DEF vars, HandlerInv
<1>13. QED
  BY <1>1, <1>2, <1>3, <1>4, <1>5, <1>6, <1>7, <1>8, <1>9, <1>10, <1>11, <1>12 DEF Next

-----------------------------------------------------------------------------
(* The ledger, when nobody names a version number but the next one.          *)

\* Version numbers have no gaps.
Gapless == NextNumber \in Nat \ {0} /\ DOMAIN versions = 1 .. NextNumber - 1

\* A handler whose number is still free holds the version that is due: everything it
\* computed from the versions is what it would compute now.
Current(k) ==
  /\ pc[k] \in Numbered => number[k] \in 1 .. NextNumber
  /\ pc[k] \in Writing /\ number[k] = NextNumber =>
       /\ op[k].kind = "publish" => merged[k] = Snapshot(batch[k])
       /\ pc[k] = "inserting" =>
            off[k] = IF op[k].to = "active" THEN ActiveVersions ELSE {}
  /\ pc[k] # "inserting" => off[k] = {}

LedgerInv == Gapless /\ OneActiveVersion /\ \A k \in Handlers : Current(k)

LEMMA LatestOfInterval ==
  ASSUME NEW n \in Nat \ {0}, NEW S, S = 1 .. n
  PROVE  Latest(S) = n /\ S # {}
BY DEF Latest

LEMMA NextNumberIs ==
  ASSUME NEW n \in Nat, DOMAIN versions = 1 .. n
  PROVE  NextNumber = n + 1
<1>1. CASE n = 0
  BY <1>1 DEF NextNumber
<1>2. CASE n # 0
  <2>1. Latest(DOMAIN versions) = n /\ DOMAIN versions # {}
    BY <1>2, LatestOfInterval
  <2>2. QED
    BY <2>1 DEF NextNumber
<1>3. QED
  BY <1>1, <1>2

\* Where no version is added, everything computed from the versions stays.
LEMMA SameVersions ==
  ASSUME versions' = versions, rule' = rule
  PROVE  /\ NextNumber' = NextNumber
         /\ ActiveVersions' = ActiveVersions
         /\ Gapless => Gapless'
         /\ OneActiveVersion => OneActiveVersion'
         /\ \A k \in Handlers : batch'[k] = batch[k] => Snapshot(batch[k])' = Snapshot(batch[k])
<1>1. NextNumber' = NextNumber /\ ActiveVersions' = ActiveVersions /\ CurrentRules' = CurrentRules
  BY DEF NextNumber, ActiveVersions, CurrentRules
<1>2. ASSUME NEW k \in Handlers, batch'[k] = batch[k]
      PROVE  Snapshot(batch[k])' = Snapshot(batch[k])
  BY <1>1, <1>2 DEF Snapshot
<1>3. QED
  BY <1>1, <1>2 DEF Gapless, OneActiveVersion

LEMMA CurrentOfOthers ==
  ASSUME NEW j \in Handlers, Current(j), versions' = versions, rule' = rule,
         pc'[j] = pc[j], op'[j] = op[j], batch'[j] = batch[j], number'[j] = number[j],
         merged'[j] = merged[j], off'[j] = off[j]
  PROVE  Current(j)'
BY SameVersions DEF Current, Writing, Numbered

LEMMA CurrentWhenIdle ==
  ASSUME HandlerInv, NEW k \in Handlers, Leave(k)
  PROVE  Current(k)'
BY DEF HandlerInv, TypeOK, Leave, Current, Writing, Numbered

LEMMA LedgerInit == Init => LedgerInv
<1> SUFFICES ASSUME Init PROVE LedgerInv
  OBVIOUS
<1>1. DOMAIN versions = 1 .. 0
  BY DEF Init
<1>2. NextNumber = 1
  BY <1>1, NextNumberIs
<1>3. Gapless
  BY <1>1, <1>2 DEF Gapless
<1>4. OneActiveVersion
  BY <1>1 DEF OneActiveVersion, ActiveVersions
<1>5. \A k \in Handlers : Current(k)
  BY DEF Init, Current, Writing, Numbered
<1>6. QED
  BY <1>3, <1>4, <1>5 DEF LedgerInv

\* The commit of a version: its number was the next one, and the others' are taken.
LEMMA InsertStep ==
  ASSUME HandlerInv, LedgerInv, NEW k \in Handlers, Insert(k)
  PROVE  /\ LedgerInv'
         /\ number[k] = NextNumber
         /\ NextNumber' = NextNumber + 1
<1> USE DEF HandlerInv, LedgerInv
<1>1. number[k] = NextNumber
  BY DEF Insert, NumberIsTaken, Gapless, Current, Numbered, Writing
<1>2. /\ Held(k) /\ Current(k)
      /\ op[k].to \in {"active", "inactive"}
      /\ off[k] = IF op[k].to = "active" THEN ActiveVersions ELSE {}
  <2>1. Held(k) /\ Current(k) /\ pc[k] = "inserting"
    BY DEF Insert
  <2>2. op[k] \in Operations \cup {Nothing} /\ op[k].kind \in {"publish", "import"}
    BY <2>1 DEF TypeOK, Held, Writing
  <2>3. QED
    BY <1>1, <2>1, <2>2, OperationFields DEF Current, Writing
<1>3. DOMAIN versions' = 1 .. NextNumber
  BY <1>1 DEF Insert, Gapless
<1>4. NextNumber' = NextNumber + 1
  <2>1. NextNumber \in Nat \ {0}
    BY DEF Gapless
  <2>2. Latest(DOMAIN versions') = NextNumber /\ DOMAIN versions' # {}
    BY <1>3, <2>1, LatestOfInterval
  <2>3. QED
    BY <2>2 DEF NextNumber
<1>5. ASSUME NEW n \in DOMAIN versions'
      PROVE  /\ n = number[k] => versions'[n].active = (op[k].to = "active")
             /\ n # number[k] =>
                  /\ n \in DOMAIN versions
                  /\ versions'[n].active = (versions[n].active /\ n \notin off[k])
  <2>1. n # number[k] => n \in DOMAIN versions /\ versions[n] \in Version
    BY DEF Insert, TypeOK
  <2>2. n # number[k] => versions'[n] = [versions[n] EXCEPT !.active = @ /\ n \notin off[k]]
    BY DEF Insert
  <2>3. n # number[k] => versions'[n].active = (versions[n].active /\ n \notin off[k])
    BY <2>1, <2>2 DEF Version
  <2>4. n = number[k] =>
          versions'[n] = [active |-> op[k].to = "active", rules |-> merged[k]]
    BY DEF Insert
  <2>5. QED
    BY <2>1, <2>3, <2>4
<1>6. OneActiveVersion'
  <2>1. CASE op[k].to = "active"
    <3>1. ASSUME NEW n \in ActiveVersions' PROVE n = number[k]
      BY <1>2, <1>5, <2>1, <3>1 DEF ActiveVersions
    <3>2. QED
      BY <3>1 DEF OneActiveVersion
  <2>2. CASE op[k].to # "active"
    <3>1. ASSUME NEW n \in ActiveVersions' PROVE n \in ActiveVersions
      BY <1>5, <2>2, <3>1 DEF ActiveVersions
    <3>2. QED
      BY <3>1 DEF OneActiveVersion
  <2>3. QED
    BY <2>1, <2>2
<1>7. Gapless'
  <2>1. NextNumber' \in Nat \ {0} /\ NextNumber' - 1 = NextNumber
    BY <1>4 DEF Gapless
  <2>2. QED
    BY <1>3, <2>1 DEF Gapless
<1>8. ASSUME NEW j \in Handlers PROVE Current(j)'
  <2>1. CASE j = k
    BY <2>1, CurrentWhenIdle DEF Insert
  <2>2. CASE j # k
    <3>1. Current(j) /\ pc'[j] = pc[j] /\ number'[j] = number[j] /\ off'[j] = off[j]
      BY <2>2 DEF Insert, Leave, TypeOK
    <3>2. NextNumber \in Nat
      BY DEF Gapless
    <3>3. QED
      BY <1>4, <3>1, <3>2 DEF Current, Writing, Numbered
  <2>3. QED
    BY <2>1, <2>2
<1>9. QED
  BY <1>1, <1>4, <1>6, <1>7, <1>8

\* Every other step leaves the versions alone.
LEMMA LedgerStep ==
  ~ExplicitNumbers /\ HandlerInv /\ LedgerInv /\ [Next]_vars => LedgerInv'
<1> SUFFICES ASSUME ~ExplicitNumbers, HandlerInv, LedgerInv, [Next]_vars PROVE LedgerInv'
  OBVIOUS
<1>0. /\ TypeOK /\ \A k \in Handlers : Held(k)
      /\ Gapless /\ OneActiveVersion /\ \A k \in Handlers : Current(k)
  BY DEF HandlerInv, LedgerInv
<1>1. ASSUME versions' = versions, rule' = rule, \A j \in Handlers : Current(j)'
      PROVE  LedgerInv'
  BY <1>0, <1>1, SameVersions DEF LedgerInv
<1>2. \A n \in Numbers : n = NextNumber
  BY DEF Numbers
<1>3. NextNumber \in Nat \ {0}
  BY <1>0 DEF Gapless
<1>4. ASSUME NEW k \in Handlers,
             \/ \E c \in Candidates, o \in Operations : Load(k, c, o)
             \/ \E c \in Candidates : LoadAnother(k, c)
             \/ \E to \in {"active", "inactive"} : List(k, to)
      PROVE  LedgerInv'
  <2>1. /\ versions' = versions /\ rule' = rule
        /\ \A j \in Handlers : j # k => /\ pc'[j] = pc[j] /\ op'[j] = op[j]
                                        /\ batch'[j] = batch[j]
        /\ number' = number /\ merged' = merged /\ off' = off
        /\ pc'[k] \in {"storing", "numbering"} /\ pc[k] \in {"idle", "storing"}
    BY <1>0, <1>4 DEF Load, LoadAnother, List, Goto, TypeOK
  <2>2. ASSUME NEW j \in Handlers PROVE Current(j)'
    <3>1. CASE j = k
      BY <1>0, <2>1, <3>1 DEF Current, Writing, Numbered
    <3>2. CASE j # k
      BY <1>0, <2>1, <3>2, CurrentOfOthers
    <3>3. QED
      BY <3>1, <3>2
  <2>3. QED
    BY <1>1, <2>1, <2>2
<1>5. ASSUME NEW k \in Handlers, NEW to \in {"active", "inactive"}, Import(k, to)
      PROVE  LedgerInv'
  <2>1. PICK n \in Numbers : number' = [number EXCEPT ![k] = n]
    BY <1>5 DEF Import
  <2>2. /\ versions' = versions /\ rule' = rule
        /\ \A j \in Handlers : j # k =>
             /\ pc'[j] = pc[j] /\ op'[j] = op[j] /\ number'[j] = number[j]
             /\ merged'[j] = merged[j]
        /\ batch' = batch /\ off' = off
    BY <1>0, <1>5, <2>1 DEF Import, Goto, TypeOK
  <2>3. /\ number'[k] = NextNumber /\ op'[k].kind = "import" /\ op'[k].to = to
        /\ off[k] = {}
        /\ pc'[k] = IF to = "active" THEN "deactivating" ELSE "inserting"
    BY <1>0, <1>2, <1>5, <2>1 DEF Import, Goto, TypeOK, Current
  <2>4. ASSUME NEW j \in Handlers PROVE Current(j)'
    <3>1. CASE j = k
      BY <1>3, <2>2, <2>3, <3>1, SameVersions DEF Current, Writing, Numbered
    <3>2. CASE j # k
      BY <1>0, <2>2, <3>2, CurrentOfOthers
    <3>3. QED
      BY <3>1, <3>2
  <2>5. QED
    BY <1>1, <2>2, <2>4
<1>6. ASSUME NEW k \in Handlers, ChooseNumber(k) PROVE LedgerInv'
  <2>1. PICK n \in Numbers : number' = [number EXCEPT ![k] = n]
    BY <1>6 DEF ChooseNumber
  <2>2. /\ versions' = versions /\ rule' = rule /\ op' = op /\ batch' = batch
        /\ merged' = merged /\ off' = off
        /\ \A j \in Handlers : j # k => pc'[j] = pc[j] /\ number'[j] = number[j]
        /\ pc'[k] = "merging" /\ pc[k] = "numbering" /\ number'[k] = NextNumber
    BY <1>0, <1>2, <1>6, <2>1 DEF ChooseNumber, Goto, TypeOK
  <2>3. ASSUME NEW j \in Handlers PROVE Current(j)'
    <3>1. CASE j = k
      BY <1>0, <1>3, <2>2, <3>1, SameVersions DEF Current, Writing, Numbered
    <3>2. CASE j # k
      BY <1>0, <2>2, <3>2, CurrentOfOthers
    <3>3. QED
      BY <3>1, <3>2
  <2>4. QED
    BY <1>1, <2>2, <2>3
<1>7. ASSUME NEW k \in Handlers, MergeRules(k) PROVE LedgerInv'
  <2>1. /\ versions' = versions /\ rule' = rule /\ op' = op /\ batch' = batch
        /\ number' = number /\ off' = off
        /\ \A j \in Handlers : j # k => pc'[j] = pc[j] /\ merged'[j] = merged[j]
        /\ pc[k] = "merging" /\ merged'[k] = Snapshot(batch[k])
        /\ pc'[k] = IF op[k].to = "active" THEN "deactivating" ELSE "inserting"
    BY <1>0, <1>7 DEF MergeRules, Goto, TypeOK
  <2>2. ASSUME NEW j \in Handlers PROVE Current(j)'
    <3>1. CASE j = k
      BY <1>0, <1>3, <2>1, <3>1, SameVersions DEF Current, Writing, Numbered
    <3>2. CASE j # k
      BY <1>0, <2>1, <3>2, CurrentOfOthers
    <3>3. QED
      BY <3>1, <3>2
  <2>3. QED
    BY <1>1, <2>1, <2>2
<1>8. ASSUME NEW k \in Handlers, DeactivateAll(k) PROVE LedgerInv'
  <2>1. /\ versions' = versions /\ rule' = rule /\ op' = op /\ batch' = batch
        /\ number' = number /\ merged' = merged
        /\ \A j \in Handlers : j # k => pc'[j] = pc[j] /\ off'[j] = off[j]
        /\ pc[k] = "deactivating" /\ off'[k] = ActiveVersions /\ pc'[k] = "inserting"
        /\ op[k].to = "active"
    BY <1>0, <1>8 DEF DeactivateAll, Goto, TypeOK, Held
  <2>2. ASSUME NEW j \in Handlers PROVE Current(j)'
    <3>1. CASE j = k
      BY <1>0, <2>1, <3>1, SameVersions DEF Current, Writing, Numbered
    <3>2. CASE j # k
      BY <1>0, <2>1, <3>2, CurrentOfOthers
    <3>3. QED
      BY <3>1, <3>2
  <2>3. QED
    BY <1>1, <2>1, <2>2
<1>9. ASSUME NEW k \in Handlers, Store(k) \/ Abort(k) PROVE LedgerInv'
  <2>1. /\ Leave(k) /\ versions' = versions /\ rule' = rule
        /\ \A j \in Handlers : j # k =>
             /\ pc'[j] = pc[j] /\ op'[j] = op[j] /\ batch'[j] = batch[j]
             /\ number'[j] = number[j] /\ merged'[j] = merged[j] /\ off'[j] = off[j]
    BY <1>0, <1>9 DEF Store, Abort, Leave, TypeOK
  <2>2. ASSUME NEW j \in Handlers PROVE Current(j)'
    BY <1>0, <2>1, CurrentOfOthers, CurrentWhenIdle DEF HandlerInv
  <2>3. QED
    BY <1>1, <2>1, <2>2
<1>10. ASSUME NEW k \in Handlers, Insert(k) PROVE LedgerInv'
  BY <1>10, InsertStep
<1>11. CASE (\E c \in Candidates : Supersede(c)) \/ UNCHANGED vars
  <2>1. UNCHANGED <<rule, versions, pc, op, batch, number, merged, off>>
    BY <1>11 DEF Supersede, handlerVars, vars
  <2>2. QED
    BY <1>0, <1>1, <2>1, CurrentOfOthers
<1>12. QED
  BY <1>4, <1>5, <1>6, <1>7, <1>8, <1>9, <1>10, <1>11 DEF Next

LEMMA InvariantsHold == ~ExplicitNumbers => (Spec => [](HandlerInv /\ LedgerInv))
<1> SUFFICES ASSUME ~ExplicitNumbers PROVE Spec => [](HandlerInv /\ LedgerInv)
  OBVIOUS
<1>1. Init => HandlerInv /\ LedgerInv
  BY HandlerInit, LedgerInit
<1>2. HandlerInv /\ LedgerInv /\ [Next]_vars => (HandlerInv /\ LedgerInv)'
  BY HandlerStep, LedgerStep DEF LedgerInv
<1>3. QED
  BY <1>1, <1>2, PTL DEF Spec

\* Every variable keeps its type, where version numbers are the service's own.
THEOREM TypeCorrect == ~ExplicitNumbers => (Spec => []TypeOK)
<1> SUFFICES ASSUME ~ExplicitNumbers PROVE Spec => []TypeOK
  OBVIOUS
<1>1. HandlerInv => TypeOK
  BY DEF HandlerInv
<1>2. QED
  BY <1>1, InvariantsHold, PTL

\* However many publishes and imports race, at most one version is active.
THEOREM OneVersionIsActive == ~ExplicitNumbers => (Spec => []OneActiveVersion)
<1> SUFFICES ASSUME ~ExplicitNumbers PROVE Spec => []OneActiveVersion
  OBVIOUS
<1>1. LedgerInv => OneActiveVersion
  BY DEF LedgerInv
<1>2. QED
  BY <1>1, InvariantsHold, PTL

\* A published row names a version that holds its rule.
LEMMA PublishedStep ==
  HandlerInv /\ PublishedRowsNameTheirVersion /\ [Next]_vars => PublishedRowsNameTheirVersion'
<1> SUFFICES ASSUME HandlerInv, PublishedRowsNameTheirVersion, [Next]_vars,
                    NEW c \in Candidates, (rows[c].status = "published")'
             PROVE  /\ rows'[c].published \in DOMAIN versions'
                    /\ versions'[rows'[c].published].rules[rule'[c]] # "absent"
  BY DEF PublishedRowsNameTheirVersion
<1>0. /\ TypeOK /\ \A k \in Handlers : Held(k)
      /\ rows[c].status = "published" =>
           /\ rows[c].published \in DOMAIN versions
           /\ versions[rows[c].published].rules[rule[c]] # "absent"
      /\ rows[c] \in Row /\ rule' = rule
  <2>1. rule' = rule
    BY DEF Next, Load, LoadAnother, List, Import, ChooseNumber, MergeRules, DeactivateAll,
           Store, Insert, Abort, Supersede, vars
  <2>2. QED
    BY <2>1 DEF HandlerInv, TypeOK, PublishedRowsNameTheirVersion
<1>1. CASE /\ versions' = versions
           /\ rows'[c].status = rows[c].status /\ rows'[c].published = rows[c].published
  BY <1>0, <1>1
<1>2. ASSUME NEW k \in Handlers, Store(k)
      PROVE  /\ versions' = versions
             /\ rows'[c].status = rows[c].status /\ rows'[c].published = rows[c].published
  <2>1. rows'[c] = IF c \in DOMAIN batch[k] THEN UpdatedRow(k, c) ELSE rows[c]
    BY <1>2 DEF Store, Flushed
  <2>2. CASE op[k].kind = "edit"
    <3>1. UpdatedRow(k, c) = [rows[c] EXCEPT !.content = Assign(@, batch[k][c], "edited")]
      BY <2>2 DEF UpdatedRow
    <3>2. QED
      BY <1>0, <1>2, <2>1, <3>1 DEF Store, Row
  <2>3. CASE op[k].kind \in {"review", "override", "request"}
    <3>1. op[k].to # "published"
      <4>1. op[k] \in Operations \cup {Nothing}
        BY <1>0 DEF TypeOK
      <4>2. QED
        BY <2>3, <4>1, OperationFields DEF Decisions
    <3>2. UpdatedRow(k, c) = [rows[c] EXCEPT !.status = Assign(@, batch[k][c], op[k].to)]
      BY <2>3 DEF UpdatedRow
    <3>3. QED
      BY <1>0, <1>2, <2>1, <3>1, <3>2 DEF Store, Row, Assign
  <2>4. QED
    BY <1>0, <1>2, <2>2, <2>3 DEF Store, Held
<1>3. ASSUME NEW k \in Handlers, Insert(k)
      PROVE  /\ rows'[c].published \in DOMAIN versions'
             /\ versions'[rows'[c].published].rules[rule'[c]] # "absent"
  <2>1. rows'[c] = IF c \in DOMAIN batch[k] THEN UpdatedRow(k, c) ELSE rows[c]
    BY <1>3 DEF Insert, Flushed
  <2>2. /\ number[k] \in DOMAIN versions'
        /\ versions'[number[k]].rules = merged[k]
        /\ number[k] \notin DOMAIN versions
    BY <1>3 DEF Insert, NumberIsTaken
  <2>3. CASE c \in DOMAIN batch[k]
    <3>1. op[k].kind = "publish" /\ merged[k][rule[c]] # "absent"
      BY <1>0, <1>3, <2>3 DEF Insert, Held, Writing
    <3>2. UpdatedRow(k, c) = [rows[c] EXCEPT !.status = "published", !.published = number[k]]
      BY <3>1 DEF UpdatedRow
    <3>3. rows'[c].published = number[k]
      BY <1>0, <2>1, <2>3, <3>2 DEF Row
    <3>4. QED
      BY <1>0, <2>2, <3>1, <3>3
  <2>4. CASE c \notin DOMAIN batch[k]
    <3> DEFINE n == rows[c].published
    <3>1. /\ rows'[c] = rows[c] /\ n \in DOMAIN versions /\ n # number[k]
          /\ versions[n].rules[rule[c]] # "absent"
      BY <1>0, <2>1, <2>2, <2>4
    <3>2. n \in DOMAIN versions' /\ versions'[n] = [versions[n] EXCEPT !.active = @ /\ n \notin off[k]]
      BY <1>3, <3>1 DEF Insert
    <3>3. versions[n] \in Version
      BY <1>0, <3>1 DEF TypeOK
    <3>4. versions'[n].rules = versions[n].rules
      BY <3>2, <3>3 DEF Version
    <3>5. QED
      BY <1>0, <3>1, <3>2, <3>4
  <2>5. QED
    BY <2>3, <2>4
<1>4. ASSUME NEW d \in Candidates, Supersede(d)
      PROVE  /\ versions' = versions
             /\ rows'[c].status = rows[c].status /\ rows'[c].published = rows[c].published
  BY <1>0, <1>4 DEF Supersede, TypeOK, Row
<1>5. CASE UNCHANGED <<rows, versions>>
  BY <1>1, <1>5
<1>6. QED
  BY <1>1, <1>2, <1>3, <1>4, <1>5
     DEF Next, Load, LoadAnother, List, Import, ChooseNumber, MergeRules, DeactivateAll,
         Abort, vars

\* Whatever is reviewed, published or refused at the same time: a row that says it was
\* published names a version that holds its rule.
THEOREM PublishedRowsAreTruthful ==
  ~ExplicitNumbers => (Spec => []PublishedRowsNameTheirVersion)
<1> SUFFICES ASSUME ~ExplicitNumbers PROVE Spec => []PublishedRowsNameTheirVersion
  OBVIOUS
<1>1. Init => PublishedRowsNameTheirVersion
  BY DEF Init, PublishedRowsNameTheirVersion
<1>2. QED
  BY <1>1, PublishedStep, InvariantsHold, PTL DEF Spec

-----------------------------------------------------------------------------
(* Publication implements VersionLedger.                                     *)

LEMMA BaseIsCurrent ==
  ASSUME TypeOK, OneActiveVersion
  PROVE  Ledger!Base = CurrentRules
<1>1. Ledger!InForce = ActiveVersions
  BY DEF Ledger!InForce, ActiveVersions
<1>2. CASE ActiveVersions = {}
  BY <1>1, <1>2 DEF Ledger!Base, Ledger!Absent, CurrentRules, Empty
<1>3. CASE ActiveVersions # {}
  <2>1. PICK n \in ActiveVersions : ActiveVersions = {n}
    BY <1>3 DEF OneActiveVersion
  <2>2. n \in Nat
    BY PublicationAssumption DEF ActiveVersions, TypeOK
  <2>3. Latest(ActiveVersions) = n
    BY <2>1, <2>2 DEF Latest
  <2>4. (CHOOSE m \in Ledger!InForce : TRUE) = n
    BY <1>1, <2>1
  <2>5. QED
    BY <1>1, <1>3, <2>3, <2>4 DEF Ledger!Base, CurrentRules
<1>4. QED
  BY <1>2, <1>3

\* A merge overlays the batch on the rules in force.
LEMMA SnapshotIsOverlay ==
  ASSUME TypeOK, OneActiveVersion, NEW k \in Handlers,
         \A c \in DOMAIN batch[k] : batch[k][c] \in Contents
  PROVE  \E update \in [Rules -> Contents \cup {Ledger!Absent}] :
           Snapshot(batch[k]) = Ledger!Overlay(update)
<1> DEFINE Named(r) == {c \in DOMAIN batch[k] : rule[c] = r}
           update == [r \in Rules |-> IF Named(r) = {} THEN Ledger!Absent
                                      ELSE batch[k][Latest(Named(r))]]
<1>1. ASSUME NEW r \in Rules, Named(r) # {}
      PROVE  batch[k][Latest(Named(r))] \in Contents
  <2>1. Named(r) \subseteq Candidates
    BY BatchType DEF TypeOK
  <2>2. QED
    BY <1>1, <2>1, LatestOfCandidates
<1>2. Snapshot(batch[k]) =
        [r \in Rules |-> IF Named(r) = {} THEN CurrentRules[r]
                         ELSE batch[k][Latest(Named(r))]]
  BY DEF Snapshot
<1>3. \A content \in Contents : content # Ledger!Absent
  BY DEF Contents, Ledger!Absent
<1> HIDE DEF Named
<1>4. update \in [Rules -> Contents \cup {Ledger!Absent}]
  BY <1>1
<1>5. Ledger!Overlay(update) =
        [r \in Rules |-> IF Named(r) = {} THEN CurrentRules[r]
                         ELSE batch[k][Latest(Named(r))]]
  BY <1>1, <1>3, BaseIsCurrent DEF Ledger!Overlay
<1>6. QED
  BY <1>2, <1>4, <1>5

LEMMA LedgerRefines ==
  HandlerInv /\ LedgerInv /\ [Next]_vars => [Ledger!Next]_versions
<1> SUFFICES ASSUME HandlerInv, LedgerInv, [Next]_vars, versions' # versions
             PROVE  Ledger!Next
  OBVIOUS
<1> USE DEF HandlerInv, LedgerInv
<1>1. PICK k \in Handlers : Insert(k)
  BY DEF Next, Load, LoadAnother, List, Import, ChooseNumber, MergeRules, DeactivateAll,
         Store, Abort, Supersede, vars
<1> DEFINE last == NextNumber - 1
           active == op[k].to = "active"
<1>2. /\ last \in Nat /\ last + 1 = NextNumber /\ number[k] = last + 1
      /\ DOMAIN versions = 1 .. last /\ last \in DOMAIN versions \cup {0}
  BY <1>1, InsertStep DEF Gapless
<1>3. /\ Held(k) /\ Current(k) /\ pc[k] = "inserting"
      /\ op[k].to \in {"active", "inactive"} /\ op[k].kind \in {"publish", "import"}
      /\ off[k] = IF active THEN ActiveVersions ELSE {}
  <2>1. Held(k) /\ Current(k) /\ pc[k] = "inserting"
    BY <1>1 DEF Insert
  <2>2. op[k] \in Operations \cup {Nothing} /\ op[k].kind \in {"publish", "import"}
    BY <2>1 DEF TypeOK, Held, Writing
  <2>3. QED
    BY <1>2, <2>1, <2>2, OperationFields DEF Current, Writing
<1>4. /\ DOMAIN versions' = 1 .. last + 1
      /\ versions' = [n \in 1 .. last + 1 |->
                        IF n = last + 1 THEN [active |-> active, rules |-> merged[k]]
                        ELSE [versions[n] EXCEPT !.active = @ /\ n \notin off[k]]]
  BY <1>1, <1>2 DEF Insert
<1>5. ASSUME NEW n \in 1 .. last
      PROVE  [versions[n] EXCEPT !.active = @ /\ n \notin off[k]] =
             [versions[n] EXCEPT !.active = @ /\ ~active]
  <2>1. versions[n] \in Version
    BY <1>2 DEF TypeOK
  <2>2. (versions[n].active /\ n \notin off[k]) = (versions[n].active /\ ~active)
    BY <1>2, <1>3, <2>1 DEF ActiveVersions, Version
  <2>3. QED
    BY <2>2
<1>6. Ledger!Append(last, merged[k], active)
  BY <1>2, <1>4, <1>5 DEF Ledger!Append
<1>7. \/ \E update \in [Rules -> Contents \cup {Ledger!Absent}] :
            Ledger!Append(last, Ledger!Overlay(update), active)
      \/ \E rules \in [Rules -> {"imported", Ledger!Absent}] :
            Ledger!Append(last, rules, active)
  <2>1. CASE op[k].kind = "publish"
    <3>1. merged[k] = Snapshot(batch[k]) /\ \A c \in DOMAIN batch[k] : batch[k][c] \in Contents
      BY <1>2, <1>3, <2>1 DEF Current, Held, Writing
    <3>2. QED
      BY <1>6, <3>1, SnapshotIsOverlay
  <2>2. CASE op[k].kind = "import"
    <3>1. merged[k] \in [Rules -> {"imported", "absent"}]
      BY <1>3, <2>2 DEF Held, Writing
    <3>2. QED
      BY <1>6, <3>1 DEF Ledger!Absent
  <2>3. QED
    BY <1>3, <2>1, <2>2
<1>8. QED
  BY <1>2, <1>4, <1>7 DEF Ledger!Next

\* Racing publications are a sequence of publications that happen at one instant each.
THEOREM PublicationsAreAtomic == ~ExplicitNumbers => (Spec => PublishesAreAtomic)
<1> SUFFICES ASSUME ~ExplicitNumbers PROVE Spec => PublishesAreAtomic
  OBVIOUS
<1>1. Init => Ledger!Init
  <2>1. ASSUME Init PROVE versions = [n \in {} |-> 0]
    BY <2>1 DEF Init
  <2>2. QED
    BY <2>1 DEF Ledger!Init
<1>2. QED
  BY <1>1, LedgerRefines, InvariantsHold, PTL DEF Spec, PublishesAreAtomic, Ledger!Spec
=============================================================================
