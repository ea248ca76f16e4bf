--------------------------- MODULE EvaluatorProofs ---------------------------
(***************************************************************************)
(* Proofs about the evaluator, for all conditions, however deep, for all   *)
(* packages of them and all facts.                                         *)
(***************************************************************************)
EXTENDS Evaluator, WellFoundedInduction, FiniteSetTheorems, TLAPS

-----------------------------------------------------------------------------
(* Recursion over trees.                                                     *)

\* Every set of numbers that has one has a least one.
LEMMA LeastNumber ==
  ASSUME NEW T \in SUBSET Nat, T # {}
  PROVE  \E n \in T : \A m \in T : n <= m
<1>1. PICK n \in T : \A m \in T : ~(<<m, n>> \in OpToRel(<, Nat))
  BY NatLessThanWellFounded, WFMin
<1>2. ASSUME NEW m \in T PROVE ~(m < n)
  BY <1>1 DEF OpToRel
<1>3. \A m \in T : n <= m
  BY <1>2
<1>4. QED
  BY <1>3

\* What step makes of a node and a function depends on what the function is of the
\* nodes of lower rank.
LooksBelow(S, V, rank, step) ==
  \A c \in S, g, h \in [S -> V] :
    (\A d \in S : rank[d] < rank[c] => g[d] = h[d]) => step[<<c, g>>] = step[<<c, h>>]

Solves(f, S, step) == \A c \in S : f[c] = step[<<c, f>>]

\* A function may be defined by what it is of a node in terms of what it is of the
\* nodes of lower rank: there is one that satisfies the equation.
LEMMA TreeRecursion ==
  ASSUME NEW S, NEW V, V # {}, NEW rank \in [S -> Nat],
         NEW step \in [S \X [S -> V] -> V],
         LooksBelow(S, V, rank, step)
  PROVE  \E f \in [S -> V] : Solves(f, S, step)
<1> USE DEF LooksBelow, Solves
<1> PICK v \in V : TRUE
  OBVIOUS
<1> DEFINE Fits(g, n) == \A c \in S : rank[c] < n => g[c] = step[<<c, g>>]
           Stage(n) == \E g \in [S -> V] : Fits(g, n)
           Missed == {n \in Nat : ~Stage(n)}
<1>1. Stage(0)
  <2>1. [c \in S |-> v] \in [S -> V] /\ Fits([c \in S |-> v], 0)
    OBVIOUS
  <2>2. QED
    BY <2>1
<1>2. ASSUME NEW n \in Nat, Stage(n) PROVE Stage(n + 1)
  <2>1. PICK g \in [S -> V] : Fits(g, n)
    BY <1>2
  <2> DEFINE h == [c \in S |-> step[<<c, g>>]]
  <2>2. h \in [S -> V]
    OBVIOUS
  <2>3. ASSUME NEW c \in S, rank[c] < n + 1 PROVE h[c] = step[<<c, h>>]
    <3>1. \A d \in S : rank[d] < rank[c] => g[d] = h[d]
      BY <2>1, <2>3
    <3>2. step[<<c, g>>] = step[<<c, h>>]
      BY <2>2, <3>1
    <3>3. QED
      BY <3>2
  <2>4. QED
    BY <2>2, <2>3
<1>3. \A n \in Nat : Stage(n)
  <2> SUFFICES ASSUME Missed # {} PROVE FALSE
    OBVIOUS
  <2>1. PICK n \in Missed : \A m \in Missed : n <= m
    BY LeastNumber
  <2> HIDE DEF Stage
  <2>2. n \in Nat /\ n # 0
    BY <1>1, <2>1
  <2>3. n - 1 \in Nat /\ n - 1 \notin Missed
    <3>1. n - 1 \in Nat /\ ~(n <= n - 1)
      BY <2>2
    <3> HIDE DEF Missed
    <3>2. QED
      BY <2>1, <3>1
  <2>4. Stage(n - 1)
    BY <2>3
  <2>5. Stage((n - 1) + 1)
    BY <1>2, <2>3, <2>4
  <2>6. (n - 1) + 1 = n
    OBVIOUS
  <2>7. QED
    BY <2>1, <2>5, <2>6
\* Two of them agree as far as both fit.
<1>4. ASSUME NEW g \in [S -> V], NEW h \in [S -> V], NEW n \in Nat, Fits(g, n), Fits(h, n)
      PROVE  \A c \in S : rank[c] < n => g[c] = h[c]
  <2> DEFINE Odd == {k \in Nat : \E c \in S : rank[c] = k /\ k < n /\ g[c] # h[c]}
  <2> SUFFICES ASSUME Odd # {} PROVE FALSE
    OBVIOUS
  <2>1. PICK k \in Odd : \A m \in Odd : k <= m
    BY LeastNumber
  <2>2. PICK c \in S : rank[c] = k /\ k < n /\ g[c] # h[c]
    BY <2>1
  <2>3. ASSUME NEW d \in S, rank[d] < rank[c] PROVE g[d] = h[d]
    <3>1. rank[d] \notin Odd
      BY <2>1, <2>2, <2>3
    <3>2. QED
      BY <2>2, <2>3, <3>1
  <2>4. step[<<c, g>>] = step[<<c, h>>]
    BY <2>3
  <2>5. QED
    BY <1>4, <2>2, <2>4
<1> DEFINE G == [n \in Nat |-> CHOOSE g \in [S -> V] : Fits(g, n)]
           f == [c \in S |-> G[rank[c] + 1][c]]
<1>5. \A n \in Nat : G[n] \in [S -> V] /\ Fits(G[n], n)
  BY <1>3
<1> HIDE DEF G
<1>6. f \in [S -> V]
  BY <1>5
<1>7. ASSUME NEW c \in S PROVE f[c] = step[<<c, f>>]
  <2> DEFINE n == rank[c] + 1
  <2>1. n \in Nat
    OBVIOUS
  <2>2. ASSUME NEW d \in S, rank[d] < rank[c] PROVE f[d] = G[n][d]
    <3>1. rank[d] + 1 \in Nat /\ rank[d] + 1 <= n /\ rank[d] < rank[d] + 1
      BY <2>2
    <3>2. Fits(G[n], rank[d] + 1)
      <4>1. Fits(G[n], n)
        BY <1>5, <2>1
      <4> HIDE DEF n
      <4>2. ASSUME NEW e \in S, rank[e] < rank[d] + 1 PROVE rank[e] < n
        BY <2>1, <3>1, <4>2
      <4>3. QED
        BY <4>1, <4>2
    <3>3. Fits(G[rank[d] + 1], rank[d] + 1)
      BY <1>5, <3>1
    <3> HIDE DEF Fits, n
    <3>4. G[rank[d] + 1][d] = G[n][d]
      BY <1>4, <1>5, <2>1, <3>1, <3>2, <3>3
    <3>5. QED
      BY <3>4
  <2>3. step[<<c, f>>] = step[<<c, G[n]>>]
    BY <1>5, <1>6, <2>1, <2>2
  <2>4. G[n][c] = step[<<c, G[n]>>]
    <3>1. Fits(G[n], n)
      BY <1>5, <2>1
    <3>2. rank[c] < n
      OBVIOUS
    <3> HIDE DEF n
    <3>3. QED
      BY <3>1, <3>2
  <2>5. QED
    BY <2>3, <2>4
<1>8. QED
  BY <1>6, <1>7

-----------------------------------------------------------------------------
(* What a condition comes to.                                                *)

\* What holds of a condition once it holds of its parts holds of all.
LEMMA TreeInduction ==
  ASSUME NEW P, \A c \in Conditions : Parts(c) \subseteq P => c \in P
  PROVE  Conditions \subseteq P
<1> DEFINE T == {Depth[c] : c \in Conditions \ P}
<1> SUFFICES ASSUME ~(Conditions \subseteq P) PROVE FALSE
  OBVIOUS
<1>1. T # {} /\ T \in SUBSET Nat
  BY ConditionsAreTrees
<1>2. PICK n \in T : \A m \in T : n <= m
  BY <1>1, LeastNumber
<1>3. PICK c \in Conditions \ P : Depth[c] = n
  BY <1>2
<1>4. PICK d \in Parts(c) : d \notin P
  BY <1>3
<1>5. d \in Conditions /\ Depth[d] < Depth[c]
  BY <1>3, <1>4, ConditionsAreTrees
<1>6. Depth[d] \in T /\ Depth[d] \in Nat /\ Depth[c] \in Nat
  BY <1>3, <1>4, <1>5, ConditionsAreTrees
<1>7. QED
  BY <1>2, <1>3, <1>5, <1>6

Outcomes == {"TRUE", "FALSE", "INDETERMINATE"}

Results == [outcome : Outcomes, missing : SUBSET Facts]

\* A condition comes to a result if its parts do.
LEMMA JudgeTyped ==
  ASSUME NEW c \in Conditions, NEW known, NEW value,
         \A d \in Parts(c) : value[d] \in Results
  PROVE  Judge(c, known, value) \in Results
<1>1. True \in Results /\ False \in Results
  BY DEF True, False, Results, Outcomes
<1>2. \A b : Truth(b) \in Results
  BY <1>1 DEF Truth
<1>3. \A names \in SUBSET Facts : Indeterminate(names) \in Results
  BY DEF Indeterminate, Results, Outcomes
<1>4. CASE c.kind = "fact"
  <2>1. Leaf(c, known) \in Results
    BY <1>2, <1>3, <1>4, ConditionsAreTrees DEF Leaf
  <2>2. QED
    BY <1>4, <2>1 DEF Judge
<1>5. CASE c.kind = "relative"
  <2>1. Lacking(c, known) \in SUBSET Facts /\ {c.fact, c.reference} \in SUBSET Facts
    BY <1>5, ConditionsAreTrees DEF Lacking
  <2>2. RelativeLeaf(c, known) \in Results
    BY <1>2, <1>3, <2>1 DEF RelativeLeaf
  <2>3. QED
    BY <1>5, <2>2 DEF Judge
<1>6. ASSUME NEW some \in SUBSET Results, NEW settling, NEW settled \in Results,
             NEW otherwise \in Results
      PROVE  Group(some, settling, settled, otherwise) \in Results
  <2>1. UNION {r.missing : r \in some} \in SUBSET Facts
    BY DEF Results
  <2>2. QED
    BY <1>3, <2>1 DEF Group
<1>7. CASE c.kind \in {"all", "any"}
  <2>1. {value[d] : d \in c.of} \in SUBSET Results
    BY <1>7 DEF Parts
  <2>2. QED
    BY <1>1, <1>6, <1>7, <2>1 DEF Judge
<1>8. CASE c.kind = "not"
  <2>1. value[c.of] \in Results
    BY <1>8 DEF Parts
  <2>2. QED
    BY <1>2, <1>8, <2>1 DEF Judge, Negated
<1>9. QED
  BY <1>4, <1>5, <1>7, <1>8, ConditionsAreTrees

\* Only what its parts come to matters.
LEMMA JudgeLooksAtParts ==
  ASSUME NEW c \in Conditions, NEW known, NEW g, NEW h, \A d \in Parts(c) : g[d] = h[d]
  PROVE  Judge(c, known, g) = Judge(c, known, h)
<1>1. CASE c.kind \in {"all", "any"}
  <2>1. {g[d] : d \in c.of} = {h[d] : d \in c.of}
    BY <1>1 DEF Parts
  <2>2. QED
    BY <1>1, <2>1 DEF Judge
<1>2. CASE c.kind = "not"
  BY <1>2 DEF Judge, Parts
<1>3. CASE c.kind \in {"fact", "relative"}
  BY <1>3 DEF Judge
<1>4. QED
  BY <1>1, <1>2, <1>3, ConditionsAreTrees

\* evaluate_condition comes to an answer for every condition, and it is what the
\* kind of the condition makes of the answers for its parts.
THEOREM ConditionsAreJudged ==
  \A c \in Conditions : \A known :
    /\ Condition(c, known) \in Results
    /\ Condition(c, known) = Judge(c, known, Judged(known))
<1> SUFFICES ASSUME NEW known
             PROVE  \A c \in Conditions :
                      /\ Condition(c, known) \in Results
                      /\ Condition(c, known) = Judge(c, known, Judged(known))
  OBVIOUS
<1> DEFINE step == [p \in Conditions \X [Conditions -> Results] |-> Judge(p[1], known, p[2])]
<1>1. step \in [Conditions \X [Conditions -> Results] -> Results]
  <2>1. ASSUME NEW c \in Conditions, NEW g \in [Conditions -> Results]
        PROVE  Judge(c, known, g) \in Results
    BY JudgeTyped, ConditionsAreTrees
  <2>2. QED
    BY <2>1
<1>2. ASSUME NEW c \in Conditions, NEW g \in [Conditions -> Results], NEW h \in [Conditions -> Results],
             \A d \in Conditions : Depth[d] < Depth[c] => g[d] = h[d]
      PROVE  step[<<c, g>>] = step[<<c, h>>]
  <2>1. \A d \in Parts(c) : g[d] = h[d]
    BY <1>2, ConditionsAreTrees
  <2>2. Judge(c, known, g) = Judge(c, known, h)
    BY <2>1, JudgeLooksAtParts
  <2>3. QED
    BY <2>2
<1>3. Results # {} /\ Depth \in [Conditions -> Nat]
  <2>1. True \in Results
    BY DEF True, Results, Outcomes
  <2>2. QED
    BY <2>1, ConditionsAreTrees
<1> HIDE DEF step
<1>4. PICK f \in [Conditions -> Results] : Solves(f, Conditions, step)
  <2>1. LooksBelow(Conditions, Results, Depth, step)
    BY <1>2 DEF LooksBelow
  <2>2. QED
    BY <1>1, <1>3, <2>1, TreeRecursion
<1>5. f = [c \in Conditions |-> Judge(c, known, f)]
  BY <1>4 DEF step, Solves
<1>6. Judged(known) = [c \in Conditions |-> Judge(c, known, Judged(known))]
  BY <1>5 DEF Judged
<1>7. \A c \in Conditions : Condition(c, known) = Judge(c, known, Judged(known))
  BY <1>6 DEF Condition
<1> DEFINE P == {c \in Conditions : Judged(known)[c] \in Results}
<1>8. ASSUME NEW c \in Conditions, Parts(c) \subseteq P PROVE c \in P
  <2>1. Judge(c, known, Judged(known)) \in Results
    BY <1>8, JudgeTyped
  <2>2. QED
    BY <1>7, <2>1 DEF Condition
<1>9. Conditions \subseteq P
  BY <1>8, TreeInduction
<1>10. QED
  BY <1>7, <1>9 DEF Condition

LEMMA ConditionByKind ==
  ASSUME NEW c \in Conditions, NEW known
  PROVE  /\ c.kind = "fact" => Condition(c, known) = Leaf(c, known)
         /\ c.kind = "relative" => Condition(c, known) = RelativeLeaf(c, known)
         /\ c.kind = "all" =>
              Condition(c, known) = Group({Condition(d, known) : d \in c.of}, "FALSE", False, True)
         /\ c.kind = "any" =>
              Condition(c, known) = Group({Condition(d, known) : d \in c.of}, "TRUE", True, False)
         /\ c.kind = "not" => Condition(c, known) = Negated(Condition(c.of, known))
<1>1. Condition(c, known) = Judge(c, known, Judged(known))
  BY ConditionsAreJudged
<1>2. QED
  BY <1>1 DEF Judge, Condition

\* The comparisons a condition is made of are its own, or those of its parts.
LEMMA LeavesOfParts ==
  \A c \in Conditions :
    LeavesOf[c] = IF c.kind \in {"fact", "relative"} THEN {c} ELSE UNION {LeavesOf[d] : d \in Parts(c)}
<1> DEFINE leaves(c, g) ==
             IF c.kind \in {"fact", "relative"} THEN {c} ELSE UNION {g[d] : d \in Parts(c)}
           step == [p \in Conditions \X [Conditions -> SUBSET Conditions] |-> leaves(p[1], p[2])]
<1>1. step \in [Conditions \X [Conditions -> SUBSET Conditions] -> SUBSET Conditions]
  <2>1. ASSUME NEW c \in Conditions, NEW g \in [Conditions -> SUBSET Conditions]
        PROVE  leaves(c, g) \in SUBSET Conditions
    <3>1. \A d \in Parts(c) : g[d] \in SUBSET Conditions
      BY ConditionsAreTrees
    <3>2. QED
      BY <3>1
  <2> HIDE DEF leaves
  <2>2. QED
    BY <2>1
<1>2. LooksBelow(Conditions, SUBSET Conditions, Depth, step)
  <2>1. ASSUME NEW c \in Conditions,
               NEW g \in [Conditions -> SUBSET Conditions], NEW h \in [Conditions -> SUBSET Conditions],
               \A d \in Conditions : Depth[d] < Depth[c] => g[d] = h[d]
        PROVE  leaves(c, g) = leaves(c, h)
    <3>1. \A d \in Parts(c) : g[d] = h[d]
      BY <2>1, ConditionsAreTrees
    <3>2. {g[d] : d \in Parts(c)} = {h[d] : d \in Parts(c)}
      BY <3>1
    <3>3. QED
      BY <3>2
  <2> HIDE DEF leaves
  <2>2. QED
    BY <2>1 DEF LooksBelow
<1>3. SUBSET Conditions # {} /\ Depth \in [Conditions -> Nat]
  BY ConditionsAreTrees
<1> HIDE DEF step
<1>4. PICK f \in [Conditions -> SUBSET Conditions] : Solves(f, Conditions, step)
  BY <1>1, <1>2, <1>3, TreeRecursion
<1>5. f = [c \in Conditions |-> leaves(c, f)]
  <2>1. \A c \in Conditions : f[c] = leaves(c, f)
    <3> HIDE DEF leaves
    <3>1. QED
      BY <1>4 DEF step, Solves
  <2> HIDE DEF leaves
  <2>2. QED
    BY <2>1
<1>6. LeavesOf = [c \in Conditions |-> leaves(c, LeavesOf)]
  BY <1>5 DEF LeavesOf
<1>7. QED
  BY <1>6

\* A group's parts have no other comparisons.
LEMMA PartsHaveFewerLeaves ==
  ASSUME NEW c \in Conditions, NEW d \in Parts(c)
  PROVE  d \in Conditions /\ LeavesOf[d] \subseteq LeavesOf[c]
<1>1. d \in Conditions
  BY ConditionsAreTrees
<1>2. c.kind \notin {"fact", "relative"}
  BY DEF Parts
<1>3. QED
  BY <1>1, <1>2, LeavesOfParts

LEMMA LeavesAreComparisons ==
  \A c \in Conditions : \A l \in LeavesOf[c] : l \in Conditions /\ l.kind \in {"fact", "relative"}
<1> DEFINE P == {c \in Conditions :
                   \A l \in LeavesOf[c] : l \in Conditions /\ l.kind \in {"fact", "relative"}}
<1>1. ASSUME NEW c \in Conditions, Parts(c) \subseteq P, NEW l \in LeavesOf[c]
      PROVE  l \in Conditions /\ l.kind \in {"fact", "relative"}
  <2>1. CASE c.kind \in {"fact", "relative"}
    BY <2>1, LeavesOfParts
  <2>2. CASE c.kind \notin {"fact", "relative"}
    <3>1. LeavesOf[c] = UNION {LeavesOf[d] : d \in Parts(c)}
      BY <2>2, LeavesOfParts
    <3>2. PICK d \in Parts(c) : l \in LeavesOf[d]
      BY <1>1, <3>1
    <3>3. QED
      BY <1>1, <3>2
  <2>3. QED
    BY <2>1, <2>2
<1>2. \A c \in Conditions : Parts(c) \subseteq P => c \in P
  BY <1>1
<1>3. Conditions \subseteq P
  BY <1>2, TreeInduction
<1>4. QED
  BY <1>3

Settled(c, known) == Condition(c, known).outcome # "INDETERMINATE"

\* Of a condition that is settled nothing is reported missing.
LEMMA SettledLacksNothing ==
  ASSUME NEW c \in Conditions, NEW known, Settled(c, known)
  PROVE  Condition(c, known).missing = {}
<1> DEFINE result == Condition(c, known)
<1>1. result \in {True, False} \/ result.outcome = "INDETERMINATE"
  <2>1. CASE c.kind = "fact"
    <3>1. result = Leaf(c, known)
      BY <2>1, ConditionByKind
    <3> HIDE DEF result
    <3>2. QED
      BY <3>1 DEF Leaf, Truth, Indeterminate
  <2>2. CASE c.kind = "relative"
    <3>1. result = RelativeLeaf(c, known)
      BY <2>2, ConditionByKind
    <3> HIDE DEF result
    <3>2. QED
      BY <3>1 DEF RelativeLeaf, Truth, Indeterminate
  <2>3. CASE c.kind \in {"all", "any"}
    BY <2>3, ConditionByKind DEF Group, Indeterminate
  <2>4. CASE c.kind = "not"
    <3>1. result = Negated(Condition(c.of, known))
      BY <2>4, ConditionByKind
    <3> HIDE DEF result
    <3>2. QED
      BY <3>1 DEF Negated, Truth
  <2>5. QED
    BY <2>1, <2>2, <2>3, <2>4, ConditionsAreTrees
<1>2. result.outcome # "INDETERMINATE"
  BY DEF Settled
<1> HIDE DEF result
<1>3. result = True \/ result = False
  BY <1>1, <1>2
<1>4. result.missing = {}
  BY <1>3 DEF True, False
<1>5. QED
  BY <1>4 DEF result

\* A condition that was settled stays so if that is true of its comparisons.
LEMMA SettledStays ==
  ASSUME NEW known, NEW more, NEW L,
         \A l \in L \cap Conditions : Settled(l, known) => Condition(l, more) = Condition(l, known)
  PROVE  \A c \in Conditions :
           LeavesOf[c] \subseteq L /\ Settled(c, known) => Condition(c, more) = Condition(c, known)
<1> DEFINE P == {c \in Conditions :
                   LeavesOf[c] \subseteq L /\ Settled(c, known) => Condition(c, more) = Condition(c, known)}
<1>1. ASSUME NEW c \in Conditions, Parts(c) \subseteq P,
             LeavesOf[c] \subseteq L, Settled(c, known)
      PROVE  Condition(c, more) = Condition(c, known)
  <2>1. \A d \in Parts(c) : d \in Conditions /\ (Settled(d, known) => Condition(d, more) = Condition(d, known))
    BY <1>1, PartsHaveFewerLeaves
  <2>2. CASE c.kind \in {"fact", "relative"}
    <3>1. c \in L
      BY <1>1, <2>2, LeavesOfParts
    <3>2. QED
      BY <1>1, <3>1
  <2>3. CASE c.kind \in {"all", "any"}
    <3> DEFINE before == {Condition(d, known) : d \in c.of}
               after == {Condition(d, more) : d \in c.of}
    <3>1. \A d \in c.of : Settled(d, known) => Condition(d, more) = Condition(d, known)
      BY <2>1, <2>3 DEF Parts
    <3>2. ASSUME NEW settling, settling # "INDETERMINATE", NEW settled, NEW otherwise,
                 Group(before, settling, settled, otherwise).outcome # "INDETERMINATE"
          PROVE  Group(after, settling, settled, otherwise) = Group(before, settling, settled, otherwise)
      <4>1. CASE \E r \in before : r.outcome = settling
        <5>1. PICK d \in c.of : Condition(d, known).outcome = settling
          BY <4>1
        <5>2. Condition(d, more).outcome = settling
          BY <3>1, <3>2, <5>1 DEF Settled
        <5>3. QED
          BY <4>1, <5>2 DEF Group
      <4>2. CASE ~\E r \in before : r.outcome = settling
        <5>1. ~\E r \in before : r.outcome = "INDETERMINATE"
          BY <3>2, <4>2 DEF Group, Indeterminate
        <5>2. \A d \in c.of : Condition(d, more) = Condition(d, known)
          BY <3>1, <5>1 DEF Settled
        <5>3. after = before
          BY <5>2
        <5>4. QED
          BY <5>3
      <4>3. QED
        BY <4>1, <4>2
    <3>3. \/ Condition(c, known) = Group(before, "FALSE", False, True) /\ Condition(c, more) = Group(after, "FALSE", False, True)
          \/ Condition(c, known) = Group(before, "TRUE", True, False) /\ Condition(c, more) = Group(after, "TRUE", True, False)
      BY <2>3, ConditionByKind
    <3> HIDE DEF before, after
    <3>4. QED
      BY <1>1, <3>2, <3>3 DEF Settled
  <2>4. CASE c.kind = "not"
    <3>1. Condition(c, known) = Negated(Condition(c.of, known)) /\ Condition(c, more) = Negated(Condition(c.of, more))
      BY <2>4, ConditionByKind
    <3>2. Settled(c.of, known)
      BY <1>1, <3>1 DEF Settled, Negated
    <3>3. Condition(c.of, more) = Condition(c.of, known)
      BY <2>1, <2>4, <3>2 DEF Parts
    <3>4. QED
      BY <3>1, <3>3
  <2>5. QED
    BY <2>2, <2>3, <2>4, ConditionsAreTrees
<1>2. \A c \in Conditions : Parts(c) \subseteq P => c \in P
  BY <1>1
<1>3. Conditions \subseteq P
  BY <1>2, TreeInduction
<1>4. QED
  BY <1>3

\* What is missing for a condition is what is missing for some of its comparisons,
\* and there is some.
LEMMA MissingAddsUp ==
  ASSUME NEW known, NEW L, NEW lacked,
         \A l \in L \cap Conditions :
           ~Settled(l, known) => Condition(l, known).missing # {} /\ Condition(l, known).missing \subseteq lacked
  PROVE  \A c \in Conditions :
           LeavesOf[c] \subseteq L /\ ~Settled(c, known)
             => Condition(c, known).missing # {} /\ Condition(c, known).missing \subseteq lacked
<1> DEFINE names(c) == Condition(c, known).missing
           P == {c \in Conditions :
                   LeavesOf[c] \subseteq L /\ ~Settled(c, known) => names(c) # {} /\ names(c) \subseteq lacked}
<1>1. ASSUME NEW c \in Conditions, Parts(c) \subseteq P,
             LeavesOf[c] \subseteq L, ~Settled(c, known)
      PROVE  names(c) # {} /\ names(c) \subseteq lacked
  <2>1. \A d \in Parts(c) :
          d \in Conditions /\ (~Settled(d, known) => names(d) # {} /\ names(d) \subseteq lacked)
    BY <1>1, PartsHaveFewerLeaves
  <2>2. CASE c.kind \in {"fact", "relative"}
    <3>1. c \in L
      BY <1>1, <2>2, LeavesOfParts
    <3>2. QED
      BY <1>1, <3>1
  <2>3. CASE c.kind \in {"all", "any"}
    <3> DEFINE results == {Condition(d, known) : d \in c.of}
    <3>1. \/ Condition(c, known) = Group(results, "FALSE", False, True)
          \/ Condition(c, known) = Group(results, "TRUE", True, False)
      BY <2>3, ConditionByKind
    <3>2. /\ \E r \in results : r.outcome = "INDETERMINATE"
          /\ Condition(c, known) = Indeterminate(UNION {r.missing : r \in results})
      BY <1>1, <3>1 DEF Group, Settled, True, False
    <3>3. names(c) = UNION {names(d) : d \in c.of}
      BY <3>2 DEF Indeterminate
    <3>4. \A d \in c.of : Settled(d, known) => names(d) = {}
      <4>1. ASSUME NEW d \in Conditions, Settled(d, known) PROVE names(d) = {}
        BY <4>1, SettledLacksNothing
      <4>2. QED
        BY <2>1, <2>3, <4>1 DEF Parts
    <3>5. PICK d \in c.of : ~Settled(d, known)
      BY <3>2 DEF Settled
    <3>6. QED
      BY <2>1, <2>3, <3>3, <3>4, <3>5 DEF Parts
  <2>4. CASE c.kind = "not"
    <3>1. Condition(c, known) = Negated(Condition(c.of, known))
      BY <2>4, ConditionByKind
    <3>2. ~Settled(c.of, known) /\ Condition(c, known) = Condition(c.of, known)
      BY <1>1, <3>1 DEF Settled, Negated, Truth, True, False
    <3>3. QED
      BY <2>1, <2>4, <3>2 DEF Parts
  <2>5. QED
    BY <2>2, <2>3, <2>4, ConditionsAreTrees
<1>2. \A c \in Conditions : Parts(c) \subseteq P => c \in P
  BY <1>1
<1>3. Conditions \subseteq P
  BY <1>2, TreeInduction
<1>4. QED
  BY <1>3

\* A condition that was not settled is, once the parts are for which nothing else was
\* missing.
LEMMA PartsSettle ==
  ASSUME NEW c \in Conditions, c.kind \notin {"fact", "relative"}, NEW known, NEW more, ~Settled(c, known),
         \A d \in Parts(c) :
           Condition(d, known).missing \subseteq Condition(c, known).missing => Settled(d, more)
  PROVE  Settled(c, more)
<1>1. CASE c.kind \in {"all", "any"}
  <2> DEFINE before == {Condition(d, known) : d \in c.of}
             after == {Condition(d, more) : d \in c.of}
  <2>1. \/ /\ Condition(c, known) = Group(before, "FALSE", False, True)
           /\ Condition(c, more) = Group(after, "FALSE", False, True)
        \/ /\ Condition(c, known) = Group(before, "TRUE", True, False)
           /\ Condition(c, more) = Group(after, "TRUE", True, False)
    BY <1>1, ConditionByKind
  <2>2. Condition(c, known) = Indeterminate(UNION {r.missing : r \in before})
    BY <2>1 DEF Group, Settled, True, False
  <2>3. \A d \in c.of : Condition(d, known).missing \subseteq Condition(c, known).missing
    BY <2>2 DEF Indeterminate
  <2>4. \A d \in c.of : Settled(d, more)
    BY <1>1, <2>3 DEF Parts
  <2>5. ~\E r \in after : r.outcome = "INDETERMINATE"
    BY <2>4 DEF Settled
  <2> HIDE DEF before, after
  <2>6. Condition(c, more) \in {True, False}
    BY <2>1, <2>5 DEF Group
  <2>7. QED
    BY <2>6 DEF Settled, True, False
<1>2. CASE c.kind = "not"
  <2>1. Condition(c, known) = Negated(Condition(c.of, known)) /\ Condition(c, more) = Negated(Condition(c.of, more))
    BY <1>2, ConditionByKind
  <2>2. Condition(c, known) = Condition(c.of, known)
    BY <2>1 DEF Settled, Negated, Truth, True, False
  <2>3. Settled(c.of, more)
    BY <1>2, <2>2 DEF Parts
  <2>4. QED
    BY <2>1, <2>3 DEF Settled, Negated, Truth, True, False
<1>3. QED
  BY <1>1, <1>2, ConditionsAreTrees

\* If what is missing for a comparison settles it, what is missing for a condition
\* settles the condition.
LEMMA SettledWhenSupplied ==
  ASSUME NEW known, NEW more, NEW L, NEW supplied,
         \A l \in L \cap Conditions :
           IF Settled(l, known) THEN Condition(l, more) = Condition(l, known)
           ELSE Condition(l, known).missing \subseteq supplied => Settled(l, more)
  PROVE  \A c \in Conditions :
           (LeavesOf[c] \subseteq L /\ Condition(c, known).missing \subseteq supplied) => Settled(c, more)
<1> DEFINE names(c) == Condition(c, known).missing
           P == {c \in Conditions :
                   (LeavesOf[c] \subseteq L /\ names(c) \subseteq supplied) => Settled(c, more)}
<1>1. ASSUME NEW c \in Conditions, LeavesOf[c] \subseteq L, Settled(c, known)
      PROVE  Settled(c, more)
  <2>1. Condition(c, more) = Condition(c, known)
    BY <1>1, SettledStays
  <2>2. QED
    BY <1>1, <2>1 DEF Settled
<1>2. ASSUME NEW c \in Conditions, Parts(c) \subseteq P,
             LeavesOf[c] \subseteq L, names(c) \subseteq supplied, ~Settled(c, known)
      PROVE  Settled(c, more)
  <2>1. CASE c.kind \in {"fact", "relative"}
    <3>1. c \in L
      BY <1>2, <2>1, LeavesOfParts
    <3>2. QED
      BY <1>2, <3>1
  <2>2. CASE c.kind \notin {"fact", "relative"}
    <3>1. \A d \in Parts(c) : names(d) \subseteq names(c) => Settled(d, more)
      BY <1>2, PartsHaveFewerLeaves
    <3>2. QED
      BY <1>2, <2>2, <3>1, PartsSettle
  <2>3. QED
    BY <2>1, <2>2
<1>3. \A c \in Conditions : Parts(c) \subseteq P => c \in P
  BY <1>1, <1>2
<1>4. Conditions \subseteq P
  BY <1>3, TreeInduction
<1>5. QED
  BY <1>4

-----------------------------------------------------------------------------
(* Precedence.                                                               *)

\* Rules are told apart by their ids, so the key of one is not that of another.
LEMMA KeysDiffer ==
  ASSUME NEW p \in Packages, NEW rules \in SUBSET p.rules, NEW r \in p.rules, NEW s \in p.rules
  PROVE  /\ SortKey(r, rules) \in Seq(Int)
         /\ Len(SortKey(r, rules)) = Len(SortKey(s, rules))
         /\ r # s => \E i \in DOMAIN SortKey(r, rules) : SortKey(r, rules)[i] # SortKey(s, rules)[i]
<1> DEFINE superseded(t) == IF \E q \in rules : q.id # t.id /\ t.id \in q.supersedes THEN 1 ELSE 0
<1>1. \A t : superseded(t) \in Int /\ SortKey(t, rules) = t.scores \o <<superseded(t)>> \o <<t.id>>
  BY DEF SortKey
<1> HIDE DEF superseded
<1>2. ASSUME NEW t \in p.rules
      PROVE  /\ SortKey(t, rules) \in Seq(Int)
             /\ Len(SortKey(t, rules)) = Len(t.scores) + 2
             /\ SortKey(t, rules)[Len(t.scores) + 2] = t.id
  <2>1. t.scores \in Seq(Int) /\ t.id \in Int
    BY PackagesHoldARuleOnce
  <2> DEFINE front == t.scores \o <<superseded(t)>>
  <2>2. front \in Seq(Int) /\ Len(front) = Len(t.scores) + 1
    BY <1>1, <2>1
  <2> HIDE DEF front
  <2>3. front \o <<t.id>> \in Seq(Int) /\ Len(front \o <<t.id>>) = Len(front) + 1
    BY <2>1, <2>2
  <2>4. (front \o <<t.id>>)[Len(front) + 1] = t.id
    BY <2>1, <2>2
  <2>5. Len(front) + 1 = Len(t.scores) + 2
    BY <2>1, <2>2
  <2>6. SortKey(t, rules) = front \o <<t.id>>
    BY <1>1 DEF front
  <2>7. QED
    BY <2>3, <2>4, <2>5, <2>6
<1>3. Len(r.scores) = Len(s.scores) /\ Len(r.scores) \in Nat /\ (r # s => r.id # s.id)
  BY PackagesHoldARuleOnce
<1>4. Len(r.scores) + 2 \in 1 .. Len(r.scores) + 2
  BY <1>3
<1>5. DOMAIN SortKey(r, rules) = 1 .. Len(r.scores) + 2
  BY <1>2
<1>6. QED
  BY <1>2, <1>3, <1>4, <1>5

\* The order of precedence.py is a strict order of the rules of a package, and total.
THEOREM PrecedenceIsATotalOrder ==
  ASSUME NEW p \in Packages, NEW rules \in SUBSET p.rules
  PROVE  /\ \A r \in p.rules : ~Precedes(r, r, rules)
         /\ \A r, s, t \in p.rules : Precedes(r, s, rules) /\ Precedes(s, t, rules) => Precedes(r, t, rules)
         /\ \A r, s \in p.rules : r = s \/ Precedes(r, s, rules) \/ Precedes(s, r, rules)
<1> DEFINE key(r) == SortKey(r, rules)
<1>1. \A r, s \in p.rules :
        key(r) \in Seq(Int) /\ Len(key(r)) = Len(key(s))
        /\ (r # s => \E i \in DOMAIN key(r) : key(r)[i] # key(s)[i])
  BY KeysDiffer
<1>2. \A r, s : Precedes(r, s, rules) <=>
        \E i \in DOMAIN key(r) : key(r)[i] < key(s)[i] /\ \A j \in 1 .. i - 1 : key(r)[j] = key(s)[j]
  BY DEF Precedes
<1> HIDE DEF key
<1>3. \A r, s \in p.rules : DOMAIN key(r) = DOMAIN key(s)
  BY <1>1
<1>4. \A r \in p.rules : /\ DOMAIN key(r) = 1 .. Len(key(r)) /\ Len(key(r)) \in Nat
                         /\ \A i \in DOMAIN key(r) : key(r)[i] \in Int
  BY <1>1
<1>5. ASSUME NEW r \in p.rules PROVE ~Precedes(r, r, rules)
  BY <1>2, <1>4
<1>6. ASSUME NEW r \in p.rules, NEW s \in p.rules, NEW t \in p.rules,
             Precedes(r, s, rules), Precedes(s, t, rules)
      PROVE  Precedes(r, t, rules)
  <2>1. PICK i \in DOMAIN key(r) : key(r)[i] < key(s)[i] /\ \A j \in 1 .. i - 1 : key(r)[j] = key(s)[j]
    BY <1>2, <1>6
  <2>2. PICK k \in DOMAIN key(s) : key(s)[k] < key(t)[k] /\ \A j \in 1 .. k - 1 : key(s)[j] = key(t)[j]
    BY <1>2, <1>6
  <2> DEFINE n == Len(key(r))
  <2>3. /\ n \in Nat /\ i \in 1 .. n /\ k \in 1 .. n
        /\ DOMAIN key(r) = 1 .. n /\ DOMAIN key(s) = 1 .. n /\ DOMAIN key(t) = 1 .. n
        /\ \A j \in 1 .. n : key(r)[j] \in Int /\ key(s)[j] \in Int /\ key(t)[j] \in Int
    BY <1>3, <1>4
  <2> HIDE DEF n
  <2>4. CASE i <= k
    <3>1. key(r)[i] < key(t)[i]
      <4>1. CASE i = k
        BY <2>1, <2>2, <2>3, <4>1
      <4>2. CASE i < k
        <5>1. i \in 1 .. k - 1
          BY <2>3, <4>2
        <5>2. key(s)[i] = key(t)[i]
          BY <2>2, <5>1
        <5>3. QED
          BY <2>1, <5>2
      <4>3. QED
        BY <2>3, <2>4, <4>1, <4>2
    <3>2. \A j \in 1 .. i - 1 : j \in 1 .. k - 1
      BY <2>3, <2>4
    <3>3. QED
      BY <1>2, <2>1, <2>2, <3>1, <3>2
  <2>5. CASE k < i
    <3>1. k \in 1 .. i - 1 /\ \A j \in 1 .. k - 1 : j \in 1 .. i - 1
      BY <2>3, <2>5
    <3>2. key(r)[k] < key(t)[k]
      BY <2>1, <2>2, <3>1
    <3>3. k \in DOMAIN key(r)
      BY <2>3
    <3>4. QED
      BY <1>2, <2>1, <2>2, <3>1, <3>2, <3>3
  <2>6. QED
    BY <2>3, <2>4, <2>5
<1>7. ASSUME NEW r \in p.rules, NEW s \in p.rules, r # s
      PROVE  Precedes(r, s, rules) \/ Precedes(s, r, rules)
  <2> DEFINE D == {i \in DOMAIN key(r) : key(r)[i] # key(s)[i]}
  <2>1. D # {} /\ D \in SUBSET Nat
    BY <1>1, <1>4, <1>7
  <2>2. PICK i \in D : \A j \in D : i <= j
    BY <2>1, LeastNumber
  <2>3. \A j \in 1 .. i - 1 : j \in DOMAIN key(r) /\ j \notin D
    <3>1. i \in 1 .. Len(key(r)) /\ Len(key(r)) \in Nat /\ DOMAIN key(r) = 1 .. Len(key(r))
      BY <1>4, <2>2
    <3>2. ASSUME NEW j \in 1 .. i - 1 PROVE j \in 1 .. Len(key(r)) /\ ~(i <= j)
      BY <3>1
    <3> HIDE DEF D
    <3>3. QED
      BY <2>2, <3>1, <3>2
  <2>4. \A j \in 1 .. i - 1 : key(r)[j] = key(s)[j]
    BY <2>3
  <2>5. i \in DOMAIN key(r) /\ i \in DOMAIN key(s) /\ (key(r)[i] < key(s)[i] \/ key(s)[i] < key(r)[i])
    BY <1>3, <1>4, <2>2
  <2>6. QED
    BY <1>2, <2>4, <2>5
<1>8. QED
  BY <1>5, <1>6, <1>7

\* Of rules of a package one comes first.
LEMMA OneComesFirst ==
  ASSUME NEW p \in Packages, NEW rules \in SUBSET p.rules,
         NEW some \in SUBSET p.rules, some # {}
  PROVE  First(some, rules) \in some /\ \A s \in some \ {First(some, rules)} : Precedes(First(some, rules), s, rules)
<1> DEFINE Leads(r, C) == r \in C /\ \A s \in C \ {r} : Precedes(r, s, rules)
           N == {n \in Nat : \E C \in SUBSET p.rules : C # {} /\ Cardinality(C) = n /\ ~\E r \in C : Leads(r, C)}
<1>1. /\ \A r, s, t \in p.rules : Precedes(r, s, rules) /\ Precedes(s, t, rules) => Precedes(r, t, rules)
      /\ \A r, s \in p.rules : r = s \/ Precedes(r, s, rules) \/ Precedes(s, r, rules)
  BY PrecedenceIsATotalOrder
<1>2. \A C \in SUBSET p.rules : IsFiniteSet(C)
  BY PackagesHoldARuleOnce, FS_Subset
<1>3. N = {}
  <2> SUFFICES ASSUME N # {} PROVE FALSE
    OBVIOUS
  <2>1. PICK n \in N : \A m \in N : n <= m
    BY LeastNumber
  <2>2. PICK C \in SUBSET p.rules : C # {} /\ Cardinality(C) = n /\ ~\E r \in C : Leads(r, C)
    BY <2>1
  <2>3. PICK x \in C : TRUE
    BY <2>2
  <2> DEFINE D == C \ {x}
  <2>4. D \in SUBSET p.rules /\ Cardinality(D) = n - 1 /\ n - 1 \in Nat
    <3>1. Cardinality(D) = Cardinality(C) - 1 /\ Cardinality(D) \in Nat
      BY <1>2, FS_RemoveElement, FS_CardinalityType
    <3>2. QED
      BY <2>1, <2>2, <3>1
  <2>5. n - 1 \notin N
    BY <2>1, <2>4
  <2>6. D # {}
    <3>1. CASE D = {}
      BY <2>2, <3>1
    <3>2. QED
      BY <3>1
  <2>7. PICK y \in D : Leads(y, D)
    BY <2>4, <2>5, <2>6
  <2>8. x \in p.rules /\ y \in p.rules /\ x # y /\ y \in C
    BY <2>3, <2>7
  <2>9. CASE Precedes(y, x, rules)
    <3>1. Leads(y, C)
      BY <2>7, <2>8, <2>9
    <3>2. QED
      BY <2>2, <2>8, <3>1
  <2>10. CASE Precedes(x, y, rules)
    <3>1. ASSUME NEW s \in C \ {x} PROVE Precedes(x, s, rules)
      <4>1. s = y \/ Precedes(y, s, rules)
        BY <2>7
      <4>2. QED
        BY <1>1, <2>8, <2>10, <4>1
    <3>2. QED
      BY <2>2, <3>1
  <2>11. QED
    BY <1>1, <2>8, <2>9, <2>10
<1>4. Cardinality(some) \in Nat
  BY <1>2, FS_CardinalityType
<1>5. \E r \in some : \A s \in some \ {r} : Precedes(r, s, rules)
  BY <1>3, <1>4
<1>6. QED
  BY <1>5 DEF First
-----------------------------------------------------------------------------
(* The evaluation.                                                           *)

\* What a caller has is the evaluation of what it supplied.
Inv ==
  /\ package \in Packages
  /\ facts \in [DOMAIN facts -> Values]
  /\ response = Evaluate(facts)

\* Every response is the evaluation of all that has been supplied, against the
\* package it was first asked about.
THEOREM ResponsesAreCurrent == Spec => []Inv
<1>1. Init => Inv
  <2> SUFFICES ASSUME Init PROVE Inv
    OBVIOUS
  <2>1. facts \in [DOMAIN facts -> Values]
    BY DEF Init
  <2>2. QED
    BY <2>1 DEF Init, Inv
<1>2. Inv /\ [Next]_vars => Inv'
  <2> SUFFICES ASSUME Inv, [Next]_vars PROVE Inv'
    OBVIOUS
  <2>1. CASE UNCHANGED vars
    <3>1. Evaluate(facts)' = Evaluate(facts)
      BY <2>1 DEF vars, Evaluate
    <3>2. QED
      BY <2>1, <3>1 DEF Inv, vars
  <2>2. ASSUME NEW f \in Facts, NEW v \in Values, Learn(f, v) PROVE Inv'
    <3>1. package' = package /\ response' = Evaluate(facts')
      BY <2>2 DEF Learn
    <3>2. Evaluate(facts)' = Evaluate(facts')
      BY <3>1 DEF Evaluate
    <3>3. facts' \in [DOMAIN facts' -> Values]
      BY <2>2 DEF Learn, Inv
    <3>4. QED
      BY <3>1, <3>2, <3>3 DEF Inv
  <2>3. QED
    BY <2>1, <2>2 DEF Next
<1>3. QED
  BY <1>1, <1>2, PTL DEF Spec

\* Where rules conflict, the one that decides is satisfied, outranks every satisfied
\* rule of the other side, and only its side is acted on.
THEOREM ConflictsAreDecided == Spec => []OneSideDecides
<1>1. Inv => OneSideDecides
  <2> SUFFICES ASSUME Inv PROVE OneSideDecides
    OBVIOUS
  <2> DEFINE rules == {r \in package.rules : r.current}
             satisfied == {r \in rules : [q \in rules |-> EvaluateRule(q, facts)][r].status = "SATISFIED"}
             competing == {r \in satisfied : r.effect \in OnAxis}
             acting == Contributing(satisfied, rules)
  <2>1. /\ response.satisfied = satisfied
        /\ response.outcome = {r.action : r \in Winner(satisfied, rules)}
        /\ response.overridden = Overridden(satisfied, rules)
        /\ response.required = {r.action : r \in {s \in acting : s.effect \in AllowLike}}
        /\ response.denied = {r.action : r \in {s \in acting : s.effect = "deny"}}
    BY DEF Inv, Evaluate
  <2>2. package \in Packages /\ rules \in SUBSET package.rules /\ competing \in SUBSET package.rules
    BY DEF Inv
  <2>3. Winner(satisfied, rules) = {r \in competing : r = First(competing, rules)}
    BY DEF Winner
  <2> HIDE DEF satisfied, acting, rules
  <2>4. CASE competing = {}
    <3>1. acting = {}
      BY <2>3, <2>4 DEF acting, Contributing
    <3>2. QED
      BY <2>1, <2>4, <3>1 DEF OneSideDecides, rules
  <2>5. CASE competing # {}
    <3> DEFINE w == First(competing, rules)
    <3>1. w \in competing /\ \A r \in competing \ {w} : Precedes(w, r, rules)
      BY <2>2, <2>5, OneComesFirst
    <3> HIDE DEF w
    <3>2. Winner(satisfied, rules) = {w}
      BY <2>3, <3>1 DEF w
    <3>3. Overridden(satisfied, rules) = {r \in competing : ~SameSide(r, w)}
      BY <3>2 DEF Overridden
    <3>4. \A r \in acting : r.effect \in OnAxis => SameSide(r, w)
      BY <3>2, <3>3 DEF acting, Contributing
    <3>5. response.required = {} \/ response.denied = {}
      <4>1. CASE w.effect = "deny"
        <5>1. {s \in acting : s.effect \in AllowLike} = {}
          BY <3>4, <4>1 DEF SameSide, OnAxis, AllowLike
        <5>2. QED
          BY <2>1, <5>1
      <4>2. CASE w.effect # "deny"
        <5>1. {s \in acting : s.effect = "deny"} = {}
          BY <3>4, <4>2 DEF SameSide, OnAxis, AllowLike
        <5>2. QED
          BY <2>1, <5>1
      <4>3. QED
        BY <4>1, <4>2
    <3>6. response.outcome = {w.action}
      BY <2>1, <3>2
    <3>7. \A r \in competing : SameSide(r, w) \/ Precedes(w, r, rules)
      BY <3>1 DEF SameSide
    <3>8. QED
      BY <2>1, <3>1, <3>3, <3>5, <3>6, <3>7 DEF OneSideDecides, rules
  <2>6. QED
    BY <2>4, <2>5
<1>2. QED
  BY <1>1, ResponsesAreCurrent, PTL

-----------------------------------------------------------------------------
(* What is missing.                                                          *)

LEMMA NullIsNotTyped == \A v : v.type \in {"number", "text"} => v # Null
  BY DEF Null

\* One comparison of numbers: what it lacks is reported, and settles it.
LEMMA ComparisonsAreSettledByFacts ==
  ASSUME NEW known, \A f \in DOMAIN known : known[f] \in Values /\ known[f].type # "text",
         NEW names, NEW more \in Completions(names),
         \A f \in names : Lacks(known, f),
         NEW l \in Conditions, l.kind \in {"fact", "relative"}, ComparesNumbers(l)
  PROVE  IF Settled(l, known) THEN Condition(l, Completed(known, more)) = Condition(l, known)
         ELSE /\ Condition(l, known).missing # {}
              /\ Condition(l, known).missing \subseteq {f \in Facts : Lacks(known, f)}
              /\ Condition(l, known).missing \subseteq names => Settled(l, Completed(known, more))
<1> DEFINE then == Completed(known, more)
<1>1. ASSUME NEW f, ~Lacks(known, f)
      PROVE  f \in DOMAIN known /\ known[f].type = "number" /\ f \in DOMAIN then /\ then[f] = known[f] /\ ~Lacks(then, f)
  <2>1. f \in DOMAIN known /\ known[f] # Null
    BY <1>1 DEF Lacks
  <2>2. known[f].type = "number"
    BY <2>1, ValuesAreTyped
  <2>3. f \notin names /\ DOMAIN more = names
    BY <1>1 DEF Completions
  <2>4. f \in DOMAIN then /\ then[f] = known[f]
    BY <2>1, <2>3 DEF Completed
  <2> HIDE DEF then
  <2>5. ~Lacks(then, f)
    BY <2>1, <2>4 DEF Lacks
  <2>6. QED
    BY <2>1, <2>2, <2>4, <2>5
<1>2. ASSUME NEW f \in names
      PROVE  f \in DOMAIN then /\ then[f].type = "number" /\ ~Lacks(then, f)
  <2>1. f \in DOMAIN more /\ more[f].type = "number"
    BY DEF Completions
  <2>2. f \in DOMAIN then /\ then[f] = more[f]
    BY <2>1 DEF Completed
  <2> HIDE DEF then
  <2>3. QED
    BY <2>1, <2>2, NullIsNotTyped DEF Lacks
<1> HIDE DEF then
<1>3. CASE l.kind = "fact"
  <2>1. \A m : Condition(l, m) =
          IF Lacks(m, l.fact) \/ ~Comparable(l.op, m[l.fact], l.value) THEN Indeterminate({l.fact})
          ELSE Truth(Compare(l.op, m[l.fact], l.value))
    BY <1>3, ConditionByKind DEF ComparesNumbers, Orders, Leaf
  <2>2. (l.op \in Orders => l.value.type = "number") /\ l.fact \in Facts
    BY <1>3, ConditionsAreTrees DEF ComparesNumbers
  <2>3. \A m : ~Lacks(m, l.fact) /\ m[l.fact].type = "number" =>
          /\ Condition(l, m) = Truth(Compare(l.op, m[l.fact], l.value))
          /\ Settled(l, m)
    BY <2>1, <2>2 DEF Comparable, Settled, Truth, True, False
  <2>4. \A m : Lacks(m, l.fact) => Condition(l, m) = Indeterminate({l.fact}) /\ ~Settled(l, m)
    BY <2>1 DEF Settled, Indeterminate
  <2>5. CASE Lacks(known, l.fact)
    <3>1. Condition(l, known).missing = {l.fact} /\ ~Settled(l, known)
      BY <2>4, <2>5 DEF Indeterminate
    <3>2. l.fact \in names => Settled(l, then)
      BY <1>2, <2>3
    <3>3. QED
      BY <2>2, <2>5, <3>1, <3>2 DEF then
  <2>6. CASE ~Lacks(known, l.fact)
    <3>1. Settled(l, known) /\ Condition(l, then) = Condition(l, known)
      BY <1>1, <2>3, <2>6
    <3>2. QED
      BY <3>1 DEF then
  <2>7. QED
    BY <2>5, <2>6
<1>4. CASE l.kind = "relative"
  <2>1. \A m : Condition(l, m) = RelativeLeaf(l, m)
    BY <1>4, ConditionByKind
  <2>2. l.op \in Orders \cup {"equals", "notEquals"} /\ {l.fact, l.reference} \subseteq Facts
    BY <1>4, ConditionsAreTrees DEF ComparesNumbers
  <2>3. \A m : Lacking(l, m) # {} => Condition(l, m) = Indeterminate(Lacking(l, m)) /\ ~Settled(l, m)
    BY <2>1 DEF RelativeLeaf, Settled, Indeterminate
  <2>4. ASSUME NEW m, \A f \in {l.fact, l.reference} : ~Lacks(m, f) /\ m[f].type = "number"
        PROVE  /\ Condition(l, m) = Truth(Compare(l.op, m[l.fact], Number(l.factor * m[l.reference].n)))
               /\ Settled(l, m)
    <3>1. Lacking(l, m) = {}
      BY <2>4 DEF Lacking
    <3>2. Condition(l, m) = Truth(Compare(l.op, m[l.fact], Number(l.factor * m[l.reference].n)))
      BY <2>1, <2>2, <2>4, <3>1 DEF RelativeLeaf
    <3>3. QED
      BY <3>2 DEF Settled, Truth, True, False
  <2>5. CASE Lacking(l, known) # {}
    <3>1. Condition(l, known).missing = Lacking(l, known) /\ ~Settled(l, known)
      BY <2>3, <2>5 DEF Indeterminate
    <3>2. Lacking(l, known) \subseteq {f \in Facts : Lacks(known, f)}
      BY <2>2 DEF Lacking
    <3>3. ASSUME Lacking(l, known) \subseteq names PROVE Settled(l, then)
      <4>1. \A f \in {l.fact, l.reference} : f \in names \/ ~Lacks(known, f)
        BY <3>3 DEF Lacking
      <4>2. \A f \in {l.fact, l.reference} : ~Lacks(then, f) /\ then[f].type = "number"
        BY <1>1, <1>2, <4>1
      <4>3. QED
        BY <2>4, <4>2
    <3>4. QED
      BY <2>5, <3>1, <3>2, <3>3 DEF then
  <2>6. CASE Lacking(l, known) = {}
    <3>1. \A f \in {l.fact, l.reference} : ~Lacks(known, f)
      BY <2>6 DEF Lacking
    <3>2. \A f \in {l.fact, l.reference} :
            known[f].type = "number" /\ ~Lacks(then, f) /\ then[f].type = "number" /\ then[f] = known[f]
      BY <1>1, <3>1
    <3>3. Settled(l, known) /\ Condition(l, then) = Condition(l, known)
      BY <2>4, <3>1, <3>2
    <3>4. QED
      BY <3>3 DEF then
  <2>7. QED
    BY <2>5, <2>6
<1>5. QED
  BY <1>3, <1>4

\* Whether a fact is there is a question that is settled once the fact is, and stays so.
LEMMA PresenceIsSettledByFacts ==
  ASSUME NEW known, NEW names, NEW more \in Completions(names),
         NEW l \in Conditions, AsksForPresence(l)
  PROVE  /\ ~Settled(l, known) => /\ Condition(l, known).missing # {}
                                 /\ Condition(l, known).missing \subseteq {f \in Facts : Lacks(known, f)}
         /\ Condition(l, known).missing \subseteq names => Settled(l, Completed(known, more))
<1>1. l.kind = "fact" /\ l.op \in {"exists", "isNull"} /\ l.fact \in Facts
  BY ConditionsAreTrees DEF AsksForPresence
<1>2. \A m : Condition(l, m) = Leaf(l, m)
  BY <1>1, ConditionByKind
<1>3. CASE l.op = "exists"
  <2>1. \A m : Settled(l, m)
    BY <1>2, <1>3 DEF Leaf, Settled, Truth, True, False
  <2>2. QED
    BY <2>1
<1>4. CASE l.op = "isNull"
  <2>1. \A m : IF l.fact \in DOMAIN m THEN Settled(l, m) ELSE Condition(l, m) = Indeterminate({l.fact})
    BY <1>2, <1>4 DEF Leaf, Settled, Truth, True, False
  <2>2. CASE l.fact \in DOMAIN known
    <3>1. l.fact \in DOMAIN Completed(known, more)
      BY <2>2 DEF Completed
    <3>2. QED
      BY <2>1, <2>2, <3>1
  <2>3. CASE l.fact \notin DOMAIN known
    <3>1. Condition(l, known).missing = {l.fact}
      BY <2>1, <2>3 DEF Indeterminate
    <3>2. l.fact \in names => l.fact \in DOMAIN Completed(known, more)
      BY DEF Completed, Completions
    <3>3. QED
      BY <1>1, <2>1, <2>3, <3>1, <3>2 DEF Lacks
  <2>4. QED
    BY <2>2, <2>3
<1>5. QED
  BY <1>1, <1>3, <1>4

\* What is reported missing for a condition is not there yet, and whatever the numbers
\* supplied for it, the condition is determined: of comparisons of numbers however
\* nested, and of questions of presence in one group.
THEOREM MissingFactsAreComplete == Spec => []MissingFactsSuffice
<1>1. Inv => MissingFactsSuffice
  <2> SUFFICES ASSUME Inv, \A f \in DOMAIN facts : facts[f].type # "text", NEW r \in package.rules,
                      \A l \in LeavesOf[r.condition] : ComparesNumbers(l) \/ AsksForPresence(l),
                      AsksInOneGroup(r.condition),
                      ~Settled(r.condition, facts)
               PROVE  /\ Condition(r.condition, facts).missing # {}
                      /\ \A more \in Completions(Condition(r.condition, facts).missing) :
                           Settled(r.condition, Completed(facts, more))
    BY DEF MissingFactsSuffice, Settled
  <2> DEFINE c == r.condition
             L == LeavesOf[c]
             lacked == {f \in Facts : Lacks(facts, f)}
             missing(d) == Condition(d, facts).missing
             names == missing(c)
  <2>1. c \in Conditions
    BY PackagesHoldARuleOnce DEF Inv
  <2>2. \A f \in DOMAIN facts : facts[f] \in Values /\ facts[f].type # "text"
    BY DEF Inv
  <2>3. \A l \in L : l \in Conditions /\ l.kind \in {"fact", "relative"} /\ (ComparesNumbers(l) \/ AsksForPresence(l))
    BY <2>1, LeavesAreComparisons
  <2>4. AsksInOneGroup(c) /\ ~Settled(c, facts)
    OBVIOUS
  <2> HIDE DEF L, c
  <2>5. names # {} /\ names \subseteq lacked
    <3> DEFINE none == [f \in {} |-> Null]
    <3>1. none \in Completions({})
      BY DEF Completions
    <3>2. \A l \in L \cap Conditions : ~Settled(l, facts) => missing(l) # {} /\ missing(l) \subseteq lacked
      <4>1. ASSUME NEW l \in L, ComparesNumbers(l), ~Settled(l, facts)
            PROVE  missing(l) # {} /\ missing(l) \subseteq lacked
        <5>1. \A f \in {} : Lacks(facts, f)
          OBVIOUS
        <5>2. l \in Conditions /\ l.kind \in {"fact", "relative"}
          BY <2>3
        <5> HIDE DEF none
        <5>3. QED
          BY <2>2, <3>1, <4>1, <5>1, <5>2, ComparisonsAreSettledByFacts
      <4>2. ASSUME NEW l \in L, AsksForPresence(l), ~Settled(l, facts)
            PROVE  missing(l) # {} /\ missing(l) \subseteq lacked
        BY <2>3, <3>1, <4>2, PresenceIsSettledByFacts
      <4>3. QED
        BY <2>3, <4>1, <4>2
    <3> HIDE DEF lacked
    <3>3. QED
      BY <2>1, <2>4, <3>2, MissingAddsUp DEF L
  <2>6. ASSUME NEW more \in Completions(names) PROVE Settled(c, Completed(facts, more))
    <3> DEFINE then == Completed(facts, more)
    <3>1. \A f \in names : Lacks(facts, f)
      BY <2>5
    <3>2. ASSUME NEW l \in L, ComparesNumbers(l)
          PROVE  IF Settled(l, facts) THEN Condition(l, then) = Condition(l, facts)
                 ELSE missing(l) \subseteq names => Settled(l, then)
      BY <2>2, <2>3, <3>1, <3>2, ComparisonsAreSettledByFacts
    <3>3. ASSUME NEW l \in L, missing(l) \subseteq names PROVE Settled(l, then)
      <4>1. CASE ComparesNumbers(l)
        BY <3>2, <3>3, <4>1 DEF Settled
      <4>2. CASE AsksForPresence(l)
        BY <2>3, <3>3, <4>2, PresenceIsSettledByFacts
      <4>3. QED
        BY <2>3, <4>1, <4>2
    <3> HIDE DEF then
    \* A condition with no question of presence in a group.
    <3>4. ASSUME NEW d \in Conditions, LeavesOf[d] \subseteq L, AsksPlainly(d), missing(d) \subseteq names
          PROVE  Settled(d, then)
      <4>1. CASE Compares(d)
        <5>1. \A l \in LeavesOf[d] \cap Conditions :
                IF Settled(l, facts) THEN Condition(l, then) = Condition(l, facts)
                ELSE missing(l) \subseteq names => Settled(l, then)
          BY <3>2, <3>4, <4>1 DEF Compares
        <5>2. QED
          BY <3>4, <5>1, SettledWhenSupplied
      <4>2. CASE d.kind \in {"fact", "relative"}
        <5>1. d \in L
          BY <3>4, <4>2, LeavesOfParts
        <5>2. QED
          BY <3>3, <3>4, <5>1
      <4>3. CASE d.kind = "not" /\ d.of.kind \in {"fact", "relative"}
        <5>1. d.of \in Conditions /\ d.of \in L
          <6>1. d.of \in Parts(d)
            BY <4>3 DEF Parts
          <6>2. d.of \in Conditions /\ LeavesOf[d.of] \subseteq LeavesOf[d]
            BY <3>4, <6>1, PartsHaveFewerLeaves
          <6>3. d.of \in LeavesOf[d.of]
            BY <4>3, <6>2, LeavesOfParts
          <6>4. QED
            BY <3>4, <6>2, <6>3
        <5>2. CASE Settled(d, facts)
          <6>1. Settled(d.of, facts)
            BY <4>3, <5>2, ConditionByKind DEF Settled, Negated
          <6>2. missing(d.of) = {}
            BY <5>1, <6>1, SettledLacksNothing
          <6>3. Settled(d.of, then)
            BY <3>3, <5>1, <6>2
          <6>4. Condition(d, then) = Negated(Condition(d.of, then))
            BY <3>4, <4>3, ConditionByKind
          <6>5. QED
            BY <6>3, <6>4 DEF Settled, Negated, Truth, True, False
        <5>3. CASE ~Settled(d, facts)
          <6>1. \A e \in Parts(d) : missing(e) \subseteq missing(d) => Settled(e, then)
            BY <3>3, <3>4, <4>3, <5>1 DEF Parts
          <6>2. QED
            BY <4>3, <5>3, <6>1, PartsSettle
        <5>4. QED
          BY <5>2, <5>3
      <4>4. QED
        BY <3>4, <4>1, <4>2, <4>3 DEF AsksPlainly, Bare
    <3>5. ASSUME NEW d \in Conditions, LeavesOf[d] \subseteq L, missing(d) = names, ~Settled(d, facts),
                 d.kind \notin {"fact", "relative"}, \A e \in Parts(d) : AsksPlainly(e)
          PROVE  Settled(d, then)
      <4>1. \A e \in Parts(d) : missing(e) \subseteq missing(d) => Settled(e, then)
        BY <3>4, <3>5, PartsHaveFewerLeaves
      <4>2. QED
        BY <3>5, <4>1, PartsSettle
    <3>6. LeavesOf[c] \subseteq L
      BY DEF L
    <3>7. ASSUME ~AsksPlainly(c) PROVE Settled(c, then)
      <4>1. /\ \A d \in Parts(Bare(c)) : AsksPlainly(d)
            /\ Bare(c).kind \notin {"fact", "relative"}
        BY <2>4, <3>7 DEF AsksInOneGroup, AsksPlainly
      <4>2. CASE c.kind # "not"
        <5>1. Bare(c) = c
          BY <4>2 DEF Bare
        <5>2. QED
          BY <2>1, <2>4, <3>5, <3>6, <4>1, <5>1
      <4>3. CASE c.kind = "not"
        <5>1. Bare(c) = c.of /\ Parts(c) = {c.of}
          BY <4>3 DEF Parts, Bare
        <5>2. c.of \in Conditions /\ LeavesOf[c.of] \subseteq L
          BY <2>1, <3>6, <5>1, PartsHaveFewerLeaves
        <5>3. Condition(c, facts) = Negated(Condition(c.of, facts))
          BY <2>1, <4>3, ConditionByKind
        <5>4. Condition(c, facts) = Condition(c.of, facts) /\ ~Settled(c.of, facts)
          BY <2>4, <5>3 DEF Settled, Negated, Truth, True, False
        <5>5. Settled(c.of, then)
          BY <3>5, <4>1, <5>1, <5>2, <5>4
        <5>6. QED
          BY <2>1, <2>4, <4>3, <5>1, <5>5, PartsSettle
      <4>4. QED
        BY <4>2, <4>3
    <3>8. Settled(c, then)
      BY <2>1, <3>4, <3>6, <3>7
    <3>9. QED
      BY <3>8 DEF then
  <2>7. QED
    BY <2>5, <2>6 DEF c
<1>2. QED
  BY <1>1, ResponsesAreCurrent, PTL

-----------------------------------------------------------------------------
(* Verdicts.                                                                 *)

Extends(known, more) ==
  DOMAIN known \subseteq DOMAIN more /\ \A f \in DOMAIN known : more[f] = known[f]

\* A comparison that does not ask whether a fact is there.
LEMMA ComparisonsStand ==
  ASSUME NEW known, NEW more, Extends(known, more),
         NEW l \in Conditions, l.kind \in {"fact", "relative"}, l.kind = "fact" => l.op # "exists",
         Settled(l, known)
  PROVE  Condition(l, more) = Condition(l, known)
<1>1. \A f : ~Lacks(known, f) => ~Lacks(more, f) /\ more[f] = known[f]
  BY DEF Extends, Lacks
<1>2. CASE l.kind = "fact"
  <2>1. Condition(l, known) = Leaf(l, known) /\ Condition(l, more) = Leaf(l, more) /\ l.op # "exists"
    BY <1>2, ConditionByKind
  <2>2. CASE l.op = "isNull"
    <3>1. l.fact \in DOMAIN known
      BY <2>1, <2>2 DEF Leaf, Settled, Indeterminate
    <3>2. l.fact \in DOMAIN more /\ more[l.fact] = known[l.fact]
      BY <3>1 DEF Extends
    <3>3. QED
      BY <2>1, <2>2, <3>1, <3>2 DEF Leaf
  <2>3. CASE l.op # "isNull"
    <3>1. ~Lacks(known, l.fact) /\ Comparable(l.op, known[l.fact], l.value)
      BY <2>1, <2>3 DEF Leaf, Settled, Indeterminate
    <3>2. ~Lacks(more, l.fact) /\ more[l.fact] = known[l.fact]
      BY <1>1, <3>1
    <3>3. QED
      BY <2>1, <2>3, <3>1, <3>2 DEF Leaf
  <2>4. QED
    BY <2>2, <2>3
<1>3. CASE l.kind = "relative"
  <2>1. Condition(l, known) = RelativeLeaf(l, known) /\ Condition(l, more) = RelativeLeaf(l, more)
    BY <1>3, ConditionByKind
  <2>2. Lacking(l, known) = {}
    BY <2>1 DEF RelativeLeaf, Settled, Indeterminate
  <2>3. \A f \in {l.fact, l.reference} : ~Lacks(known, f)
    BY <2>2 DEF Lacking
  <2>4. Lacking(l, more) = {} /\ more[l.fact] = known[l.fact] /\ more[l.reference] = known[l.reference]
    BY <1>1, <2>3 DEF Lacking
  <2>5. QED
    BY <2>1, <2>2, <2>4 DEF RelativeLeaf
<1>4. QED
  BY <1>2, <1>3

\* So does a condition made of such comparisons.
LEMMA ConditionsStand ==
  ASSUME NEW known, NEW more, Extends(known, more),
         NEW c \in Conditions, \A l \in LeavesOf[c] : l.kind = "fact" => l.op # "exists",
         Settled(c, known)
  PROVE  Condition(c, more) = Condition(c, known)
<1>1. \A l \in LeavesOf[c] \cap Conditions : Settled(l, known) => Condition(l, more) = Condition(l, known)
  BY LeavesAreComparisons, ComparisonsStand
<1>2. QED
  BY <1>1, SettledStays

\* The first dimension of the target that does not match stays the first, if it is
\* not that its fact is missing.
LEMMA TargetsStand ==
  ASSUME NEW known, NEW more, Extends(known, more),
         NEW rule, DOMAIN rule.scope \subseteq Nat
  PROVE  /\ Mismatches(rule, known) = {} => Mismatches(rule, more) = {}
         /\ Mismatches(rule, known) # {} =>
              LET i == Min(Mismatches(rule, known))
              IN  Dimension(rule.scope[i], known) = "mismatch" =>
                    /\ Mismatches(rule, more) # {}
                    /\ Min(Mismatches(rule, more)) = i
                    /\ Dimension(rule.scope[i], more) = "mismatch"
<1>1. ASSUME NEW d, Dimension(d, known) # "missing"
      PROVE  Dimension(d, more) = Dimension(d, known)
  <2>1. CASE d.only = {}
    BY <2>1 DEF Dimension
  <2>2. CASE d.only # {}
    <3>1. ~Lacks(known, d.fact)
      BY <1>1, <2>2 DEF Dimension
    <3>2. ~Lacks(more, d.fact) /\ more[d.fact] = known[d.fact]
      BY <3>1 DEF Lacks, Extends
    <3>3. QED
      BY <2>2, <3>1, <3>2 DEF Dimension
  <2>3. QED
    BY <2>1, <2>2
<1>2. ASSUME NEW T \in SUBSET Nat, T # {}
      PROVE  Min(T) \in T /\ \A m \in T : Min(T) <= m
  <2>1. \E n \in T : \A m \in T : n <= m
    BY <1>2, LeastNumber
  <2>2. QED
    BY <2>1 DEF Min
<1>3. ASSUME NEW T \in SUBSET Nat, NEW i \in T, \A m \in T : i <= m
      PROVE  Min(T) = i
  <2>1. Min(T) \in Nat /\ i \in Nat /\ Min(T) <= i /\ i <= Min(T)
    BY <1>2, <1>3
  <2> HIDE DEF Min
  <2>2. QED
    BY <2>1
<1>4. \A i \in DOMAIN rule.scope :
        Dimension(rule.scope[i], known) = "match" => Dimension(rule.scope[i], more) = "match"
  BY <1>1
<1>5. Mismatches(rule, more) \subseteq Mismatches(rule, known)
      /\ Mismatches(rule, known) \in SUBSET Nat /\ Mismatches(rule, more) \in SUBSET Nat
  BY <1>4 DEF Mismatches
<1>6. ASSUME Mismatches(rule, known) # {},
             Dimension(rule.scope[Min(Mismatches(rule, known))], known) = "mismatch"
      PROVE  /\ Mismatches(rule, more) # {}
             /\ Min(Mismatches(rule, more)) = Min(Mismatches(rule, known))
             /\ Dimension(rule.scope[Min(Mismatches(rule, known))], more) = "mismatch"
  <2> DEFINE i == Min(Mismatches(rule, known))
  <2>1. i \in Mismatches(rule, known) /\ \A m \in Mismatches(rule, known) : i <= m
    BY <1>2, <1>5, <1>6
  <2>2. Dimension(rule.scope[i], more) = "mismatch"
    BY <1>1, <1>6
  <2>3. i \in Mismatches(rule, more)
    BY <2>1, <2>2 DEF Mismatches
  <2>4. \A m \in Mismatches(rule, more) : i <= m
    BY <1>5, <2>1
  <2> HIDE DEF i
  <2>5. Min(Mismatches(rule, more)) = i
    BY <1>3, <1>5, <2>3, <2>4
  <2>6. QED
    BY <2>2, <2>3, <2>5 DEF i
<1>7. QED
  BY <1>5, <1>6

\* A rule without exceptions that came to a verdict comes to the same when more is known.
LEMMA RulesStand ==
  ASSUME NEW known, NEW more, Extends(known, more),
         NEW rule, DOMAIN rule.scope \subseteq Nat, rule.condition \in Conditions, rule.exceptions = {},
         \A l \in LeavesOf[rule.condition] : l.kind = "fact" => l.op # "exists",
         EvaluateRule(rule, known).status # "INDETERMINATE"
  PROVE  EvaluateRule(rule, more) = EvaluateRule(rule, known)
<1>1. CASE ~rule.executable \/ Vacuous(rule.condition)
  BY <1>1 DEF EvaluateRule
<1>2. CASE rule.executable /\ ~Vacuous(rule.condition) /\ Mismatches(rule, known) = {}
  <2>1. EvaluateRule(rule, known) = Tested(rule, known) /\ EvaluateRule(rule, more) = Tested(rule, more)
    BY <1>2, TargetsStand DEF EvaluateRule
  <2>2. Settled(rule.condition, known)
    BY <2>1 DEF Tested, Settled, Outcome
  <2>3. Condition(rule.condition, more) = Condition(rule.condition, known)
    BY <2>2, ConditionsStand
  <2>4. Triggered(rule, known) = {} /\ Triggered(rule, more) = {}
    BY DEF Triggered
  <2>5. QED
    BY <2>1, <2>3, <2>4 DEF Tested
<1>3. CASE rule.executable /\ ~Vacuous(rule.condition) /\ Mismatches(rule, known) # {}
  <2> DEFINE i == Min(Mismatches(rule, known))
  <2>1. Dimension(rule.scope[i], known) # "missing"
    BY <1>3 DEF EvaluateRule, Outcome
  <2>2. i \in Mismatches(rule, known)
    <3>1. \E n \in Mismatches(rule, known) : \A m \in Mismatches(rule, known) : n <= m
      BY <1>3, LeastNumber DEF Mismatches
    <3>2. QED
      BY <3>1 DEF Min
  <2>3. Dimension(rule.scope[i], known) = "mismatch"
    BY <2>1, <2>2 DEF Mismatches, Dimension
  <2>4. /\ Mismatches(rule, more) # {}
        /\ Min(Mismatches(rule, more)) = i
        /\ Dimension(rule.scope[i], more) = "mismatch"
    BY <1>3, <2>3, TargetsStand
  <2>5. QED
    BY <1>3, <2>3, <2>4 DEF EvaluateRule
<1>4. QED
  BY <1>1, <1>2, <1>3

\* A verdict depends on what each rule comes to.
LEMMA VerdictOfRules ==
  ASSUME NEW known, NEW more,
         \A r \in package.rules : r.current => EvaluateRule(r, more) = EvaluateRule(r, known)
  PROVE  \A x \in DOMAIN Evaluate(known) \ {"breaches"} : Evaluate(more)[x] = Evaluate(known)[x]
<1> DEFINE rules == {r \in package.rules : r.current}
           result(k) == [r \in rules |-> EvaluateRule(r, k)]
           satisfied(k) == {r \in rules : result(k)[r].status = "SATISFIED"}
           undecided(k) == {r \in rules : result(k)[r].status = "INDETERMINATE"}
           acting(k) == Contributing(satisfied(k), rules)
<1>1. result(more) = result(known)
  OBVIOUS
<1>2. \A k : Evaluate(k) =
        [overall |-> CASE undecided(k) # {} -> "INDETERMINATE"
                       [] undecided(k) = {} /\ satisfied(k) # {} -> "SATISFIED"
                       [] undecided(k) = {} /\ rules = {} -> "NOT_APPLICABLE"
                       [] OTHER -> "NOT_SATISFIED",
         outcome |-> {r.action : r \in Winner(satisfied(k), rules)},
         satisfied |-> satisfied(k),
         overridden |-> Overridden(satisfied(k), rules),
         missing |-> UNION {result(k)[r].missing : r \in undecided(k)},
         required |-> {r.action : r \in {s \in acting(k) : s.effect \in AllowLike}},
         denied |-> {r.action : r \in {s \in acting(k) : s.effect = "deny"}},
         breaches |-> {l \in package.limits : Breached(l, satisfied(k), rules, k)}]
  BY DEF Evaluate
<1> HIDE DEF result
<1>3. satisfied(more) = satisfied(known) /\ undecided(more) = undecided(known)
  BY <1>1
<1>4. acting(more) = acting(known)
  BY <1>3
<1>5. UNION {result(more)[r].missing : r \in undecided(more)} = UNION {result(known)[r].missing : r \in undecided(known)}
  BY <1>1, <1>3
<1> HIDE DEF satisfied, undecided, rules, acting
<1>6. Evaluate(more).overall = Evaluate(known).overall
  BY <1>2, <1>3
<1>7. DOMAIN Evaluate(known) = {"overall", "outcome", "satisfied", "overridden", "missing",
                                "required", "denied", "breaches"}
  BY <1>2
<1>8. /\ Evaluate(more).outcome = Evaluate(known).outcome
      /\ Evaluate(more).satisfied = Evaluate(known).satisfied
      /\ Evaluate(more).overridden = Evaluate(known).overridden
      /\ Evaluate(more).missing = Evaluate(known).missing
      /\ Evaluate(more).required = Evaluate(known).required
      /\ Evaluate(more).denied = Evaluate(known).denied
  BY <1>2, <1>3, <1>4, <1>5
<1>9. QED
  BY <1>6, <1>7, <1>8

\* A verdict reached with some facts missing stands whatever they are.
THEOREM MissingFactsChangeNoVerdict == Spec => VerdictsStand
<1>1. ASSUME Inv, AsksForValuesOnly, \A r \in package.rules : r.exceptions = {},
             response.overall # "INDETERMINATE", [Next]_vars
      PROVE  \A x \in DOMAIN response \ {"breaches"} : response'[x] = response[x]
  <2>1. CASE UNCHANGED vars
    BY <2>1 DEF vars
  <2>2. ASSUME NEW f \in Facts, NEW v \in Values, Learn(f, v)
        PROVE  \A x \in DOMAIN response \ {"breaches"} : response'[x] = response[x]
    <3>1. Extends(facts, facts') /\ response' = Evaluate(facts')
      BY <2>2 DEF Learn, Known, Extends
    <3>2. response = Evaluate(facts)
      BY <1>1 DEF Inv
    <3>3. ASSUME NEW r \in package.rules, r.current
          PROVE  EvaluateRule(r, facts).status # "INDETERMINATE"
      <4> DEFINE rules == {q \in package.rules : q.current}
                 result == [q \in rules |-> EvaluateRule(q, facts)]
                 undecided == {q \in rules : result[q].status = "INDETERMINATE"}
      <4>1. undecided # {} => Evaluate(facts).overall = "INDETERMINATE"
        BY DEF Evaluate
      <4>2. undecided = {}
        BY <1>1, <3>2, <4>1
      <4>3. QED
        BY <3>3, <4>2
    <3>4. ASSUME NEW r \in package.rules
          PROVE  /\ DOMAIN r.scope \subseteq Nat /\ r.condition \in Conditions /\ r.exceptions = {}
                 /\ \A l \in LeavesOf[r.condition] : l.kind = "fact" => l.op # "exists"
      BY <1>1, PackagesHoldARuleOnce DEF Inv, AsksForValuesOnly
    <3>5. \A r \in package.rules : r.current => EvaluateRule(r, facts') = EvaluateRule(r, facts)
      BY <3>1, <3>3, <3>4, RulesStand
    <3>6. QED
      BY <3>1, <3>2, <3>5, VerdictOfRules
  <2>3. QED
    BY <1>1, <2>1, <2>2 DEF Next
<1>2. Inv /\ [Next]_vars =>
        [(/\ AsksForValuesOnly
          /\ \A r \in package.rules : r.exceptions = {}
          /\ response.overall # "INDETERMINATE")
         => \A x \in DOMAIN response \ {"breaches"} : response'[x] = response[x]]_vars
  BY <1>1
<1>3. QED
  BY <1>2, ResponsesAreCurrent, PTL DEF Spec, VerdictsStand
=============================================================================
