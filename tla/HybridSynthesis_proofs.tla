------------------------ MODULE HybridSynthesis_proofs ------------------------
(***************************************************************************)
(* Safety of the hybrid method, for every design space, specification and  *)
(* task: the solver's scopes, shared by all the families, keep a clause as *)
(* long as an assignment it was drawn from may be picked again, and never  *)
(* one that hides a better result.                                         *)
(***************************************************************************)
EXTENDS HybridSynthesis, Analysis_proofs

(* One of the first k scopes of s has a clause that excludes a.            *)
Excludes(s, k, a) == \E i \in 1..k : \E G \in s[i] : a \in Members(G)

(* The number of scopes that survive until pending family p is served.     *)
Kept(t, p) == IF t.exploration_order_dfs THEN p.refinement_depth ELSE 1

(* What the phase of the search says of the current family.                *)
PhaseInv ==
  /\ status \in {"ar", "exhausted"} => family = None
  /\ status = "cegis" => family # None
  /\ status = "stopped" \/ family = None => assignment = None

(* Depth first, the families further down the worklist are not deeper than *)
(* the current one, so the scopes it pops are none of theirs.              *)
DepthInv ==
  /\ Len(scopes) >= 1
  /\ ~ task.exploration_order_dfs => Len(scopes) = 1
  /\ task.exploration_order_dfs =>
       /\ \A i \in DOMAIN families : families[i].refinement_depth <= Len(scopes)
       /\ \A i, j \in DOMAIN families :
            i < j => families[i].refinement_depth <= families[j].refinement_depth
       /\ family # None =>
            \A i \in DOMAIN families : families[i].refinement_depth <= family.refinement_depth
  /\ \A i \in DOMAIN families : families[i].refinement_depth = 0 =>
       Len(families) = 1 /\ Len(scopes) = 1 /\ family = None /\ analyzed = {}

(* Every family is investigated for constraints that decide the            *)
(* specification, and so are the subfamilies it is split into; what was    *)
(* dropped on the way is infeasible.                                       *)
IndicesInv ==
  /\ \A i \in DOMAIN families :
       Investigated(task, families[i].family, families[i].property_indices)
  /\ family # None =>
       /\ Investigated(task, family.family, family.property_indices)
       /\ Investigated(task, family.family, UndecidedConstraints(results))

DisjointInv ==
  /\ Disjoint(families)
  /\ family # None => Members(family.family) \cap Pool(families) = {}

(* An analysed assignment of a family is excluded by a clause that is      *)
(* there when the family is served.                                        *)
AnalyzedInv ==
  /\ assignment # None =>
       assignment \in Members(family.family) /\ ~ Excludes(scopes, Len(scopes), assignment)
  /\ status # "stopped" =>
       /\ \A i \in DOMAIN families : \A a \in analyzed \cap Members(families[i].family) :
            Excludes(scopes, Kept(task, families[i]), a)
       /\ family # None =>
            \A a \in analyzed \cap Members(family.family) : Excludes(scopes, Len(scopes), a)

(* The assignments that are still to be considered.                        *)
Open(a) == a \in Pool(families) \/ (family # None /\ a \in Members(family.family))

(* No assignment that is not considered any more satisfies the             *)
(* specification clearly and is better than the result by more than the    *)
(* tolerance.                                                              *)
LossInv ==
  status # "failed" =>
    \A a \in Assignment :
      ImprovesBeyond(task, ClearlySat(task), a, satisfying_assignment, Tolerance(task)) =>
        Open(a) /\ ~ Excludes(scopes, Len(scopes), a)

(* The conflicts tell apart what the specification does.                   *)
ExactSearch == ConflictsExact(task)

IInv ==
  /\ TypeOK
  /\ PhaseInv
  /\ DepthInv
  /\ IndicesInv
  /\ OptimumOf(task, optimum, satisfying_assignment)
  /\ DisjointInv
  /\ AnalyzedInv
  /\ ConflictsSound(task) => LossInv

-----------------------------------------------------------------------------
(***************************************************************************)
(* Scopes.                                                                 *)
(***************************************************************************)

(* new keeps the first d scopes of old, and has clauses of old only.       *)
Rescoped(old, d, new) ==
  /\ \A i \in 1..d : new[i] = old[i]
  /\ \A i \in 1..Len(new) : new[i] = {} \/ (i \in 1..Len(old) /\ new[i] = old[i])

LEMMA RescopedExcludes ==
  ASSUME NEW old, NEW d \in Nat, NEW new, Rescoped(old, d, new), NEW a
  PROVE  /\ \A k \in 0..d : Excludes(old, k, a) <=> Excludes(new, k, a)
         /\ d <= Len(new) /\ Len(new) \in Nat =>
              (Excludes(old, d, a) => Excludes(new, Len(new), a))
         /\ Excludes(new, Len(new), a) => Excludes(old, Len(old), a)
<1>1. ASSUME NEW k \in 0..d
      PROVE  Excludes(old, k, a) <=> Excludes(new, k, a)
  BY DEF Rescoped, Excludes
<1>2. ASSUME d <= Len(new), Len(new) \in Nat, Excludes(old, d, a)
      PROVE  Excludes(new, Len(new), a)
  BY <1>2 DEF Rescoped, Excludes
<1>3. ASSUME Excludes(new, Len(new), a)
      PROVE  Excludes(old, Len(old), a)
  BY <1>3 DEF Rescoped, Excludes
<1> QED
  BY <1>1, <1>2, <1>3

(* sat_level serves a family of depth d.                                   *)
LEMMA SatLevelProperties ==
  ASSUME scopes \in Seq(SUBSET Family), Len(scopes) >= 1,
         NEW d \in Nat, d <= Len(scopes), d = 0 => Len(scopes) = 1,
         NEW new, new = SatLevel(d)
  PROVE  /\ new \in Seq(SUBSET Family)
         /\ Len(new) = d + 1
         /\ Rescoped(scopes, d, new)
<1>1. PICK n \in Nat : n = Len(scopes)
  BY LenProperties
<1>2. CASE d = 0
  <2>1. new = scopes
    BY <1>2 DEF SatLevel
  <2> QED
    BY <1>1, <1>2, <2>1 DEF Rescoped
<1>3. CASE d # 0
  <2>1. PICK kept : kept = SubSeq(scopes, 1, d)
    OBVIOUS
  <2>2. new = Append(kept, {})
    <3>1. (IF d < Len(scopes) THEN d ELSE Len(scopes)) = d
      BY <1>1
    <3> QED
      BY <1>3, <2>1, <3>1 DEF SatLevel
  <2>3. /\ kept \in Seq(SUBSET Family)
        /\ Len(kept) = d
        /\ \A i \in 1..d : kept[i] = scopes[i]
    <3>1. \A i \in 1..d : scopes[i] \in SUBSET Family
      BY <1>1, ElementOfSeq
    <3>2. /\ SubSeq(scopes, 1, d) \in Seq(SUBSET Family)
          /\ Len(SubSeq(scopes, 1, d)) = IF 1 <= d THEN d - 1 + 1 ELSE 0
          /\ \A i \in 1..(d - 1 + 1) : SubSeq(scopes, 1, d)[i] = scopes[1 + i - 1]
      BY <3>1, SubSeqProperties
    <3> QED
      BY <1>3, <2>1, <3>2
  <2>4. /\ new \in Seq(SUBSET Family)
        /\ Len(new) = d + 1
        /\ \A i \in 1..d : new[i] = kept[i]
        /\ new[d + 1] = {}
    BY <2>2, <2>3, AppendProperties
  <2>5. \A i \in 1..(d + 1) : i = d + 1 \/ i \in 1..d
    OBVIOUS
  <2>6. \A i \in 1..d : i \in 1..n
    BY <1>1
  <2> QED
    BY <1>1, <2>3, <2>4, <2>5, <2>6 DEF Rescoped
<1> QED
  BY <1>2, <1>3

(* Clauses are added to the last scope.                                    *)
LEMMA ExcludeProperties ==
  ASSUME scopes \in Seq(SUBSET Family), Len(scopes) >= 1,
         NEW E \in SUBSET Family, Exclude(E), NEW new, new = scopes'
  PROVE  /\ new \in Seq(SUBSET Family)
         /\ Len(new) = Len(scopes)
         /\ \A a : \A k \in 0..Len(scopes) : Excludes(scopes, k, a) => Excludes(new, k, a)
         /\ \A a : Excludes(new, Len(new), a) <=>
              Excludes(scopes, Len(scopes), a) \/ \E G \in E : a \in Members(G)
<1>1. PICK n \in Nat : n = Len(scopes) /\ DOMAIN scopes = 1..n /\ n >= 1
  BY LenProperties
<1>2. n \in 1..n /\ \A i \in 1..n : scopes[i] \in SUBSET Family
  BY <1>1, ElementOfSeq
<1>3. /\ new \in [1..n -> SUBSET Family]
      /\ \A i \in 1..n : new[i] = IF i = n THEN scopes[n] \cup E ELSE scopes[i]
  <2>1. new = [scopes EXCEPT ![n] = @ \cup E]
    BY <1>1 DEF Exclude
  <2>2. scopes \in [1..n -> SUBSET Family]
    BY <1>1, LenProperties
  <2> QED
    BY <1>1, <1>2, <2>1, <2>2
<1>4. new \in Seq(SUBSET Family) /\ Len(new) = n
  BY <1>3, FunctionIsSeq
<1>5. ASSUME NEW a
      PROVE  Excludes(new, n, a) <=> Excludes(scopes, n, a) \/ \E G \in E : a \in Members(G)
  BY <1>2, <1>3 DEF Excludes
<1>6. ASSUME NEW a, NEW k \in 0..n, Excludes(scopes, k, a)
      PROVE  Excludes(new, k, a)
  BY <1>1, <1>3, <1>6 DEF Excludes
<1> QED
  BY <1>1, <1>4, <1>5, <1>6

-----------------------------------------------------------------------------
(***************************************************************************)
(* The worklist.                                                           *)
(***************************************************************************)

LEMMA PopProperties ==
  ASSUME IInv, families # << >>
  PROVE  /\ Popped \in Pending
         /\ Remaining \in Seq(Pending)
         /\ \E k \in DOMAIN families : Popped = families[k]
         /\ \A i \in DOMAIN Remaining : \E j \in DOMAIN families : Remaining[i] = families[j]
         /\ Pool(families) = Members(Popped.family) \cup Pool(Remaining)
         /\ Members(Popped.family) \cap Pool(Remaining) = {}
         /\ Disjoint(Remaining)
         /\ \A i \in DOMAIN Remaining : Remaining[i].refinement_depth # 0
         /\ task.exploration_order_dfs =>
              /\ \A i \in DOMAIN Remaining :
                   Remaining[i].refinement_depth <= Popped.refinement_depth
              /\ \A i, j \in DOMAIN Remaining :
                   i < j => Remaining[i].refinement_depth <= Remaining[j].refinement_depth
<1>1. families \in Seq(Pending) /\ task.exploration_order_dfs \in BOOLEAN
  BY TaskType DEF IInv, TypeOK
<1>2. PICK k, rest : k = PopIndex /\ rest = Remaining
  OBVIOUS
<1>3. \/ /\ k = Len(families) /\ rest = SubSeq(families, 1, Len(families) - 1)
      \/ /\ k = 1 /\ rest = Tail(families)
         /\ ~ task.exploration_order_dfs
  BY <1>1, <1>2 DEF PopIndex, Remaining
<1>4. /\ k \in DOMAIN families
      /\ families[k] \in Pending
      /\ rest \in Seq(Pending)
      /\ Len(rest) = Len(families) - 1
      /\ WithoutIndex(families, k, rest)
  BY <1>1, <1>3, PopFromWorklist
<1>5. \A i \in DOMAIN rest : \E j \in DOMAIN families \ {k} : rest[i] = families[j]
  BY <1>4, WithoutIndexEntries
<1>6. /\ Pool(families) = Members(families[k].family) \cup Pool(rest)
      /\ Disjoint(rest)
      /\ Members(families[k].family) \cap Pool(rest) = {}
  BY <1>4, PoolOfRest DEF IInv, DisjointInv
<1>7. PICK n \in Nat : n = Len(families) /\ DOMAIN families = 1..n
  BY <1>1, LenProperties
<1>8. ASSUME NEW i \in DOMAIN rest
      PROVE  rest[i].refinement_depth # 0
  <2>1. n # 1
    <3>1. PICK j \in DOMAIN families \ {k} : TRUE
      BY <1>5
    <3> QED
      BY <1>4, <1>7, <3>1
  <2> QED
    BY <1>5, <1>7, <2>1 DEF IInv, DepthInv
<1>9. ASSUME task.exploration_order_dfs
      PROVE  /\ \A i \in DOMAIN rest :
                  rest[i].refinement_depth <= families[k].refinement_depth
             /\ \A i, j \in DOMAIN rest :
                  i < j => rest[i].refinement_depth <= rest[j].refinement_depth
  <2>1. k = n /\ rest = SubSeq(families, 1, n - 1)
    BY <1>2, <1>7, <1>9 DEF PopIndex, Remaining
  <2>2. DOMAIN rest = 1..(n - 1)
    BY <1>4, <1>7, LenProperties
  <2>3. ASSUME NEW i \in 1..(n - 1)
        PROVE  rest[i] = families[i] /\ i \in DOMAIN families /\ i < n
    <3>1. \A j \in 1..(n - 1) : families[j] \in Pending
      BY <1>1, <1>7, ElementOfSeq
    <3>2. \A j \in 1..(n - 1 - 1 + 1) : SubSeq(families, 1, n - 1)[j] = families[1 + j - 1]
      BY <3>1, SubSeqProperties
    <3> QED
      BY <1>7, <2>1, <3>2
  <2>4. \A i, j \in DOMAIN families :
          i < j => families[i].refinement_depth <= families[j].refinement_depth
    BY <1>9 DEF IInv, DepthInv
  <2> QED
    BY <1>4, <2>1, <2>2, <2>3, <2>4
<1> QED
  BY <1>2, <1>4, <1>5, <1>6, <1>8, <1>9 DEF Popped

(* The scopes with which the popped family is served.                      *)
LEMMA ServeProperties ==
  ASSUME IInv, families # << >>,
         NEW new,
         new = IF task.exploration_order_dfs THEN SatLevel(Popped.refinement_depth) ELSE scopes
  PROVE  /\ new \in Seq(SUBSET Family)
         /\ Len(new) = 1 + IF task.exploration_order_dfs THEN Popped.refinement_depth ELSE 0
         /\ Len(new) \in Nat /\ Len(new) >= 1
         /\ Kept(task, Popped) \in Nat
         /\ Kept(task, Popped) <= Len(new)
         /\ Rescoped(scopes, Kept(task, Popped), new)
         /\ \A i \in DOMAIN Remaining : Kept(task, Remaining[i]) \in 0..Kept(task, Popped)
<1>1. /\ task.exploration_order_dfs \in BOOLEAN
      /\ scopes \in Seq(SUBSET Family) /\ Len(scopes) >= 1 /\ Len(scopes) \in Nat
  BY TaskType, LenProperties DEF IInv, TypeOK, DepthInv
<1>2. PICK d \in Nat : d = Popped.refinement_depth
  BY PopProperties DEF Pending
<1>3. \A i \in DOMAIN Remaining : Remaining[i].refinement_depth \in Nat
  <2>1. PICK rest \in Seq(Pending) : rest = Remaining
    BY PopProperties
  <2>2. \A i \in DOMAIN rest : rest[i] \in Pending
    BY ElementOfSeq, LenProperties
  <2> QED
    BY <2>1, <2>2 DEF Pending
<1>4. CASE task.exploration_order_dfs
  <2>1. d <= Len(scopes) /\ (d = 0 => Len(scopes) = 1)
    BY <1>2, <1>4, PopProperties DEF IInv, DepthInv
  <2>2. new = SatLevel(d)
    BY <1>2, <1>4
  <2>3. /\ new \in Seq(SUBSET Family)
        /\ Len(new) = d + 1
        /\ Rescoped(scopes, d, new)
    BY <1>1, <2>1, <2>2, SatLevelProperties
  <2>4. Kept(task, Popped) = d
    BY <1>2, <1>4 DEF Kept
  <2>5. \A i \in DOMAIN Remaining : Kept(task, Remaining[i]) \in 0..d
    BY <1>2, <1>3, <1>4, PopProperties DEF Kept
  <2> QED
    BY <1>2, <1>4, <2>3, <2>4, <2>5
<1>5. CASE ~ task.exploration_order_dfs
  <2>1. new = scopes /\ Len(scopes) = 1
    BY <1>5 DEF IInv, DepthInv
  <2>2. /\ Kept(task, Popped) = 1
        /\ \A i \in DOMAIN Remaining : Kept(task, Remaining[i]) = 1
    BY <1>5 DEF Kept
  <2>3. Rescoped(scopes, 1, new)
    BY <2>1 DEF Rescoped
  <2>4. Len(new) = 1 + IF task.exploration_order_dfs THEN Popped.refinement_depth ELSE 0
    BY <1>5, <2>1
  <2> QED
    BY <1>1, <2>1, <2>2, <2>3, <2>4
<1> QED
  BY <1>1, <1>4, <1>5

-----------------------------------------------------------------------------
(***************************************************************************)
(* The result.                                                             *)
(***************************************************************************)

(* The result after a was adopted.                                         *)
LEMMA AdoptProperties ==
  ASSUME IInv, task' = task, NEW a \in Assignment, Adopt(a),
         task.objective # "none" => ImprovesOptimum(task, task.val[a], optimum)
  PROVE  /\ satisfying_assignment' = a /\ a # None
         /\ optimum' \in Nat \cup {None}
         /\ OptimumOf(task, optimum, satisfying_assignment)'
         /\ task.objective # "none" => ~ ImprovesOptimum(task, task.val[a], optimum')
         /\ \A b \in Assignment, margin \in Nat :
              ImprovesBeyond(task, ClearlySat(task), b, satisfying_assignment', margin) =>
                ImprovesBeyond(task, ClearlySat(task), b, satisfying_assignment, margin)
<1>1. task \in Task /\ a # None /\ task.val[a] \in Nat
  BY TaskType, NoneIsNoAssignment DEF IInv, TypeOK
<1>2. satisfying_assignment' = a /\ optimum' = UpdatedOptimum(task, a, optimum)
  BY <1>1 DEF Adopt
<1>3. PICK new : new = optimum'
  OBVIOUS
<1>4. /\ OptimumOf(task, new, a)
      /\ task.objective # "none" => ~ ImprovesOptimum(task, task.val[a], new)
      /\ \A b \in Assignment, margin \in Nat :
           ImprovesBeyond(task, ClearlySat(task), b, a, margin) =>
             ImprovesBeyond(task, ClearlySat(task), b, satisfying_assignment, margin)
  BY <1>1, <1>2, <1>3, AdoptedResult DEF IInv
<1>5. OptimumOf(task, optimum, satisfying_assignment)'
  BY <1>2, <1>3, <1>4 DEF OptimumOf
<1> QED
  BY <1>1, <1>2, <1>3, <1>4, <1>5 DEF OptimumOf

(* The result after an assignment, or None, was adopted.                   *)
LEMMA AdoptSound ==
  ASSUME IInv, task' = task, NEW a \in Assignment \cup {None}, Adopt(a),
         a # None /\ task.objective # "none" => ImprovesOptimum(task, task.val[a], optimum)
  PROVE  /\ satisfying_assignment' = IF a = None THEN satisfying_assignment ELSE a
         /\ satisfying_assignment' \in Assignment \cup {None}
         /\ optimum' \in Nat \cup {None}
         /\ OptimumOf(task, optimum, satisfying_assignment)'
         /\ \A b \in Assignment, margin \in Nat :
              ImprovesBeyond(task, ClearlySat(task), b, satisfying_assignment', margin) =>
                ImprovesBeyond(task, ClearlySat(task), b, satisfying_assignment, margin)
<1>1. CASE a = None
  <2>1. UNCHANGED <<satisfying_assignment, optimum>>
    BY <1>1 DEF Adopt
  <2> QED
    BY <1>1, <2>1 DEF IInv, TypeOK, OptimumOf
<1>2. CASE a # None
  BY <1>2, AdoptProperties
<1> QED
  BY <1>1, <1>2

(* What the search gets from the analysis of the popped family.            *)
LEMMA AnalysisOfPopped ==
  ASSUME IInv, families # << >>,
         NEW f \in Feasibilities(task, Popped.family, Popped.property_indices),
         NEW checked, checked = CheckHyperConstraints(Popped.property_indices, f),
         NEW outcome \in Outcomes(task, Popped.family, checked, optimum)
  PROVE  /\ Popped.family \in Family
         /\ Investigated(task, Popped.family, Popped.property_indices)
         /\ SoundOutcome(task, Popped.family, optimum, satisfying_assignment, outcome)
         /\ outcome.can_improve =>
              Investigated(task, Popped.family, UndecidedConstraints(checked))
<1>1. Popped.family \in Family /\ Popped.property_indices \in SUBSET Constraint
  BY PopProperties DEF Pending
<1>2. Investigated(task, Popped.family, Popped.property_indices)
  BY PopProperties DEF IInv, IndicesInv
<1>3. task \in Task /\ OptimumOf(task, optimum, satisfying_assignment)
  BY DEF IInv, TypeOK
<1>4. /\ SoundOutcome(task, Popped.family, optimum, satisfying_assignment, outcome)
      /\ outcome.can_improve => OverallFeasibility(checked) # "False"
  BY <1>1, <1>2, <1>3, OutcomeSound DEF Investigated
<1>5. outcome.can_improve => Investigated(task, Popped.family, UndecidedConstraints(checked))
  BY <1>1, <1>2, <1>3, <1>4, UndecidedInvestigated
<1> QED
  BY <1>1, <1>2, <1>4, <1>5

-----------------------------------------------------------------------------
(***************************************************************************)
(* The invariant is inductive.                                             *)
(***************************************************************************)

(* With an improvement beyond the margin there is an improvement.          *)
LEMMA BeyondIsImprovement ==
  ASSUME NEW t \in Task, NEW result \in Assignment \cup {None}, NEW a \in Assignment,
         ImprovesBeyond(t, ClearlySat(t), a, result, Tolerance(t))
  PROVE  ImprovesResult(t, a, result)
<1>1. /\ Tolerance(t) \in Nat /\ Precision(t) \in Nat /\ Precision(t) <= Tolerance(t)
      /\ t.val[a] \in Nat
      /\ result # None => t.val[result] \in Nat
  BY ToleranceType, TaskType
<1>2. ImprovesBeyond(t, t.sat, a, result, Precision(t))
  BY <1>1, BetterAntitone, ClearlySatProperties DEF ImprovesBeyond
<1> QED
  BY <1>2, ImprovesBeyondPrecision

LEMMA InitInv == Init => IInv
<1> SUFFICES ASSUME Init
             PROVE  IInv
  OBVIOUS
<1>1. task \in Task
  BY TasksAssumption DEF Init
<1>2. /\ Options \in Family
      /\ Investigated(task, Options, Constraint)
      /\ Members(Options) = Assignment
  BY RootSuffices
<1>3. PICK root : root = [family |-> Options, property_indices |-> Constraint,
                          refinement_depth |-> 0]
  OBVIOUS
<1>4. /\ root \in Pending /\ root.family = Options
      /\ root.property_indices = Constraint /\ root.refinement_depth = 0
  BY <1>2, <1>3 DEF Pending
<1>5. families = << root >> /\ families \in Seq(Pending) /\ Len(families) = 1
  BY <1>3, <1>4 DEF Init
<1>6. DOMAIN families = {1} /\ families[1] = root
  BY <1>5
<1>7. /\ scopes = << {} >> /\ scopes \in Seq(SUBSET Family) /\ Len(scopes) = 1
      /\ scopes[1] = {}
  BY DEF Init
<1>8. Unchecked \in [Constraint -> Result]
  BY DEF Unchecked, Result
<1>9. TypeOK
  BY <1>1, <1>5, <1>7, <1>8 DEF Init, TypeOK
<1>10. DepthInv
  BY <1>4, <1>5, <1>6, <1>7 DEF Init, DepthInv
<1>11. IndicesInv
  BY <1>2, <1>4, <1>6 DEF Init, IndicesInv
<1>12. DisjointInv
  BY <1>6 DEF Init, DisjointInv, Disjoint
<1>13. AnalyzedInv
  BY DEF Init, AnalyzedInv
<1>14. LossInv
  <2>1. Pool(families) = Assignment
    BY <1>2, <1>4, <1>6 DEF Pool
  <2>2. \A a : ~ Excludes(scopes, Len(scopes), a)
    BY <1>7 DEF Excludes
  <2> QED
    BY <2>1, <2>2 DEF LossInv, Open
<1> QED
  BY <1>9, <1>10, <1>11, <1>12, <1>13, <1>14 DEF Init, IInv, PhaseInv, OptimumOf

LEMMA AnalyzeFamilyInv ==
  ASSUME IInv, AnalyzeFamily
  PROVE  IInv'
<1>1. /\ status = "ar" /\ families # << >> /\ families' = Remaining
      /\ UNCHANGED <<task, assignment, analyzed>>
      /\ family = None /\ assignment = None
      /\ task \in Task
  BY DEF AnalyzeFamily, IInv, PhaseInv, TypeOK
<1>2. PICK f, checked :
        /\ f \in Feasibilities(task, Popped.family, Popped.property_indices)
        /\ checked = CheckHyperConstraints(Popped.property_indices, f)
        /\ \E outcome \in Outcomes(task, Popped.family, checked, optimum) :
             /\ Adopt(outcome.assignment)
             /\ Stop(outcome) \/ Decide(outcome) \/ StartCegis(outcome, checked)
  BY DEF AnalyzeFamily
<1>3. PICK outcome \in Outcomes(task, Popped.family, checked, optimum) :
        /\ Adopt(outcome.assignment)
        /\ Stop(outcome) \/ Decide(outcome) \/ StartCegis(outcome, checked)
  BY <1>2
<1>4. /\ Popped.family \in Family
      /\ Investigated(task, Popped.family, Popped.property_indices)
      /\ SoundOutcome(task, Popped.family, optimum, satisfying_assignment, outcome)
      /\ outcome.can_improve =>
           Investigated(task, Popped.family, UndecidedConstraints(checked))
  BY <1>1, <1>2, <1>3, AnalysisOfPopped
<1>5. PICK new : new = scopes'
  OBVIOUS
<1>6. new = IF task.exploration_order_dfs THEN SatLevel(Popped.refinement_depth) ELSE scopes
  BY <1>5 DEF AnalyzeFamily
<1>7. /\ new \in Seq(SUBSET Family)
      /\ Len(new) = 1 + IF task.exploration_order_dfs THEN Popped.refinement_depth ELSE 0
      /\ Len(new) \in Nat /\ Len(new) >= 1
      /\ Kept(task, Popped) \in Nat
      /\ Kept(task, Popped) <= Len(new)
      /\ Rescoped(scopes, Kept(task, Popped), new)
      /\ \A i \in DOMAIN Remaining : Kept(task, Remaining[i]) \in 0..Kept(task, Popped)
  BY <1>1, <1>6, ServeProperties
<1>8. PICK best : best = satisfying_assignment'
  OBVIOUS
<1>9. /\ best = IF outcome.assignment = None THEN satisfying_assignment ELSE outcome.assignment
      /\ best \in Assignment \cup {None}
      /\ optimum' \in Nat \cup {None}
      /\ OptimumOf(task, optimum, satisfying_assignment)'
      /\ \A b \in Assignment, margin \in Nat :
           ImprovesBeyond(task, ClearlySat(task), b, best, margin) =>
             ImprovesBeyond(task, ClearlySat(task), b, satisfying_assignment, margin)
  BY <1>1, <1>3, <1>4, <1>8, AdoptSound DEF SoundOutcome
<1>10. /\ results' \in [Constraint -> Result]
       /\ explored' \in Nat
       /\ status' \in {"ar", "cegis", "stopped"}
       /\ family' = None \/ family' = Popped
       /\ family' = None <=> status' # "cegis"
       /\ family' # None => outcome.can_improve /\ results' = checked
       /\ status' = "stopped" => best # None /\ task.objective = "none"
       /\ status' = "ar" => ~ outcome.can_improve
  <2>0. Popped # None
    BY <1>1, PopProperties, NoneAssumption
  <2>1. CASE Stop(outcome)
    BY <1>1, <1>9, <2>1, TaskType DEF Stop, IInv, TypeOK
  <2>2. CASE Decide(outcome)
    <3>1. explored' \in Nat
      BY <1>4, <2>2, FiniteMembers DEF Decide, IInv, TypeOK
    <3> QED
      BY <1>1, <2>2, <3>1 DEF Decide, IInv, TypeOK
  <2>3. CASE StartCegis(outcome, checked)
    <3>1. checked \in [Constraint -> Result]
      BY <1>2 DEF CheckHyperConstraints, Evaluated, Feasibilities, Result
    <3> QED
      BY <1>1, <2>0, <2>3, <3>1 DEF StartCegis, IInv, TypeOK
  <2> QED
    BY <1>3, <2>1, <2>2, <2>3
<1>11. TypeOK'
  <2>1. /\ families' \in Seq(Pending)
        /\ family' \in Pending \cup {None}
    BY <1>1, <1>10, PopProperties
  <2>2. family' # None =>
          Len(scopes') = 1 + IF task'.exploration_order_dfs THEN family'.refinement_depth ELSE 0
    BY <1>1, <1>5, <1>7, <1>10
  <2>3. /\ scopes' \in Seq(SUBSET Family)
        /\ assignment' \in Assignment \cup {None}
        /\ analyzed' \subseteq Assignment
        /\ task' \in Task
    BY <1>1, <1>5, <1>7 DEF IInv, TypeOK
  <2>4. satisfying_assignment' \in Assignment \cup {None} /\ optimum' \in Nat \cup {None}
    BY <1>8, <1>9
  <2> QED
    BY <1>10, <2>1, <2>2, <2>3, <2>4 DEF TypeOK
<1>12. PhaseInv'
  BY <1>1, <1>10 DEF PhaseInv
<1>13. DepthInv'
  <2>1. /\ Len(scopes') >= 1
        /\ ~ task'.exploration_order_dfs => Len(scopes') = 1
    BY <1>1, <1>5, <1>7
  <2>2. \A i \in DOMAIN families' : families'[i].refinement_depth # 0
    BY <1>1, PopProperties
  <2>3. ASSUME task.exploration_order_dfs
        PROVE  /\ \A i \in DOMAIN families' : families'[i].refinement_depth <= Len(scopes')
               /\ \A i, j \in DOMAIN families' :
                    i < j => families'[i].refinement_depth <= families'[j].refinement_depth
               /\ family' # None =>
                    \A i \in DOMAIN families' :
                      families'[i].refinement_depth <= family'.refinement_depth
    <3>1. /\ \A i \in DOMAIN Remaining :
               Remaining[i].refinement_depth <= Popped.refinement_depth
          /\ \A i, j \in DOMAIN Remaining :
               i < j => Remaining[i].refinement_depth <= Remaining[j].refinement_depth
      BY <1>1, <2>3, PopProperties
    <3>2. ASSUME NEW i \in DOMAIN Remaining
          PROVE  Remaining[i].refinement_depth <= Len(new)
      BY <1>7, <2>3 DEF Kept
    <3> QED
      BY <1>1, <1>5, <1>10, <3>1, <3>2
  <2> QED
    BY <1>1, <2>1, <2>2, <2>3 DEF DepthInv
<1>14. IndicesInv'
  <2>1. \A i \in DOMAIN Remaining :
          Investigated(task, Remaining[i].family, Remaining[i].property_indices)
    BY <1>1, PopProperties DEF IInv, IndicesInv
  <2>2. family' # None =>
          /\ Investigated(task, family'.family, family'.property_indices)
          /\ Investigated(task, family'.family, UndecidedConstraints(results'))
    BY <1>4, <1>10
  <2> QED
    BY <1>1, <2>1, <2>2 DEF IndicesInv
<1>15. DisjointInv'
  BY <1>1, <1>10, PopProperties DEF DisjointInv
<1>16. AnalyzedInv'
  <2>1. ASSUME NEW a \in analyzed, NEW p, NEW i \in DOMAIN families, p = families[i],
               a \in Members(p.family)
        PROVE  Excludes(scopes, Kept(task, p), a)
    BY <1>1, <2>1 DEF IInv, AnalyzedInv
  <2>2. ASSUME NEW i \in DOMAIN Remaining, NEW a \in analyzed \cap Members(Remaining[i].family)
        PROVE  Excludes(new, Kept(task, Remaining[i]), a)
    <3>1. Excludes(scopes, Kept(task, Remaining[i]), a)
      BY <1>1, <2>1, PopProperties
    <3> QED
      BY <1>7, <3>1, RescopedExcludes
  <2>3. ASSUME NEW a \in analyzed \cap Members(Popped.family)
        PROVE  Excludes(new, Len(new), a)
    <3>1. Excludes(scopes, Kept(task, Popped), a)
      BY <1>1, <2>1, PopProperties
    <3> QED
      BY <1>7, <3>1, RescopedExcludes
  <2> QED
    BY <1>1, <1>5, <1>10, <2>2, <2>3 DEF AnalyzedInv
<1>17. ASSUME ConflictsSound(task)
       PROVE  LossInv'
  <2> SUFFICES ASSUME NEW a \in Assignment,
                      ImprovesBeyond(task, ClearlySat(task), a, best, Tolerance(task))
               PROVE  /\ a \in Pool(Remaining) \/ (family' # None /\ a \in Members(family'.family))
                      /\ ~ Excludes(new, Len(new), a)
    BY <1>1, <1>5, <1>8 DEF LossInv, Open
  <2>1. ImprovesBeyond(task, ClearlySat(task), a, satisfying_assignment, Tolerance(task))
    BY <1>1, <1>9, ToleranceType
  <2>2. a \in Pool(families) /\ ~ Excludes(scopes, Len(scopes), a)
    BY <1>1, <1>17, <2>1 DEF IInv, LossInv, Open
  <2>3. ~ Excludes(new, Len(new), a)
    BY <1>7, <2>2, RescopedExcludes
  <2>4. a \in Members(Popped.family) \/ a \in Pool(Remaining)
    BY <1>1, <2>2, PopProperties
  <2>5. status' # "stopped"
    BY <1>10 DEF ImprovesBeyond
  <2>6. ASSUME status' = "ar"
        PROVE  a \notin Members(Popped.family)
    <3>1. ImprovesResult(task, a, best)
      BY <1>1, <1>9, BeyondIsImprovement
    <3> QED
      BY <1>4, <1>9, <1>10, <2>6, <3>1 DEF SoundOutcome
  <2> QED
    BY <1>10, <2>3, <2>4, <2>5, <2>6
<1> QED
  BY <1>1, <1>9, <1>11, <1>12, <1>13, <1>14, <1>15, <1>16, <1>17 DEF IInv, ConflictsSound

(* What an analysed assignment adds to the solver: clauses that exclude it *)
(* and nothing that would still be worth considering.                      *)
Learns(E) ==
  /\ E \in SUBSET Family
  /\ Exclude(E)
  /\ \E G \in E : assignment \in Members(G)
  /\ ConflictsSound(task) =>
       \A G \in E : \A b \in Members(G) :
         ~ ImprovesBeyond(task, ClearlySat(task), b, satisfying_assignment', Tolerance(task))

(* The result is right, and if it changed, it became a better one.         *)
ResultKept ==
  /\ satisfying_assignment' \in Assignment \cup {None}
  /\ optimum' \in Nat \cup {None}
  /\ OptimumOf(task, optimum, satisfying_assignment)'
  /\ \A b \in Assignment, margin \in Nat :
       ImprovesBeyond(task, ClearlySat(task), b, satisfying_assignment', margin) =>
         ImprovesBeyond(task, ClearlySat(task), b, satisfying_assignment, margin)

LEMMA CurrentAssignment ==
  ASSUME IInv, status = "cegis", assignment # None
  PROVE  /\ task \in Task
         /\ family \in Pending /\ family # None
         /\ family.family \in Family /\ family.property_indices \in SUBSET Constraint
         /\ assignment \in Members(family.family) /\ assignment \in Assignment
         /\ Investigated(task, family.family, family.property_indices)
<1>1. task \in Task /\ family \in Pending /\ family # None /\ assignment \in Assignment
  BY DEF IInv, TypeOK, PhaseInv
<1> QED
  BY <1>1 DEF IInv, Pending, AnalyzedInv, IndicesInv

LEMMA SolutionStep ==
  ASSUME IInv, status = "cegis", assignment # None, task' = task, Solution
  PROVE  /\ ResultKept
         /\ \/ /\ status' = "stopped" /\ scopes' = scopes
               /\ task.objective = "none" /\ satisfying_assignment' # None
            \/ status' = status /\ \E E : Learns(E)
<1>1. PICK a \in Assignment : a = assignment
  BY CurrentAssignment
<1>2. Adopt(a) /\ task.objective = "none"
  BY <1>1 DEF Solution
<1>3. /\ ResultKept
      /\ satisfying_assignment' = a /\ a # None
  BY <1>2, AdoptProperties DEF ResultKept
<1>4. CASE task.explore_all
  <2>1. PICK E : E = {AsFamily(a)}
    OBVIOUS
  <2>2. Exclude(E) /\ status' = status
    BY <1>1, <1>4, <2>1 DEF Solution
  <2>3. E \in SUBSET Family /\ \E G \in E : a \in Members(G)
    BY <2>1, SingletonFamily
  <2>4. \A b : ~ ImprovesBeyond(task, ClearlySat(task), b, satisfying_assignment', Tolerance(task))
    BY <1>2, <1>3 DEF ImprovesBeyond
  <2>5. Learns(E)
    BY <1>1, <2>2, <2>3, <2>4 DEF Learns
  <2> QED
    BY <1>3, <2>2, <2>5
<1>5. CASE ~ task.explore_all
  BY <1>2, <1>3, <1>5 DEF Solution
<1> QED
  BY <1>4, <1>5

LEMMA ConflictStep ==
  ASSUME IInv, status = "cegis", assignment # None, task' = task,
         task.objective # "sched_hyperoptimality", Conflict
  PROVE  /\ ResultKept
         /\ status' = status
         /\ \E E : Learns(E)
<1>1. PICK a \in Assignment, F \in Family, indices \in SUBSET Constraint :
        a = assignment /\ F = family.family /\ indices = family.property_indices
  BY CurrentAssignment
<1>2. task \in Task /\ a \in Members(F) /\ Investigated(task, F, indices)
  BY <1>1, CurrentAssignment
<1>3. /\ status' = status
      /\ AllSat(task, indices, a) => task.objective # "none"
      /\ Adopt(IF AllSat(task, indices, a) /\ Adopts(task, a, optimum) THEN a ELSE None)
      /\ \E excluded \in Exclusions(task, F, indices, a, optimum') : Exclude(excluded)
  BY <1>1 DEF Conflict
<1>4. task.objective \in {"none", "optimality"}
  BY <1>2, TaskType DEF Objective
<1>5. /\ ResultKept
      /\ AllSat(task, indices, a) /\ task.objective = "optimality" =>
           ~ ImprovesOptimum(task, task.val[a], optimum')
  <2>1. CASE AllSat(task, indices, a) /\ Adopts(task, a, optimum)
    <3>1. Adopt(a) /\ task.objective = "optimality"
            /\ ImprovesOptimum(task, task.val[a], optimum)
      BY <1>3, <1>4, <2>1 DEF Adopts
    <3> QED
      BY <3>1, AdoptProperties DEF ResultKept
  <2>2. CASE ~ (AllSat(task, indices, a) /\ Adopts(task, a, optimum))
    <3>1. UNCHANGED <<satisfying_assignment, optimum>>
      BY <1>3, <2>2 DEF Adopt
    <3> QED
      BY <2>2, <3>1 DEF IInv, TypeOK, OptimumOf, Adopts, ResultKept
  <2> QED
    BY <2>1, <2>2
<1>6. PICK best, new : best = satisfying_assignment' /\ new = optimum'
  OBVIOUS
<1>7. PICK E \in Exclusions(task, F, indices, a, new) : Exclude(E)
  BY <1>3, <1>6
<1>8. /\ \A G \in E : G \in Family /\ a \in Members(G)
      /\ E # {}
  BY <1>2, <1>3, <1>4, <1>7, ExclusionMembers
<1>9. OptimumOf(task, new, best)
  BY <1>5, <1>6 DEF ResultKept, OptimumOf
<1>10. ASSUME ConflictsSound(task), NEW G \in E, NEW b \in Members(G)
       PROVE  ~ ImprovesBeyond(task, ClearlySat(task), b, best, Tolerance(task))
  BY <1>2, <1>5, <1>6, <1>7, <1>9, <1>10, ExclusionSound
<1>11. Learns(E)
  BY <1>1, <1>6, <1>7, <1>8, <1>10 DEF Learns
<1> QED
  BY <1>3, <1>5, <1>11

LEMMA AnalyzeAssignmentInv ==
  ASSUME IInv, AnalyzeAssignment
  PROVE  IInv'
<1>1. /\ status = "cegis" /\ assignment # None
      /\ task.objective # "sched_hyperoptimality"
      /\ Solution \/ Conflict
      /\ analyzed' = analyzed \cup {assignment}
      /\ assignment' = None
      /\ UNCHANGED <<task, families, family, results, explored>>
  BY DEF AnalyzeAssignment, AssignmentRaises
<1>2. /\ task \in Task
      /\ family \in Pending /\ family # None
      /\ assignment \in Members(family.family) /\ assignment \in Assignment
  BY <1>1, CurrentAssignment
<1>3. /\ ResultKept
      /\ \/ /\ status' = "stopped" /\ scopes' = scopes
            /\ task.objective = "none" /\ satisfying_assignment' # None
         \/ status' = status /\ \E E : Learns(E)
  <2>1. CASE Solution
    BY <1>1, <2>1, SolutionStep
  <2>2. CASE Conflict
    BY <1>1, <2>2, ConflictStep
  <2> QED
    BY <1>1, <2>1, <2>2
<1>4. PICK new : new = scopes'
  OBVIOUS
<1>5. PICK n \in Nat : /\ n = Len(scopes) /\ n >= 1
                       /\ scopes \in Seq(SUBSET Family)
  <2>1. scopes \in Seq(SUBSET Family) /\ Len(scopes) >= 1
    BY DEF IInv, TypeOK, DepthInv
  <2> QED
    BY <2>1, LenProperties
<1>6. /\ new \in Seq(SUBSET Family)
      /\ Len(new) = n
      /\ \A a : \A k \in 0..n : Excludes(scopes, k, a) => Excludes(new, k, a)
      /\ status' # "stopped" => Excludes(new, n, assignment)
      /\ ConflictsSound(task) =>
           \A a : ImprovesBeyond(task, ClearlySat(task), a, satisfying_assignment',
                                 Tolerance(task)) =>
                    (Excludes(new, n, a) => Excludes(scopes, n, a))
  <2>1. CASE status' = "stopped" /\ scopes' = scopes
    BY <1>4, <1>5, <2>1
  <2>2. ASSUME NEW E, Learns(E)
        PROVE  <1>6!:
    <3>1. /\ new \in Seq(SUBSET Family)
          /\ Len(new) = n
          /\ \A a : \A k \in 0..n : Excludes(scopes, k, a) => Excludes(new, k, a)
          /\ \A a : Excludes(new, n, a) <=>
               Excludes(scopes, n, a) \/ \E G \in E : a \in Members(G)
      BY <1>4, <1>5, <2>2, ExcludeProperties DEF Learns
    <3> QED
      BY <2>2, <3>1 DEF Learns
  <2> QED
    BY <1>3, <2>1, <2>2
<1>7. Len(scopes') = Len(scopes) /\ status' \in {"cegis", "stopped"}
  BY <1>1, <1>3, <1>4, <1>5, <1>6
<1>8. TypeOK'
  BY <1>1, <1>2, <1>3, <1>4, <1>6, <1>7 DEF IInv, TypeOK, ResultKept
<1>9. PhaseInv'
  BY <1>1, <1>2, <1>7 DEF PhaseInv
<1>10. DepthInv'
  <2>1. \A i \in DOMAIN families : families[i].refinement_depth # 0
    BY <1>2 DEF IInv, DepthInv
  <2> QED
    BY <1>1, <1>7, <2>1 DEF IInv, DepthInv
<1>11. IndicesInv' /\ DisjointInv'
  BY <1>1 DEF IInv, IndicesInv, DisjointInv
<1>12. AnalyzedInv'
  <2>1. SUFFICES ASSUME status' # "stopped"
                 PROVE  AnalyzedInv'
    BY <1>1 DEF AnalyzedInv
  <2>2. ASSUME NEW i \in DOMAIN families, NEW a \in analyzed' \cap Members(families[i].family)
        PROVE  Excludes(new, Kept(task, families[i]), a)
    <3>1. a # assignment
      BY <1>2 DEF IInv, DisjointInv, Pool
    <3>2. Excludes(scopes, Kept(task, families[i]), a)
      BY <1>1, <2>2, <3>1 DEF IInv, AnalyzedInv
    <3>3. Kept(task, families[i]) \in 0..n
      <4>1. families[i] \in Pending
        BY ElementOfSeq, LenProperties DEF IInv, TypeOK
      <4>2. families[i].refinement_depth \in Nat
        BY <4>1 DEF Pending
      <4> QED
        BY <1>5, <4>2 DEF IInv, DepthInv, Kept
    <3> QED
      BY <1>6, <3>2, <3>3
  <2>3. ASSUME NEW a \in analyzed' \cap Members(family.family)
        PROVE  Excludes(new, n, a)
    <3>1. CASE a = assignment
      BY <1>6, <2>1, <3>1
    <3>2. CASE a # assignment
      <4>1. Excludes(scopes, n, a)
        BY <1>1, <1>2, <1>5, <2>3, <3>2 DEF IInv, AnalyzedInv
      <4> QED
        BY <1>5, <1>6, <4>1
    <3> QED
      BY <3>1, <3>2
  <2> QED
    BY <1>1, <1>4, <1>6, <2>2, <2>3 DEF AnalyzedInv
<1>13. ASSUME ConflictsSound(task)
       PROVE  LossInv'
  <2> SUFFICES ASSUME NEW a \in Assignment,
                      ImprovesBeyond(task, ClearlySat(task), a, satisfying_assignment',
                                     Tolerance(task))
               PROVE  Open(a) /\ ~ Excludes(new, n, a)
    BY <1>1, <1>4, <1>6 DEF LossInv, Open
  <2>1. ImprovesBeyond(task, ClearlySat(task), a, satisfying_assignment, Tolerance(task))
    BY <1>2, <1>3, ToleranceType DEF ResultKept
  <2>2. Open(a) /\ ~ Excludes(scopes, n, a)
    BY <1>1, <1>5, <1>13, <2>1 DEF IInv, LossInv
  <2> QED
    BY <1>6, <1>13, <2>2
<1> QED
  BY <1>1, <1>3, <1>8, <1>9, <1>10, <1>11, <1>12, <1>13 DEF IInv, ConflictsSound, ResultKept

LEMMA NoAssignmentsInv ==
  ASSUME IInv, NoAssignments
  PROVE  IInv'
<1>1. /\ status = "cegis" /\ status' = "ar"
      /\ Available = {}
      /\ explored' = explored + Size(family.family)
      /\ family' = None /\ results' = Unchecked
      /\ assignment = None /\ assignment' = None
      /\ UNCHANGED <<task, families, scopes, analyzed, satisfying_assignment, optimum>>
  BY DEF NoAssignments
<1>2. task \in Task /\ family # None /\ family \in Pending /\ family.family \in Family
  BY <1>1 DEF IInv, TypeOK, PhaseInv, Pending
<1>3. TypeOK'
  <2>1. explored' \in Nat
    BY <1>1, <1>2, FiniteMembers DEF IInv, TypeOK
  <2>2. results' \in [Constraint -> Result]
    BY <1>1 DEF Unchecked, Result
  <2> QED
    BY <1>1, <2>1, <2>2 DEF IInv, TypeOK
<1>4. \A i \in DOMAIN families : families[i].refinement_depth # 0
  BY <1>2 DEF IInv, DepthInv
<1>5. DepthInv'
  BY <1>1, <1>4 DEF IInv, DepthInv
<1>6. ASSUME ConflictsSound(task)
      PROVE  LossInv'
  <2> SUFFICES ASSUME NEW a \in Assignment,
                      ImprovesBeyond(task, ClearlySat(task), a, satisfying_assignment,
                                     Tolerance(task))
               PROVE  a \in Pool(families) /\ ~ Excludes(scopes, Len(scopes), a)
    BY <1>1 DEF LossInv, Open
  <2>1. Open(a) /\ ~ Excludes(scopes, Len(scopes), a)
    BY <1>1, <1>6 DEF IInv, LossInv
  <2>2. a \notin Members(family.family)
    <3>1. DOMAIN scopes = 1..Len(scopes)
      BY LenProperties DEF IInv, TypeOK
    <3> QED
      BY <1>1, <2>1, <3>1 DEF Available, Excludes
  <2> QED
    BY <2>1, <2>2 DEF Open
<1> QED
  BY <1>1, <1>3, <1>5, <1>6
  DEF IInv, PhaseInv, IndicesInv, DisjointInv, AnalyzedInv, ConflictsSound, OptimumOf

LEMMA TimeOutInv ==
  ASSUME IInv, TimeOut
  PROVE  IInv'
<1>1. /\ status = "cegis" /\ status' = "ar"
      /\ family' = None /\ results' = Unchecked
      /\ assignment = None /\ assignment' = None
      /\ UNCHANGED <<task, scopes, analyzed, explored, satisfying_assignment, optimum>>
  BY DEF TimeOut
<1>2. PICK U \in SUBSET Constraint : U = UndecidedConstraints(results)
  BY DEF UndecidedConstraints
<1>3. PICK split \in Split(family.family, U) : families' = families \o Subfamilies(split, U)
  BY <1>2 DEF TimeOut
<1>4. PICK F \in Family, d \in Nat : F = family.family /\ d = family.refinement_depth
  BY <1>1 DEF IInv, TypeOK, PhaseInv, Pending
<1>5. /\ task \in Task /\ family # None /\ family \in Pending
      /\ Investigated(task, F, U)
      /\ Disjoint(families) /\ Members(F) \cap Pool(families) = {}
      /\ families \in Seq(Pending)
      /\ Len(scopes) = 1 + IF task.exploration_order_dfs THEN d ELSE 0
  BY <1>1, <1>2, <1>4 DEF IInv, TypeOK, PhaseInv, IndicesInv, DisjointInv
<1>6. Partitions(split, F)
  BY <1>2, <1>3, <1>4, SplitPartitions
<1>7. PICK m \in Nat : m = Len(split) /\ DOMAIN split = 1..m /\ \A j \in 1..m : split[j] \in Family
  BY <1>6, LenProperties, ElementOfSeq DEF Partitions
<1>8. PICK sub, new : sub = Subfamilies(split, U) /\ new = families'
  OBVIOUS
<1>9. /\ sub \in Seq(Pending) /\ DOMAIN sub = 1..m
      /\ \A j \in 1..m : /\ sub[j].family = split[j]
                         /\ sub[j].property_indices = U
                         /\ sub[j].refinement_depth = d + 1
  <2>1. sub = [j \in 1..m |-> [family |-> split[j], property_indices |-> U,
                               refinement_depth |-> d + 1]]
    BY <1>4, <1>7, <1>8 DEF Subfamilies
  <2>2. \A j \in 1..m : [family |-> split[j], property_indices |-> U,
                         refinement_depth |-> d + 1] \in Pending
    BY <1>7 DEF Pending
  <2>3. sub \in [1..m -> Pending]
    BY <2>1, <2>2
  <2> QED
    BY <2>1, <2>3, FunctionIsSeq
<1>10. new \in Seq(Pending) /\ Appended(families, sub, new)
  BY <1>3, <1>5, <1>8, <1>9, AppendToWorklist
<1>11. /\ Pool(new) = Pool(families) \cup Members(F)
       /\ Disjoint(new)
  <2>1. HaveFamilies(sub, split)
    BY <1>7, <1>9 DEF HaveFamilies
  <2> QED
    BY <1>5, <1>6, <1>10, <2>1, PoolOfAppended
<1>12. ASSUME NEW i \in DOMAIN new
       PROVE  \/ i \in DOMAIN families /\ new[i] = families[i]
              \/ /\ i \notin DOMAIN families
                 /\ Members(new[i].family) \subseteq Members(F)
                 /\ new[i].property_indices = U
                 /\ new[i].refinement_depth = d + 1
  <2>1. CASE i \in DOMAIN families /\ new[i] = families[i]
    BY <2>1
  <2>2. ASSUME i \notin DOMAIN families, NEW j \in DOMAIN sub, new[i] = sub[j]
        PROVE  /\ i \notin DOMAIN families
               /\ Members(new[i].family) \subseteq Members(F)
               /\ new[i].property_indices = U
               /\ new[i].refinement_depth = d + 1
    <3>1. Members(split[j]) \subseteq Members(F)
      BY <1>6, <1>7, <1>9, <2>2 DEF Partitions
    <3> QED
      BY <1>9, <2>2, <3>1
  <2> QED
    BY <1>10, <2>1, <2>2 DEF Appended
<1>13. TypeOK'
  <2>1. results' \in [Constraint -> Result]
    BY <1>1 DEF Unchecked, Result
  <2> QED
    BY <1>1, <1>8, <1>10, <2>1 DEF IInv, TypeOK
<1>14. \A i \in DOMAIN new : new[i].refinement_depth # 0
  <2>1. \A i \in DOMAIN families : families[i].refinement_depth # 0
    BY <1>5 DEF IInv, DepthInv
  <2> QED
    BY <1>4, <1>12, <2>1
<1>15. DepthInv'
  <2>1. ASSUME task.exploration_order_dfs
        PROVE  /\ \A i \in DOMAIN new : new[i].refinement_depth <= Len(scopes)
               /\ \A i, j \in DOMAIN new :
                    i < j => new[i].refinement_depth <= new[j].refinement_depth
    <3>1. /\ \A i \in DOMAIN families : families[i].refinement_depth <= d
          /\ \A i, j \in DOMAIN families :
               i < j => families[i].refinement_depth <= families[j].refinement_depth
      BY <1>4, <1>5, <2>1 DEF IInv, DepthInv
    <3>2. \A i \in DOMAIN families : families[i].refinement_depth \in Nat
      <4>1. \A i \in DOMAIN families : families[i] \in Pending
        BY <1>5, ElementOfSeq, LenProperties
      <4> QED
        BY <4>1 DEF Pending
    <3>3. Len(scopes) = d + 1
      BY <1>5, <2>1
    <3>4. ASSUME NEW i \in DOMAIN new, NEW j \in DOMAIN new, i < j
          PROVE  j \in DOMAIN families => i \in DOMAIN families
      <4>1. PICK n \in Nat, l \in Nat : DOMAIN families = 1..n /\ DOMAIN new = 1..l
        BY <1>5, <1>10, LenProperties
      <4> QED
        BY <3>4, <4>1
    <3> QED
      BY <1>4, <1>12, <3>1, <3>2, <3>3, <3>4
  <2> QED
    BY <1>1, <1>8, <1>14, <2>1 DEF IInv, DepthInv
<1>16. IndicesInv'
  <2>1. ASSUME NEW i \in DOMAIN new
        PROVE  Investigated(task, new[i].family, new[i].property_indices)
    <3>1. CASE i \in DOMAIN families /\ new[i] = families[i]
      BY <3>1 DEF IInv, IndicesInv
    <3>2. CASE Members(new[i].family) \subseteq Members(F) /\ new[i].property_indices = U
      BY <1>5, <3>2, InvestigatedSubfamily
    <3> QED
      BY <1>12, <3>1, <3>2
  <2> QED
    BY <1>1, <1>8, <2>1 DEF IndicesInv
<1>17. DisjointInv'
  BY <1>1, <1>8, <1>11 DEF DisjointInv
<1>18. AnalyzedInv'
  <2>1. ASSUME NEW i \in DOMAIN new, NEW a \in analyzed, a \in Members(new[i].family)
        PROVE  Excludes(scopes, Kept(task, new[i]), a)
    <3>1. CASE i \in DOMAIN families /\ new[i] = families[i]
      BY <1>1, <2>1, <3>1 DEF IInv, AnalyzedInv
    <3>2. CASE /\ Members(new[i].family) \subseteq Members(F)
               /\ new[i].refinement_depth = d + 1
      <4>1. Excludes(scopes, Len(scopes), a)
        BY <1>1, <1>4, <1>5, <2>1, <3>2 DEF IInv, AnalyzedInv
      <4>2. Kept(task, new[i]) = Len(scopes)
        BY <1>4, <1>5, <3>2 DEF Kept
      <4> QED
        BY <4>1, <4>2
    <3> QED
      BY <1>12, <3>1, <3>2
  <2> QED
    BY <1>1, <1>8, <2>1 DEF AnalyzedInv
<1>19. ASSUME ConflictsSound(task)
       PROVE  LossInv'
  BY <1>1, <1>4, <1>8, <1>11, <1>19 DEF IInv, LossInv, Open
<1> QED
  BY <1>1, <1>13, <1>15, <1>16, <1>17, <1>18, <1>19
  DEF IInv, PhaseInv, ConflictsSound, OptimumOf

(* The steps that only pick an assignment or end the search.               *)
LEMMA QuietInv ==
  ASSUME IInv, Pick \/ Raise \/ Exhaust \/ Terminated \/ UNCHANGED vars
  PROVE  IInv'
<1>1. /\ UNCHANGED <<task, families, family, results, scopes, analyzed, explored,
                     satisfying_assignment, optimum>>
      /\ \/ status' = status
         \/ status \in {"ar", "cegis"} /\ status' = "failed"
         \/ status = "ar" /\ status' = "exhausted"
      /\ \/ assignment' = assignment
         \/ /\ status = "cegis" /\ status' = status
            /\ assignment' \in Available
  BY DEF Pick, Raise, FamilyRaises, AssignmentRaises, Exhaust, Terminated, vars
<1>2. ASSUME assignment' \in Available, status = "cegis"
      PROVE  /\ assignment' \in Members(family.family)
             /\ assignment' \in Assignment
             /\ ~ Excludes(scopes, Len(scopes), assignment')
             /\ family # None
  <2>1. family # None /\ family.family \in Family
    BY <1>2 DEF IInv, TypeOK, PhaseInv, Pending
  <2>2. assignment' \in Members(family.family) /\ assignment' \in Assignment
    BY <1>2, <2>1, MembersAreAssignments DEF Available
  <2>3. DOMAIN scopes = 1..Len(scopes)
    BY LenProperties DEF IInv, TypeOK
  <2> QED
    BY <1>2, <2>1, <2>2, <2>3 DEF Available, Excludes
<1>3. TypeOK' /\ PhaseInv'
  BY <1>1, <1>2 DEF IInv, TypeOK, PhaseInv
<1>4. DepthInv'
  BY <1>1 DEF IInv, DepthInv
<1>5. IndicesInv'
  BY <1>1 DEF IInv, IndicesInv
<1>6. DisjointInv'
  BY <1>1 DEF IInv, DisjointInv
<1>7. AnalyzedInv'
  BY <1>1, <1>2 DEF IInv, AnalyzedInv
<1>8. ConflictsSound(task) => LossInv'
  BY <1>1 DEF IInv, LossInv, Open
<1> QED
  BY <1>1, <1>3, <1>4, <1>5, <1>6, <1>7, <1>8 DEF IInv, ConflictsSound, OptimumOf

LEMMA NextInv == IInv /\ [Next]_vars => IInv'
BY AnalyzeFamilyInv, AnalyzeAssignmentInv, NoAssignmentsInv, TimeOutInv, QuietInv
DEF Next, Step

-----------------------------------------------------------------------------
(***************************************************************************)
(* What is proved of every behaviour.                                      *)
(***************************************************************************)

(* The inductive invariant holds of every reachable state.                 *)
THEOREM Invariance == Spec => []IInv
<1>1. IInv /\ [Next]_vars => IInv'
  BY NextInv
<1> QED
  BY InitInv, <1>1, PTL DEF Spec

(* Families, clauses and results stay in their ranges, and depth first the *)
(* solver has one scope for each refinement of the family it serves        *)
(* (sat_level, sketch/holes.py).                                           *)
THEOREM TypeCorrect == Spec => []TypeOK
<1>1. IInv => TypeOK
  BY DEF IInv
<1> QED
  BY Invariance, <1>1, PTL

(* In either order of exploration the scopes that sat_level pops are never *)
(* those of a family that is still to be served: no assignment is analysed *)
(* twice.                                                                  *)
THEOREM AnalyzedOnce == Spec => []NoRepeatedAnalysis
<1>1. IInv => NoRepeatedAnalysis
  BY DEF IInv, PhaseInv, AnalyzedInv, NoRepeatedAnalysis
<1> QED
  BY Invariance, <1>1, PTL

(* What the search still considers, in terms of the worklist and the       *)
(* scopes.                                                                 *)
LEMMA StillConsideredOpen ==
  ASSUME IInv, NEW a
  PROVE  StillConsidered(a) <=> Open(a) /\ ~ Excludes(scopes, Len(scopes), a)
<1>1. DOMAIN scopes = 1..Len(scopes)
  BY LenProperties DEF IInv, TypeOK
<1> QED
  BY <1>1 DEF StillConsidered, Open, Pool, Excludes

(* Whatever the tolerances of the comparisons, and whenever time runs out: *)
(* no assignment that the search will not consider any more, and that      *)
(* satisfies the specification by more than the generator's tolerance,     *)
(* beats the result by more than the larger of the two tolerances, unless  *)
(* the constraints are about other states than the objective.              *)
THEOREM LossBounded == Spec => [](ConflictsSound(task) => LossWithinTolerance)
<1>1. IInv => (ConflictsSound(task) => LossWithinTolerance)
  BY StillConsideredOpen DEF IInv, LossInv, LossWithinTolerance
<1> QED
  BY Invariance, <1>1, PTL

LEMMA ExactLosesNothing ==
  ASSUME IInv, ExactSearch
  PROVE  NoSolutionLost
<1>1. /\ task \in Task /\ satisfying_assignment \in Assignment \cup {None}
      /\ ConflictsSound(task)
      /\ Tolerance(task) = Precision(task)
  BY ToleranceType DEF IInv, TypeOK, ExactSearch, ConflictsExact, ConflictsSound
<1>2. LossInv
  BY <1>1 DEF IInv
<1> SUFFICES ASSUME status # "failed",
                    NEW a \in Assignment, ImprovesResult(task, a, satisfying_assignment)
             PROVE  StillConsidered(a)
  BY DEF NoSolutionLost
<1>3. ImprovesBeyond(task, task.sat, a, satisfying_assignment, Tolerance(task))
  BY <1>1, ImprovesBeyondPrecision
<1>4. ImprovesBeyond(task, ClearlySat(task), a, satisfying_assignment, Tolerance(task))
  BY <1>1, <1>3, ClearlySatProperties DEF ImprovesBeyond, ExactSearch
<1> QED
  BY <1>2, <1>4, StillConsideredOpen DEF LossInv

(* The hybrid method never loses a better result if no strict constraint   *)
(* holds by less than the generator's tolerance and, with an objective,    *)
(* all is about one state and the conflicts are no less precise than the   *)
(* optimum.                                                                *)
THEOREM SearchComplete == Spec => [](ExactSearch => NoSolutionLost)
<1>1. IInv => (ExactSearch => NoSolutionLost)
  BY ExactLosesNothing
<1> QED
  BY Invariance, <1>1, PTL

-----------------------------------------------------------------------------
(***************************************************************************)
(* Refinement: the hybrid method keeps the promise of every method.        *)
(***************************************************************************)

(* The abstract specification reads the task as the concrete one does.     *)
LEMMA AbstractImproves ==
  ASSUME NEW t, NEW a, NEW result
  PROVE  /\ Abstract!SatisfiesSpec(t.sat, a) <=> SatisfiesSpec(t.sat, a)
         /\ Abstract!ImprovesResult(t, a, result) <=> ImprovesResult(t, a, result)
         /\ \A sat, margin : Abstract!ImprovesBeyond(t, sat, a, result, margin)
                              <=> ImprovesBeyond(t, sat, a, result, margin)
BY DEF Abstract!SatisfiesSpec, Abstract!SatisfiesGroup, Abstract!ImprovesResult,
       Abstract!ImprovesOptimum, Abstract!Better, Abstract!Precision, Abstract!Group,
       Abstract!ImprovesBeyond, SatisfiesSpec, SatisfiesGroup, ImprovesResult,
       ImprovesOptimum, ImprovesBeyond, Better, Precision, Group

LEMMA AbstractCardinality ==
  ASSUME NEW S
  PROVE  Abstract!Cardinality(S) = Cardinality(S)
BY DEF Abstract!Cardinality, Cardinality

LEMMA AbstractDifference ==
  ASSUME NEW a, NEW minimizing
  PROVE  Abstract!DifferenceOf(a, minimizing) = DifferenceOf(a, minimizing)
<1>1. PICK F : F = AsFamily(a)
  OBVIOUS
<1>2. Abstract!AsFamily(a) = F
  BY <1>1 DEF Abstract!AsFamily, AsFamily
<1>3. ASSUME NEW m \in Matching
      PROVE  Abstract!Differing(F, m, minimizing) <=> Differing(F, m, minimizing)
  BY AbstractCardinality, Zenon DEF Abstract!Differing, Differing
<1>4. {m \in Matching : Abstract!Differing(F, m, minimizing)}
        = {m \in Matching : Differing(F, m, minimizing)}
  BY <1>3
<1>5. Abstract!SchedulerDifference(F, minimizing) = SchedulerDifference(F, minimizing)
  BY <1>4, AbstractCardinality, Zenon DEF Abstract!SchedulerDifference, Abstract!AtLeastOne,
                                          SchedulerDifference, AtLeastOne
<1> QED
  BY <1>1, <1>2, <1>5 DEF Abstract!DifferenceOf, DifferenceOf

LEMMA AbstractTask ==
  Abstract!Assignment = Assignment /\ Abstract!Task = Task
<1>1. Abstract!Assignment = Assignment
  BY DEF Abstract!Assignment, Assignment
<1> QED
  BY <1>1, AbstractDifference
  DEF Abstract!Task, Abstract!Objective, Abstract!AgreeOn, Task, Objective, AgreeOn

(* What the method promises depends on the task alone.                     *)
LEMMA PromiseIsFixed ==
  ASSUME task' = task
  PROVE  UNCHANGED <<ClearlySat(task), Tolerance(task)>>
BY DEF ClearlySat, Tolerance

LEMMA PromiseType ==
  ASSUME task \in Task
  PROVE  /\ ClearlySat(task) \in [Constraint -> SUBSET Assignment]
         /\ \A c \in Constraint : ClearlySat(task)[c] \subseteq task.sat[c]
         /\ Tolerance(task) \in Nat /\ Tolerance(task) >= Precision(task)
<1>1. task.sat \in [Constraint -> SUBSET Assignment]
  BY DEF Task
<1>2. Tolerance(task) \in Nat /\ Tolerance(task) >= Precision(task)
  BY ToleranceType
<1> QED
  BY <1>1, <1>2 DEF ClearlySat

LEMMA InitImplements == Init => Abstract!Init
<1> SUFFICES ASSUME Init
             PROVE  Abstract!Init
  OBVIOUS
<1>1. task \in Task
  BY TasksAssumption DEF Init
<1>2. Abstract!Precision(task) = Precision(task)
  BY DEF Abstract!Precision, Precision
<1> QED
  BY <1>1, <1>2, PromiseType, AbstractTask DEF Init, Abstract!Init

(* Adopting a solution that improves the optimum, if there is one, is a    *)
(* step of the abstract specification.                                     *)
LEMMA AdoptImplements ==
  ASSUME IInv, task' = task, status \in {"ar", "cegis"},
         NEW a \in Assignment, SatisfiesSpec(task.sat, a), Adopt(a),
         task.objective # "none" => ImprovesOptimum(task, task.val[a], optimum),
         \/ status' \in {"ar", "cegis"}
         \/ status' = "stopped" /\ ~ task.explore_all
  PROVE  Abstract!Adopt
<1>1. satisfying_assignment' = a
  BY NoneIsNoAssignment DEF Adopt
<1>2. task.objective = "none" \/ ImprovesResult(task, a, satisfying_assignment)
  BY ImprovesResultOptimum DEF IInv, TypeOK
<1>3. ~ (status \in {"stopped", "exhausted"})
  OBVIOUS
<1>4. (status' \in {"stopped", "exhausted"}) \in {FALSE, ~ task.explore_all}
  <2>1. CASE status' \in {"ar", "cegis"}
    <3>1. (status' \in {"stopped", "exhausted"}) = FALSE
      BY <2>1
    <3> QED
      BY <3>1
  <2>2. CASE status' = "stopped" /\ ~ task.explore_all
    <3>1. (status' \in {"stopped", "exhausted"}) = TRUE /\ (~ task.explore_all) = TRUE
      BY <2>2
    <3> QED
      BY <3>1
  <2> QED
    BY <2>1, <2>2
<1> QED
  BY <1>1, <1>2, <1>3, <1>4, AbstractTask, AbstractImproves DEF Abstract!Adopt

LEMMA AnalyzeFamilyImplements ==
  ASSUME IInv, AnalyzeFamily
  PROVE  Abstract!Adopt \/ UNCHANGED Abstract!avars
<1>1. status = "ar" /\ families # << >> /\ task' = task
  BY DEF AnalyzeFamily
<1>2. PICK f, checked :
        /\ f \in Feasibilities(task, Popped.family, Popped.property_indices)
        /\ checked = CheckHyperConstraints(Popped.property_indices, f)
        /\ \E outcome \in Outcomes(task, Popped.family, checked, optimum) :
             /\ Adopt(outcome.assignment)
             /\ Stop(outcome) \/ Decide(outcome) \/ StartCegis(outcome, checked)
  BY DEF AnalyzeFamily
<1>3. PICK outcome \in Outcomes(task, Popped.family, checked, optimum) :
        /\ Adopt(outcome.assignment)
        /\ Stop(outcome) \/ Decide(outcome) \/ StartCegis(outcome, checked)
  BY <1>2
<1>4. SoundOutcome(task, Popped.family, optimum, satisfying_assignment, outcome)
  BY <1>1, <1>2, <1>3, AnalysisOfPopped
<1>5. \/ status' \in {"ar", "cegis"}
      \/ status' = "stopped" /\ ~ task.explore_all /\ outcome.assignment # None
  BY <1>1, <1>3 DEF Stop, Decide, StartCegis
<1>6. CASE outcome.assignment = None
  BY <1>1, <1>3, <1>5, <1>6 DEF Adopt, Abstract!avars
<1>7. CASE outcome.assignment # None
  BY <1>1, <1>3, <1>4, <1>5, <1>7, AdoptImplements DEF SoundOutcome
<1> QED
  BY <1>6, <1>7

LEMMA AnalyzeAssignmentImplements ==
  ASSUME IInv, AnalyzeAssignment
  PROVE  Abstract!Adopt \/ UNCHANGED Abstract!avars
<1>1. /\ status = "cegis" /\ assignment # None /\ task' = task
      /\ task.objective # "sched_hyperoptimality"
      /\ Solution \/ Conflict
  BY DEF AnalyzeAssignment, AssignmentRaises
<1>2. PICK a \in Assignment, F \in Family, indices \in SUBSET Constraint :
        /\ a = assignment /\ indices = family.property_indices
        /\ a \in Members(F) /\ Investigated(task, F, indices)
  BY <1>1, CurrentAssignment
<1>3. /\ task \in Task /\ task.objective \in {"none", "optimality"}
      /\ AllSat(task, indices, a) <=> SatisfiesSpec(task.sat, a)
  BY <1>1, <1>2, CurrentAssignment, TaskType, AllSatSound DEF Objective, Investigated
<1>4. CASE Solution
  <2>1. /\ SatisfiesSpec(task.sat, a) /\ Adopt(a) /\ task.objective = "none"
        /\ \/ status' \in {"ar", "cegis"}
           \/ status' = "stopped" /\ ~ task.explore_all
    BY <1>1, <1>2, <1>3, <1>4 DEF Solution
  <2> QED
    BY <1>1, <2>1, AdoptImplements
<1>5. CASE Conflict
  <2>1. /\ status' = status
        /\ Adopt(IF AllSat(task, indices, a) /\ Adopts(task, a, optimum) THEN a ELSE None)
    BY <1>2, <1>5 DEF Conflict
  <2>2. CASE AllSat(task, indices, a) /\ Adopts(task, a, optimum)
    <3>1. /\ SatisfiesSpec(task.sat, a) /\ Adopt(a)
          /\ task.objective # "none" => ImprovesOptimum(task, task.val[a], optimum)
      BY <1>3, <2>1, <2>2 DEF Adopts
    <3> QED
      BY <1>1, <2>1, <3>1, AdoptImplements
  <2>3. CASE ~ (AllSat(task, indices, a) /\ Adopts(task, a, optimum))
    BY <1>1, <2>1, <2>3 DEF Adopt, Abstract!avars
  <2> QED
    BY <2>2, <2>3
<1> QED
  BY <1>1, <1>4, <1>5

LEMMA ExhaustImplements ==
  ASSUME IInv, ConflictsSound(task), Exhaust
  PROVE  Abstract!Finish
<1>1. /\ status = "ar" /\ status' = "exhausted" /\ families = << >>
      /\ UNCHANGED <<task, satisfying_assignment>>
  BY DEF Exhaust
<1>2. ~ \E a \in Assignment :
        ImprovesBeyond(task, ClearlySat(task), a, satisfying_assignment, Tolerance(task))
  <2>1. \A a : ~ Open(a)
    BY <1>1 DEF IInv, PhaseInv, Open, Pool
  <2> QED
    BY <1>1, <2>1 DEF IInv, LossInv
<1>3. ~ (status \in {"stopped", "exhausted"})
  BY <1>1
<1>4. (status' \in {"stopped", "exhausted"}) = TRUE
  BY <1>1
<1> QED
  BY <1>1, <1>2, <1>3, <1>4, AbstractTask, AbstractImproves, PromiseIsFixed
  DEF Abstract!Finish

(* The hybrid method implements the abstract specification of a synthesis  *)
(* method: better and better solutions, and at the end a best one, up to   *)
(* the tolerances and unless the constraints are about other states than   *)
(* the objective.                                                          *)
THEOREM Refinement == Spec /\ ConflictsSound(task) => RefinesSynthesis
<1>1. ConflictsSound(task) /\ [Next]_vars => ConflictsSound(task)'
  BY DEF ConflictsSound, Next, Step, vars, AnalyzeFamily, Pick, Raise, AnalyzeAssignment,
         NoAssignments, TimeOut, Exhaust, Terminated
<1>2. IInv /\ ConflictsSound(task) /\ [Next]_vars => [Abstract!Next]_(Abstract!avars)
  <2> SUFFICES ASSUME IInv, ConflictsSound(task), [Next]_vars
               PROVE  Abstract!Next \/ UNCHANGED Abstract!avars
    OBVIOUS
  <2>1. CASE AnalyzeFamily
    BY <2>1, AnalyzeFamilyImplements DEF Abstract!Next
  <2>2. CASE AnalyzeAssignment
    BY <2>2, AnalyzeAssignmentImplements DEF Abstract!Next
  <2>3. CASE Exhaust
    BY <2>3, ExhaustImplements DEF Abstract!Next
  <2>4. CASE Pick \/ NoAssignments \/ TimeOut \/ Terminated \/ UNCHANGED vars
    BY <2>4 DEF Pick, NoAssignments, TimeOut, Terminated, vars, Abstract!avars
  <2>5. CASE Raise
    <3>1. status \in {"ar", "cegis"} /\ status' = "failed"
          /\ UNCHANGED <<task, satisfying_assignment>>
      BY <2>5 DEF Raise, FamilyRaises, AssignmentRaises
    <3> QED
      BY <3>1 DEF Abstract!avars
  <2> QED
    BY <2>1, <2>2, <2>3, <2>4, <2>5 DEF Next, Step
<1> QED
  BY Invariance, InitImplements, <1>1, <1>2, PTL DEF Spec, RefinesSynthesis, Abstract!Spec

=============================================================================
