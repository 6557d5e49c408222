-------------------------- MODULE Enumeration_proofs --------------------------
(***************************************************************************)
(* Safety of the methods that analyse one assignment after the other, for  *)
(* every design space, specification and task: what the clauses exclude    *)
(* would not have been a better result by more than the tolerances of the  *)
(* comparisons.                                                            *)
(***************************************************************************)
EXTENDS Enumeration, Analysis_proofs

(* The conflict of an objective is drawn from its own state's holes: it is *)
(* right when the constraints are about that state too.                    *)
SoundSearch == method = "cegis" => ConflictsSound(task)

(* The conflicts tell apart what the specification does.                   *)
ExactSearch == method = "cegis" => ConflictsExact(task)

(* The inductive invariant: a clause was harmless for the result of its    *)
(* time, and better results only make fewer assignments worth having.      *)
IInv ==
  /\ TypeOK
  /\ OptimumOf(task, optimum, satisfying_assignment)
  /\ SoundSearch => LossWithinTolerance

-----------------------------------------------------------------------------
(***************************************************************************)
(* Steps.                                                                  *)
(***************************************************************************)

LEMMA MarginType ==
  ASSUME task \in Task
  PROVE  /\ Margin \in Nat /\ Precision(task) \in Nat
         /\ Precision(task) <= Margin
         /\ method = "cegis" => Margin = Tolerance(task)
         /\ ExactSearch => SoundSearch /\ Margin = Precision(task)
BY ToleranceType DEF Margin, ExactSearch, SoundSearch, ConflictsSound, ConflictsExact

LEMMA RespectedProperties ==
  ASSUME task \in Task, NEW b
  PROVE  /\ SatisfiesSpec(Respected, b) => SatisfiesSpec(task.sat, b)
         /\ method = "cegis" => Respected = ClearlySat(task)
         /\ ExactSearch => (SatisfiesSpec(Respected, b) <=> SatisfiesSpec(task.sat, b))
<1>1. CASE method = "cegis"
  BY <1>1, ClearlySatProperties DEF Respected, ExactSearch
<1>2. CASE method # "cegis"
  BY <1>2 DEF Respected
<1> QED
  BY <1>1, <1>2

LEMMA AllSatOfRoot ==
  ASSUME task \in Task, NEW a \in Assignment
  PROVE  AllSat(task, Constraint, a) <=> SatisfiesSpec(task.sat, a)
BY RootSuffices, AllSatSound

LEMMA AllSatExclusions ==
  ASSUME NEW a \in Assignment
  PROVE  /\ a \in Members(Options) /\ Options \in Family
         /\ AsFamily(a) \in Family /\ Members(AsFamily(a)) = {a}
BY RootSuffices, SingletonFamily

(* Excluding families without a better result, while the result stays the  *)
(* same or becomes a better one.                                           *)
LEMMA LossOfStep ==
  ASSUME IInv, task' = task, method' = method, SoundSearch, LossWithinTolerance,
         status # "failed",
         NEW added, excluded' = excluded \cup added,
         \A G \in added : \A b \in Members(G) \cap Assignment :
           ~ ImprovesBeyond(task, Respected, b, satisfying_assignment', Margin),
         \A b \in Assignment :
           ImprovesBeyond(task, Respected, b, satisfying_assignment', Margin) =>
             ImprovesBeyond(task, Respected, b, satisfying_assignment, Margin)
  PROVE  LossWithinTolerance'
<1>1. Margin' = Margin /\ Respected' = Respected
  BY DEF Margin, Respected
<1>2. ASSUME NEW a \in Assignment, \E G \in excluded' : a \in Members(G)
      PROVE  ~ ImprovesBeyond(task, Respected, a, satisfying_assignment', Margin)
  <2>1. PICK G \in excluded' : a \in Members(G)
    BY <1>2
  <2>2. CASE G \in added
    BY <2>1, <2>2
  <2>3. CASE G \in excluded
    <3>1. a \notin Candidates
      BY <2>1, <2>3 DEF Candidates
    <3> QED
      BY <3>1 DEF LossWithinTolerance
  <2> QED
    BY <2>1, <2>2, <2>3
<1> QED
  BY <1>1, <1>2 DEF LossWithinTolerance, Candidates

(* The result after a was adopted.                                         *)
LEMMA AdoptProperties ==
  ASSUME IInv, task' = task, NEW a \in Assignment, Adopt(a),
         task.objective # "none" => ImprovesOptimum(task, task.val[a], optimum)
  PROVE  /\ satisfying_assignment' = a /\ a # None
         /\ optimum' \in Nat \cup {None}
         /\ OptimumOf(task, optimum, satisfying_assignment)'
         /\ task.objective # "none" => ~ ImprovesOptimum(task, task.val[a], optimum')
         /\ ~ ImprovesBeyond(task, Respected, a, a, Margin)
         /\ \A b \in Assignment :
              ImprovesBeyond(task, Respected, b, satisfying_assignment', Margin) =>
                ImprovesBeyond(task, Respected, b, satisfying_assignment, Margin)
<1>1. task \in Task /\ Margin \in Nat /\ a # None /\ task.val[a] \in Nat
  BY MarginType, TaskType, NoneIsNoAssignment DEF IInv, TypeOK
<1>2. satisfying_assignment' = a /\ optimum' = UpdatedOptimum(task, a, optimum)
  BY DEF Adopt
<1>3. PICK new : new = optimum'
  OBVIOUS
<1>4. /\ OptimumOf(task, new, a)
      /\ task.objective # "none" => ~ ImprovesOptimum(task, task.val[a], new)
      /\ \A b \in Assignment, margin \in Nat :
           ImprovesBeyond(task, Respected, b, a, margin) =>
             ImprovesBeyond(task, Respected, b, satisfying_assignment, margin)
  BY <1>1, <1>2, <1>3, AdoptedResult DEF IInv
<1>5. ~ ImprovesBeyond(task, Respected, a, a, Margin)
  BY <1>1, NotBetterThanItself DEF ImprovesBeyond
<1>6. OptimumOf(task, optimum, satisfying_assignment)'
  BY <1>2, <1>3, <1>4 DEF OptimumOf
<1> QED
  BY <1>1, <1>2, <1>3, <1>4, <1>5, <1>6 DEF OptimumOf

(* A solution that does not improve the optimum does not beat the result.  *)
LEMMA NotImproving ==
  ASSUME IInv, NEW a \in Assignment, task.objective # "none",
         ~ ImprovesOptimum(task, task.val[a], optimum)
  PROVE  ~ ImprovesBeyond(task, Respected, a, satisfying_assignment, Margin)
<1>1. /\ task \in Task /\ OptimumOf(task, optimum, satisfying_assignment)
      /\ Margin \in Nat /\ Precision(task) \in Nat /\ Precision(task) <= Margin
      /\ task.val[a] \in Nat
  BY MarginType, TaskType DEF IInv, TypeOK
<1>2. optimum # None /\ ~ Better(task, task.val[a], optimum, Precision(task))
  BY DEF ImprovesOptimum
<1>3. satisfying_assignment # None /\ optimum = task.val[satisfying_assignment]
        /\ optimum \in Nat
  BY <1>1, <1>2 DEF OptimumOf
<1> QED
  BY <1>1, <1>2, <1>3, BetterAntitone DEF ImprovesBeyond

-----------------------------------------------------------------------------
(***************************************************************************)
(* The invariant is inductive.                                             *)
(***************************************************************************)

LEMMA InitInv == Init => IInv
<1> SUFFICES ASSUME Init
             PROVE  IInv
  OBVIOUS
<1>1. TypeOK
  BY TasksAssumption DEF Init, TypeOK
<1>2. LossWithinTolerance
  BY DEF Init, LossWithinTolerance, Candidates
<1> QED
  BY <1>1, <1>2 DEF Init, IInv, OptimumOf

LEMMA VisitInv ==
  ASSUME IInv, Visit
  PROVE  IInv'
<1>1. /\ status = "running" /\ method = "onebyone"
      /\ method' = method /\ task' = task /\ task \in Task
  BY DEF Visit, IInv, TypeOK
<1>2. PICK a \in Candidates :
        /\ excluded' = excluded \cup {AsFamily(a)}
        /\ Skip(a) \/ TakeFirst(a) \/ Consult(a) \/ Compare(a)
  BY DEF Visit
<1>3. /\ a \in Assignment /\ AsFamily(a) \in Family /\ Members(AsFamily(a)) = {a}
      /\ AllSat(task, Constraint, a) <=> SatisfiesSpec(task.sat, a)
  BY <1>1, AllSatExclusions, AllSatOfRoot DEF Candidates
<1>4. PICK adopted \in BOOLEAN :
        /\ adopted => AllSat(task, Constraint, a) /\ Adopt(a)
        /\ adopted /\ task.objective # "none" => ImprovesOptimum(task, task.val[a], optimum)
        /\ ~ adopted => KeepResult
        /\ ~ adopted /\ AllSat(task, Constraint, a) /\ status' # "failed" =>
             task.objective # "none" /\ ~ ImprovesOptimum(task, task.val[a], optimum)
        /\ status' \in {"running", "stopped", "failed"}
  <2>1. CASE Skip(a)
    BY <1>1, <2>1 DEF Skip
  <2>2. CASE TakeFirst(a)
    BY <1>1, <2>2, TaskType DEF TakeFirst
  <2>3. CASE Consult(a)
    BY <1>1, <2>3 DEF Consult
  <2>4. CASE Compare(a)
    <3>1. task.val[a] = DifferenceOf(a, task.minimizing)
      BY <1>1, <1>3, <2>4, TaskType DEF Compare
    <3>2. CASE ImprovesOptimum(task, task.val[a], optimum)
      BY <1>1, <2>4, <3>1, <3>2 DEF Compare
    <3>3. CASE ~ ImprovesOptimum(task, task.val[a], optimum)
      BY <1>1, <2>4, <3>1, <3>3 DEF Compare
    <3> QED
      BY <3>2, <3>3
  <2> QED
    BY <1>2, <2>1, <2>2, <2>3, <2>4
<1>5. /\ satisfying_assignment' \in Assignment \cup {None}
      /\ optimum' \in Nat \cup {None}
      /\ OptimumOf(task, optimum, satisfying_assignment)'
      /\ \A b \in Assignment :
           ImprovesBeyond(task, Respected, b, satisfying_assignment', Margin) =>
             ImprovesBeyond(task, Respected, b, satisfying_assignment, Margin)
      /\ status' # "failed" => ~ ImprovesBeyond(task, Respected, a, satisfying_assignment', Margin)
  <2>1. CASE adopted
    BY <1>1, <1>3, <1>4, <2>1, AdoptProperties
  <2>2. CASE ~ adopted
    <3>1. UNCHANGED <<satisfying_assignment, optimum>>
      BY <1>4, <2>2 DEF KeepResult
    <3>2. ASSUME status' # "failed"
          PROVE  ~ ImprovesBeyond(task, Respected, a, satisfying_assignment, Margin)
      <4>1. CASE ~ SatisfiesSpec(task.sat, a)
        BY <1>1, <4>1, RespectedProperties DEF ImprovesBeyond
      <4>2. CASE SatisfiesSpec(task.sat, a)
        BY <1>3, <1>4, <2>2, <3>2, <4>2, NotImproving
      <4> QED
        BY <4>1, <4>2
    <3> QED
      BY <1>1, <3>1, <3>2 DEF IInv, TypeOK, OptimumOf
  <2> QED
    BY <2>1, <2>2
<1>6. TypeOK'
  BY <1>1, <1>2, <1>3, <1>4, <1>5 DEF IInv, TypeOK
<1>7. SoundSearch' => LossWithinTolerance'
  <2> SUFFICES ASSUME SoundSearch, status' # "failed"
               PROVE  LossWithinTolerance'
    BY <1>1 DEF SoundSearch, LossWithinTolerance
  <2>1. LossWithinTolerance
    BY DEF IInv
  <2>2. PICK added : added = {AsFamily(a)}
    OBVIOUS
  <2>3. /\ excluded' = excluded \cup added
        /\ \A G \in added : \A b \in Members(G) \cap Assignment :
             ~ ImprovesBeyond(task, Respected, b, satisfying_assignment', Margin)
    BY <1>2, <1>3, <1>5, <2>2
  <2> QED
    BY <1>1, <1>5, <2>1, <2>3, LossOfStep
<1> QED
  BY <1>5, <1>6, <1>7 DEF IInv

LEMMA SolutionInv ==
  ASSUME IInv, status = "running", method' = method, task' = task,
         NEW a \in Candidates, Solution(a)
  PROVE  IInv'
<1>1. /\ task \in Task /\ a \in Assignment
      /\ task.objective = "none" /\ Adopt(a)
      /\ \/ excluded' = excluded \cup {AsFamily(a)} /\ status' = status
         \/ excluded' = excluded /\ status' = "stopped"
  BY DEF IInv, TypeOK, Candidates, Solution
<1>2. AsFamily(a) \in Family
  BY <1>1, AllSatExclusions
<1>3. /\ satisfying_assignment' = a /\ a # None
      /\ optimum' \in Nat \cup {None}
      /\ OptimumOf(task, optimum, satisfying_assignment)'
  BY <1>1, AdoptProperties
<1>4. TypeOK'
  BY <1>1, <1>2, <1>3 DEF IInv, TypeOK
<1>5. LossWithinTolerance'
  BY <1>1, <1>3 DEF LossWithinTolerance, ImprovesBeyond
<1> QED
  BY <1>3, <1>4, <1>5 DEF IInv

LEMMA ConflictInv ==
  ASSUME IInv, status = "running", method = "cegis", method' = method, task' = task,
         task.objective # "sched_hyperoptimality",
         NEW a \in Candidates, Conflict(a)
  PROVE  IInv'
<1>1. /\ task \in Task /\ a \in Assignment /\ status' = status
      /\ AllSat(task, Constraint, a) => task.objective # "none"
      /\ IF AllSat(task, Constraint, a) /\ Adopts(task, a, optimum)
         THEN Adopt(a) ELSE KeepResult
  BY DEF IInv, TypeOK, Candidates, Conflict
<1>2. PICK E \in Exclusions(task, Options, Constraint, a, optimum') :
        excluded' = excluded \cup E
  BY DEF Conflict
<1>3. a \in Members(Options) /\ Options \in Family /\ Investigated(task, Options, Constraint)
  BY <1>1, AllSatExclusions, RootSuffices
<1>4. task.objective \in {"none", "optimality"}
  BY <1>1, TaskType DEF Objective
<1>5. /\ satisfying_assignment' \in Assignment \cup {None}
      /\ optimum' \in Nat \cup {None}
      /\ OptimumOf(task, optimum, satisfying_assignment)'
      /\ \A b \in Assignment :
           ImprovesBeyond(task, Respected, b, satisfying_assignment', Margin) =>
             ImprovesBeyond(task, Respected, b, satisfying_assignment, Margin)
      /\ AllSat(task, Constraint, a) /\ task.objective = "optimality" =>
           ~ ImprovesOptimum(task, task.val[a], optimum')
  <2>1. CASE AllSat(task, Constraint, a) /\ Adopts(task, a, optimum)
    <3>1. Adopt(a) /\ task.objective = "optimality"
            /\ ImprovesOptimum(task, task.val[a], optimum)
      BY <1>1, <1>4, <2>1 DEF Adopts
    <3> QED
      BY <1>1, <3>1, AdoptProperties
  <2>2. CASE ~ (AllSat(task, Constraint, a) /\ Adopts(task, a, optimum))
    <3>1. UNCHANGED <<satisfying_assignment, optimum>>
      BY <1>1, <2>2 DEF KeepResult
    <3> QED
      BY <2>2, <3>1 DEF IInv, TypeOK, OptimumOf, Adopts
  <2> QED
    BY <2>1, <2>2
<1>6. E \subseteq Family
  BY <1>1, <1>2, <1>3, ExclusionMembers
<1>7. TypeOK'
  BY <1>1, <1>2, <1>5, <1>6 DEF IInv, TypeOK
<1>8. SoundSearch' => LossWithinTolerance'
  <2> SUFFICES ASSUME SoundSearch
               PROVE  LossWithinTolerance'
    BY DEF SoundSearch
  <2>1. /\ LossWithinTolerance /\ ConflictsSound(task)
        /\ Margin = Tolerance(task) /\ Respected = ClearlySat(task)
    BY <1>1, MarginType, RespectedProperties DEF IInv, SoundSearch
  <2>2. PICK best, new : best = satisfying_assignment' /\ new = optimum'
    OBVIOUS
  <2>3. OptimumOf(task, new, best)
    BY <1>5, <2>2 DEF OptimumOf
  <2>4. ASSUME NEW G \in E, NEW b \in Members(G)
        PROVE  ~ ImprovesBeyond(task, ClearlySat(task), b, best, Tolerance(task))
    BY <1>1, <1>2, <1>3, <1>5, <2>1, <2>2, <2>3, ExclusionSound
  <2> QED
    BY <1>2, <1>5, <2>1, <2>2, <2>4, LossOfStep
<1> QED
  BY <1>5, <1>7, <1>8 DEF IInv

LEMMA NextInv == IInv /\ [Next]_vars => IInv'
<1> SUFFICES ASSUME IInv, [Next]_vars
             PROVE  IInv'
  OBVIOUS
<1>1. CASE Visit
  BY <1>1, VisitInv
<1>2. CASE NotSupported
  BY <1>2 DEF NotSupported, IInv, TypeOK, OptimumOf, SoundSearch, LossWithinTolerance
<1>3. CASE Analyze
  <2>1. /\ status = "running" /\ method = "cegis" /\ method' = method /\ task' = task
        /\ task.objective # "sched_hyperoptimality"
    BY <1>3 DEF Analyze
  <2>2. PICK a \in Candidates : Solution(a) \/ Conflict(a)
    BY <1>3 DEF Analyze
  <2> QED
    BY <2>1, <2>2, SolutionInv, ConflictInv
<1>4. CASE Exhaust \/ Terminated \/ UNCHANGED vars
  <2>1. /\ UNCHANGED <<method, task, excluded, satisfying_assignment, optimum>>
        /\ status' \in {"running", "stopped", "exhausted", "failed"}
        /\ status' # "failed" => status # "failed"
    BY <1>4 DEF Exhaust, Terminated, vars, IInv, TypeOK
  <2>2. Margin' = Margin /\ Respected' = Respected /\ Candidates' = Candidates
    BY <2>1 DEF Margin, Respected, Candidates
  <2> QED
    BY <2>1, <2>2 DEF IInv, TypeOK, OptimumOf, SoundSearch, LossWithinTolerance
<1> QED
  BY <1>1, <1>2, <1>3, <1>4 DEF Next

-----------------------------------------------------------------------------
(***************************************************************************)
(* What is proved of every behaviour.                                      *)
(***************************************************************************)

(* The inductive invariant holds of every reachable state.                 *)
THEOREM Invariance == Spec => []IInv
<1>1. IInv /\ [Next]_vars => IInv'
  BY NextInv
<1> QED
  BY InitInv, <1>1, PTL DEF Spec

(* The clauses of exclude_assignment are subfamilies of the design space,  *)
(* and every result stays in its range.                                    *)
THEOREM TypeCorrect == Spec => []TypeOK
<1>1. IInv => TypeOK
  BY DEF IInv
<1> QED
  BY Invariance, <1>1, PTL

(* Whatever the tolerances of the comparisons: no assignment that a clause *)
(* excludes, and that satisfies the specification by more than the         *)
(* generator's tolerance, beats the result by more than the larger of the  *)
(* two tolerances, unless the constraints are about other states than the  *)
(* objective (analyze_family_assignment_cegis, Counterexample.cpp).        *)
THEOREM LossBounded == Spec => [](SoundSearch => LossWithinTolerance)
<1>1. IInv => (SoundSearch => LossWithinTolerance)
  BY DEF IInv
<1> QED
  BY Invariance, <1>1, PTL

LEMMA ExactLosesNothing ==
  ASSUME IInv, ExactSearch
  PROVE  NoSolutionLost
<1>1. /\ task \in Task /\ satisfying_assignment \in Assignment \cup {None}
      /\ LossWithinTolerance /\ Margin = Precision(task)
  BY MarginType DEF IInv, TypeOK
<1>2. ASSUME NEW a, ImprovesResult(task, a, satisfying_assignment)
      PROVE  ImprovesBeyond(task, Respected, a, satisfying_assignment, Margin)
  <2>1. ImprovesBeyond(task, task.sat, a, satisfying_assignment, Margin)
    BY <1>1, <1>2, ImprovesBeyondPrecision
  <2> QED
    BY <1>1, <2>1, RespectedProperties DEF ImprovesBeyond
<1> QED
  BY <1>1, <1>2 DEF LossWithinTolerance, NoSolutionLost

(* 1-by-1 never excludes a better result.  CEGIS does not if no strict     *)
(* constraint holds by less than the generator's tolerance and, with an    *)
(* objective, all is about one state and the conflicts are no less precise *)
(* than the optimum.                                                       *)
THEOREM SearchComplete == Spec => [](ExactSearch => NoSolutionLost)
<1>1. IInv => (ExactSearch => NoSolutionLost)
  BY ExactLosesNothing
<1> QED
  BY Invariance, <1>1, PTL

-----------------------------------------------------------------------------
(***************************************************************************)
(* Refinement: both methods keep the promise of every method.              *)
(***************************************************************************)

(* The abstract specification reads the task as the concrete one does.     *)
LEMMA AbstractImproves ==
  ASSUME NEW t, NEW a, NEW result
  PROVE  /\ Abstract!SatisfiesSpec(t.sat, a) <=> SatisfiesSpec(t.sat, a)
         /\ Abstract!ImprovesResult(t, a, result) <=> ImprovesResult(t, a, result)
         /\ \A sat, margin : Abstract!ImprovesBeyond(t, sat, a, result, margin)
                              <=> ImprovesBeyond(t, sat, a, result, margin)
BY DEF Abstract!SatisfiesSpec, Abstract!SatisfiesGroup, Abstract!ImprovesResult,
       Abstract!ImprovesOptimum, Abstract!Better, Abstract!Precision, Abstract!Group,
       Abstract!ImprovesBeyond, SatisfiesSpec, SatisfiesGroup, ImprovesResult,
       ImprovesOptimum, ImprovesBeyond, Better, Precision, Group

LEMMA AbstractCardinality ==
  ASSUME NEW S
  PROVE  Abstract!Cardinality(S) = Cardinality(S)
BY DEF Abstract!Cardinality, Cardinality

LEMMA AbstractDifference ==
  ASSUME NEW a, NEW minimizing
  PROVE  Abstract!DifferenceOf(a, minimizing) = DifferenceOf(a, minimizing)
<1>1. PICK F : F = AsFamily(a)
  OBVIOUS
<1>2. Abstract!AsFamily(a) = F
  BY <1>1 DEF Abstract!AsFamily, AsFamily
<1>3. ASSUME NEW m \in Matching
      PROVE  Abstract!Differing(F, m, minimizing) <=> Differing(F, m, minimizing)
  BY AbstractCardinality, Zenon DEF Abstract!Differing, Differing
<1>4. {m \in Matching : Abstract!Differing(F, m, minimizing)}
        = {m \in Matching : Differing(F, m, minimizing)}
  BY <1>3
<1>5. Abstract!SchedulerDifference(F, minimizing) = SchedulerDifference(F, minimizing)
  BY <1>4, AbstractCardinality, Zenon DEF Abstract!SchedulerDifference, Abstract!AtLeastOne,
                                          SchedulerDifference, AtLeastOne
<1> QED
  BY <1>1, <1>2, <1>5 DEF Abstract!DifferenceOf, DifferenceOf

LEMMA AbstractTask ==
  Abstract!Assignment = Assignment /\ Abstract!Task = Task
<1>1. Abstract!Assignment = Assignment
  BY DEF Abstract!Assignment, Assignment
<1> QED
  BY <1>1, AbstractDifference
  DEF Abstract!Task, Abstract!Objective, Abstract!AgreeOn, Task, Objective, AgreeOn

(* What the method promises depends on the task alone.                     *)
LEMMA PromiseIsFixed ==
  ASSUME UNCHANGED <<method, task>>
  PROVE  UNCHANGED <<Respected, Margin>>
BY DEF Respected, Margin, ClearlySat, Tolerance, Precision

LEMMA PromiseType ==
  ASSUME task \in Task
  PROVE  /\ Respected \in [Constraint -> SUBSET Assignment]
         /\ \A c \in Constraint : Respected[c] \subseteq task.sat[c]
         /\ Margin \in Nat /\ Margin >= Precision(task)
<1>1. task.sat \in [Constraint -> SUBSET Assignment]
  BY DEF Task
<1>2. Margin \in Nat /\ Margin >= Precision(task)
  BY MarginType
<1> QED
  BY <1>1, <1>2 DEF Respected, ClearlySat

LEMMA InitImplements == Init => Abstract!Init
<1> SUFFICES ASSUME Init
             PROVE  Abstract!Init
  OBVIOUS
<1>1. task \in Task
  BY TasksAssumption DEF Init
<1>2. Abstract!Precision(task) = Precision(task)
  BY DEF Abstract!Precision, Precision
<1> QED
  BY <1>1, <1>2, PromiseType, AbstractTask DEF Init, Abstract!Init

(* Adopting a solution that improves the optimum, if there is one, is a    *)
(* step of the abstract specification.                                     *)
LEMMA AdoptImplements ==
  ASSUME IInv, UNCHANGED <<method, task>>, status = "running",
         NEW a \in Assignment, SatisfiesSpec(task.sat, a), Adopt(a),
         task.objective # "none" => ImprovesOptimum(task, task.val[a], optimum),
         \/ status' = "running"
         \/ status' = "stopped" /\ ~ task.explore_all
  PROVE  Abstract!Adopt
<1>1. satisfying_assignment' = a
  BY DEF Adopt
<1>2. task.objective = "none" \/ ImprovesResult(task, a, satisfying_assignment)
  BY ImprovesResultOptimum DEF IInv, TypeOK
<1>3. ~ (status \in {"stopped", "exhausted"})
  OBVIOUS
<1>4. (status' \in {"stopped", "exhausted"}) \in {FALSE, ~ task.explore_all}
  <2>1. CASE status' = "running"
    <3>1. (status' \in {"stopped", "exhausted"}) = FALSE
      BY <2>1
    <3> QED
      BY <3>1
  <2>2. CASE status' = "stopped" /\ ~ task.explore_all
    <3>1. (status' \in {"stopped", "exhausted"}) = TRUE /\ (~ task.explore_all) = TRUE
      BY <2>2
    <3> QED
      BY <3>1
  <2> QED
    BY <2>1, <2>2
<1> QED
  BY <1>1, <1>2, <1>3, <1>4, AbstractTask, AbstractImproves, PromiseIsFixed
  DEF Abstract!Adopt

LEMMA VisitImplements ==
  ASSUME IInv, Visit
  PROVE  Abstract!Adopt \/ UNCHANGED Abstract!avars
<1>1. status = "running" /\ UNCHANGED <<method, task>> /\ task \in Task
  BY DEF Visit, IInv, TypeOK
<1>2. PICK a \in Candidates : Skip(a) \/ TakeFirst(a) \/ Consult(a) \/ Compare(a)
  BY DEF Visit
<1>3. a \in Assignment /\ (AllSat(task, Constraint, a) <=> SatisfiesSpec(task.sat, a))
  BY <1>1, AllSatOfRoot DEF Candidates
<1>4. CASE Skip(a)
  BY <1>1, <1>4, PromiseIsFixed DEF Skip, KeepResult, Abstract!avars
<1>5. CASE TakeFirst(a)
  <2>1. task.objective = "none"
    BY <1>1, <1>5, TaskType DEF TakeFirst
  <2> QED
    BY <1>1, <1>3, <1>5, <2>1, AdoptImplements DEF TakeFirst
<1>6. CASE Consult(a)
  BY <1>1, <1>6, PromiseIsFixed DEF Consult, KeepResult, Abstract!avars
<1>7. CASE Compare(a)
  <2>1. task.val[a] = DifferenceOf(a, task.minimizing) /\ status' = status
    BY <1>1, <1>3, <1>7, TaskType DEF Compare
  <2>2. CASE ImprovesOptimum(task, task.val[a], optimum)
    BY <1>1, <1>3, <1>7, <2>1, <2>2, AdoptImplements DEF Compare
  <2>3. CASE ~ ImprovesOptimum(task, task.val[a], optimum)
    BY <1>1, <1>7, <2>1, <2>3, PromiseIsFixed DEF Compare, KeepResult, Abstract!avars
  <2> QED
    BY <2>2, <2>3
<1> QED
  BY <1>2, <1>4, <1>5, <1>6, <1>7

LEMMA AnalyzeImplements ==
  ASSUME IInv, Analyze
  PROVE  Abstract!Adopt \/ UNCHANGED Abstract!avars
<1>1. /\ status = "running" /\ UNCHANGED <<method, task>> /\ task \in Task
      /\ task.objective \in {"none", "optimality"}
  BY TaskType DEF Analyze, IInv, TypeOK, Objective
<1>2. PICK a \in Candidates : Solution(a) \/ Conflict(a)
  BY DEF Analyze
<1>3. a \in Assignment /\ (AllSat(task, Constraint, a) <=> SatisfiesSpec(task.sat, a))
  BY <1>1, AllSatOfRoot DEF Candidates
<1>4. CASE Solution(a)
  <2>1. /\ SatisfiesSpec(task.sat, a) /\ Adopt(a) /\ task.objective = "none"
        /\ \/ status' = "running"
           \/ status' = "stopped" /\ ~ task.explore_all
    BY <1>1, <1>3, <1>4, TaskType DEF Solution
  <2> QED
    BY <1>1, <1>3, <2>1, AdoptImplements
<1>5. CASE Conflict(a)
  <2>1. CASE AllSat(task, Constraint, a) /\ Adopts(task, a, optimum)
    <3>1. /\ SatisfiesSpec(task.sat, a) /\ Adopt(a) /\ status' = "running"
          /\ ImprovesOptimum(task, task.val[a], optimum)
      BY <1>1, <1>3, <1>5, <2>1 DEF Conflict, Adopts
    <3> QED
      BY <1>1, <1>3, <3>1, AdoptImplements
  <2>2. CASE ~ (AllSat(task, Constraint, a) /\ Adopts(task, a, optimum))
    BY <1>1, <1>5, <2>2, PromiseIsFixed DEF Conflict, KeepResult, Abstract!avars
  <2> QED
    BY <2>1, <2>2
<1> QED
  BY <1>2, <1>4, <1>5

LEMMA ExhaustImplements ==
  ASSUME IInv, SoundSearch, Exhaust
  PROVE  Abstract!Finish
<1>1. /\ status = "running" /\ status' = "exhausted" /\ Candidates = {}
      /\ UNCHANGED <<method, task, satisfying_assignment>>
  BY DEF Exhaust
<1>2. ~ \E a \in Assignment :
        ImprovesBeyond(task, Respected, a, satisfying_assignment, Margin)
  BY <1>1 DEF IInv, LossWithinTolerance
<1>3. ~ (status \in {"stopped", "exhausted"})
  BY <1>1
<1>4. (status' \in {"stopped", "exhausted"}) = TRUE
  BY <1>1
<1> QED
  BY <1>1, <1>2, <1>3, <1>4, AbstractTask, AbstractImproves, PromiseIsFixed
  DEF Abstract!Finish

(* Both methods implement the abstract specification of a synthesis        *)
(* method: better and better solutions, and a best one at the end.  CEGIS  *)
(* does up to its tolerances, and unless the constraints are about other   *)
(* states than the objective.                                              *)
THEOREM Refinement == Spec /\ SoundSearch => RefinesSynthesis
<1>1. SoundSearch /\ [Next]_vars => SoundSearch'
  BY DEF SoundSearch, ConflictsSound, Next, vars, Visit, NotSupported, Analyze, Exhaust, Terminated
<1>2. IInv /\ SoundSearch /\ [Next]_vars => [Abstract!Next]_(Abstract!avars)
  <2> SUFFICES ASSUME IInv, SoundSearch, [Next]_vars
               PROVE  Abstract!Next \/ UNCHANGED Abstract!avars
    OBVIOUS
  <2>1. CASE Visit
    BY <2>1, VisitImplements DEF Abstract!Next
  <2>2. CASE NotSupported
    BY <2>2, PromiseIsFixed DEF NotSupported, Abstract!avars
  <2>3. CASE Analyze
    BY <2>3, AnalyzeImplements DEF Abstract!Next
  <2>4. CASE Exhaust
    BY <2>4, ExhaustImplements DEF Abstract!Next
  <2>5. CASE Terminated \/ UNCHANGED vars
    BY <2>5, PromiseIsFixed DEF Terminated, vars, Abstract!avars
  <2> QED
    BY <2>1, <2>2, <2>3, <2>4, <2>5 DEF Next
<1> QED
  BY Invariance, InitImplements, <1>1, <1>2, PTL DEF Spec, RefinesSynthesis, Abstract!Spec

=============================================================================
