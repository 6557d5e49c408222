------------------------- MODULE ARSynthesis_proofs -------------------------
(***************************************************************************)
(* Safety of abstraction refinement for every design space, specification  *)
(* and task: the inductive invariant of ARSynthesis and what follows.      *)
(***************************************************************************)
EXTENDS ARSynthesis, Analysis_proofs

(* The inductive invariant.  ResultSatisfiesSpec and NoSolutionLost need   *)
(* InheritedIndicesSuffice (a family is judged by its pending constraints  *)
(* only) and need to know that there is no optimum without a result.       *)
IInv ==
  /\ TypeOK
  /\ InheritedIndicesSuffice
  /\ ResultSatisfiesSpec
  /\ NoSolutionLost
  /\ satisfying_assignment = None => optimum = None

-----------------------------------------------------------------------------
(***************************************************************************)
(* The worklist.                                                           *)
(***************************************************************************)

LEMMA PopProperties ==
  ASSUME TypeOK, families # << >>
  PROVE  /\ PopIndex \in DOMAIN families
         /\ Popped \in Pending
         /\ Remaining \in Seq(Pending)
         /\ WithoutIndex(families, PopIndex, Remaining)
         /\ \A i \in DOMAIN Remaining : \E j \in DOMAIN families : Remaining[i] = families[j]
         /\ \A j \in DOMAIN families :
              families[j] = Popped \/ \E i \in DOMAIN Remaining : Remaining[i] = families[j]
<1>1. families \in Seq(Pending) /\ task.exploration_order_dfs \in BOOLEAN
  BY TaskType DEF TypeOK
<1>2. PICK k : k = PopIndex
  OBVIOUS
<1>3. PICK rest : rest = Remaining
  OBVIOUS
<1>4. \/ k = Len(families) /\ rest = SubSeq(families, 1, Len(families) - 1)
      \/ k = 1 /\ rest = Tail(families)
  BY <1>2, <1>3 DEF PopIndex, Remaining
<1>5. /\ k \in DOMAIN families
      /\ families[k] \in Pending
      /\ rest \in Seq(Pending)
      /\ WithoutIndex(families, k, rest)
  BY <1>1, <1>4, PopFromWorklist
<1> QED
  BY <1>2, <1>3, <1>5, WithoutIndexEntries DEF Popped

(* new holds the families of old and the subfamilies of a split.           *)
Pushed(old, split, U, new) ==
  /\ new \in Seq(Pending)
  /\ \A i \in DOMAIN new :
       \/ \E j \in DOMAIN old : new[i] = old[j]
       \/ \E j \in 1..Len(split) :
            new[i] = [family |-> split[j], property_indices |-> U]
  /\ \A j \in DOMAIN old : \E i \in DOMAIN new : new[i] = old[j]
  /\ \A j \in 1..Len(split) : \E i \in DOMAIN new :
       new[i] = [family |-> split[j], property_indices |-> U]

LEMMA PushProperties ==
  ASSUME NEW old \in Seq(Pending), NEW split \in Seq(Family), NEW U \in SUBSET Constraint,
         NEW new, new = old \o Subfamilies(split, U)
  PROVE  Pushed(old, split, U, new)
<1>1. PICK n \in Nat : n = Len(old)
  BY LenProperties
<1>2. PICK m \in Nat : m = Len(split)
  BY LenProperties
<1>3. PICK sub : sub = Subfamilies(split, U)
  OBVIOUS
<1>4. \A j \in 1..m : sub[j] = [family |-> split[j], property_indices |-> U]
  BY <1>2, <1>3 DEF Subfamilies
<1>5. sub \in Seq(Pending) /\ Len(sub) = m
  <2>1. \A j \in 1..m : split[j] \in Family
    BY <1>2, ElementOfSeq
  <2>2. sub \in [1..m -> Pending]
    BY <1>2, <1>3, <2>1 DEF Subfamilies, Pending
  <2> QED
    BY <2>2, FunctionIsSeq
<1>6. DOMAIN sub = 1..m
  BY <1>5, LenProperties
<1>7. /\ new \in Seq(Pending)
      /\ \A i \in DOMAIN new :
           \/ i \in DOMAIN old /\ new[i] = old[i]
           \/ i - n \in DOMAIN sub /\ new[i] = sub[i - n]
      /\ \A j \in DOMAIN old : j \in DOMAIN new /\ new[j] = old[j]
      /\ \A j \in DOMAIN sub : j + n \in DOMAIN new /\ new[j + n] = sub[j]
  BY <1>1, <1>3, <1>5, AppendToWorklist DEF Appended
<1>8. ASSUME NEW i \in DOMAIN new
      PROVE  \/ \E j \in DOMAIN old : new[i] = old[j]
             \/ \E j \in 1..m : new[i] = [family |-> split[j], property_indices |-> U]
  <2>1. CASE \E j \in DOMAIN old : new[i] = old[j]
    BY <2>1
  <2>2. CASE \E j \in DOMAIN sub : new[i] = sub[j]
    <3>1. PICK j \in 1..m : new[i] = sub[j]
      BY <1>6, <2>2
    <3> QED
      BY <1>4, <3>1
  <2> QED
    BY <1>7, <2>1, <2>2
<1>9. ASSUME NEW j \in 1..m
      PROVE  \E i \in DOMAIN new : new[i] = [family |-> split[j], property_indices |-> U]
  <2>1. PICK i \in DOMAIN new : new[i] = sub[j]
    BY <1>6, <1>7
  <2> QED
    BY <1>4, <2>1
<1> QED
  BY <1>2, <1>7, <1>8, <1>9 DEF Pushed

-----------------------------------------------------------------------------
(***************************************************************************)
(* The parts of the inductive invariant, over the pending families.        *)
(***************************************************************************)

LEMMA SufficeOfPending ==
  InheritedIndicesSuffice <=>
    \A i \in DOMAIN families :
      Suffices(task, families[i].family, families[i].property_indices)
BY DEF InheritedIndicesSuffice, Suffices

LEMMA OptimumOfResult ==
  ASSUME IInv
  PROVE  OptimumOf(task, optimum, satisfying_assignment)
BY DEF IInv, TypeOK, ResultSatisfiesSpec, OptimumOf

(* What an iteration gets from the analysis of the popped family.          *)
LEMMA AnalysisOfPopped ==
  ASSUME IInv, families # << >>,
         NEW results \in PossibleResults,
         NEW outcome \in Outcomes(task, Popped.family, results, optimum)
  PROVE  /\ Popped.family \in Family
         /\ SoundOutcome(task, Popped.family, optimum, satisfying_assignment, outcome)
         /\ outcome.can_improve =>
              Suffices(task, Popped.family, UndecidedConstraints(results))
<1>1. Popped.family \in Family /\ Popped.property_indices \in SUBSET Constraint
  BY PopProperties DEF Pending, IInv
<1>2. PICK f \in Feasibilities(task, Popped.family, Popped.property_indices) :
        results = CheckHyperConstraints(Popped.property_indices, f)
  BY DEF PossibleResults
<1>3. Suffices(task, Popped.family, Popped.property_indices)
  BY PopProperties, SufficeOfPending DEF IInv, Popped
<1>4. task \in Task /\ OptimumOf(task, optimum, satisfying_assignment)
  BY OptimumOfResult DEF IInv, TypeOK
<1>5. /\ SoundOutcome(task, Popped.family, optimum, satisfying_assignment, outcome)
      /\ outcome.can_improve => OverallFeasibility(results) # "False"
  BY <1>1, <1>2, <1>3, <1>4, OutcomeSound
<1>6. outcome.can_improve => Suffices(task, Popped.family, UndecidedConstraints(results))
  BY <1>1, <1>2, <1>3, <1>4, <1>5, UndecidedSuffice
<1> QED
  BY <1>1, <1>5, <1>6

(* Adopting the assignment of a sound outcome keeps the result right, and  *)
(* whatever improves on the new result improved on the old one.            *)
LEMMA AdoptSound ==
  ASSUME IInv, task' = task,
         NEW F \in Family, NEW outcome,
         SoundOutcome(task, F, optimum, satisfying_assignment, outcome),
         Adopt(outcome.assignment)
  PROVE  /\ satisfying_assignment' \in Assignment \cup {None}
         /\ optimum' \in Nat \cup {None}
         /\ ResultSatisfiesSpec'
         /\ (satisfying_assignment = None => optimum = None)'
         /\ satisfying_assignment' = IF outcome.assignment = None
                                     THEN satisfying_assignment ELSE outcome.assignment
         /\ optimum' # optimum => optimum' # None /\ ImprovesOptimum(task, optimum', optimum)
         /\ \A a \in Assignment :
              ImprovesResult(task, a, satisfying_assignment') =>
                ImprovesResult(task, a, satisfying_assignment)
<1>1. /\ task \in Task
      /\ optimum \in Nat \cup {None}
      /\ satisfying_assignment \in Assignment \cup {None}
      /\ OptimumOf(task, optimum, satisfying_assignment)
  BY OptimumOfResult DEF IInv, TypeOK
<1>2. CASE outcome.assignment = None
  BY <1>1, <1>2 DEF Adopt, IInv, ResultSatisfiesSpec
<1>3. CASE outcome.assignment # None
  <2>1. PICK x \in Assignment : x = outcome.assignment
    BY <1>3 DEF SoundOutcome
  <2>2. /\ x # None
        /\ SatisfiesSpec(task.sat, x)
        /\ task.objective # "none" => ImprovesOptimum(task, task.val[x], optimum)
        /\ satisfying_assignment' = x
        /\ optimum' = IF task.objective = "none" THEN optimum ELSE task.val[x]
    BY <1>3, <2>1 DEF SoundOutcome, Adopt
  <2>3. task.val[x] \in Nat /\ task.val[x] # None
    BY <1>1, TaskType, NoneIsNoAssignment
  <2>4. ResultSatisfiesSpec'
    BY <2>2 DEF ResultSatisfiesSpec
  <2>5. ASSUME NEW a \in Assignment, ImprovesResult(task, a, x)
        PROVE  ImprovesResult(task, a, satisfying_assignment)
    <3>1. /\ task.objective # "none"
          /\ SatisfiesSpec(task.sat, a)
          /\ ImprovesOptimum(task, task.val[a], task.val[x])
      BY <2>2, <2>5 DEF ImprovesResult
    <3>2. task.val[a] \in Nat
      BY <1>1, TaskType
    <3>3. ImprovesOptimum(task, task.val[a], optimum)
      BY <1>1, <2>2, <2>3, <3>1, <3>2, ImprovesTransitive
    <3> QED
      BY <1>1, <3>1, <3>3, ImprovesResultOptimum
  <2>6. optimum' # optimum => optimum' # None /\ ImprovesOptimum(task, optimum', optimum)
    BY <2>2, <2>3
  <2> QED
    BY <1>1, <1>3, <2>1, <2>2, <2>3, <2>4, <2>5, <2>6
<1> QED
  BY <1>2, <1>3

-----------------------------------------------------------------------------
(***************************************************************************)
(* The invariant is inductive.                                             *)
(***************************************************************************)

LEMMA InitInv == Init => IInv
<1> SUFFICES ASSUME Init
             PROVE  IInv
  OBVIOUS
<1>1. task \in Task
  BY TasksAssumption DEF Init
<1>2. /\ Options \in Family
      /\ Suffices(task, Options, Constraint)
      /\ Members(Options) = Assignment
  BY RootSuffices
<1>3. PICK root : root = [family |-> Options, property_indices |-> Constraint]
  OBVIOUS
<1>4. root \in Pending /\ root.family = Options /\ root.property_indices = Constraint
  BY <1>2, <1>3 DEF Pending
<1>5. families = << root >> /\ families \in Seq(Pending)
  BY <1>3, <1>4 DEF Init
<1>6. DOMAIN families = {1} /\ families[1] = root
  BY <1>5
<1>7. TypeOK
  BY <1>1, <1>5 DEF Init, TypeOK, Status
<1>8. InheritedIndicesSuffice
  BY <1>2, <1>4, <1>6, SufficeOfPending
<1>9. NoSolutionLost
  BY <1>2, <1>4, <1>6 DEF NoSolutionLost
<1> QED
  BY <1>7, <1>8, <1>9 DEF Init, IInv, ResultSatisfiesSpec

(* Removing the popped family keeps what holds of every pending family.    *)
LEMMA RemainingSuffice ==
  ASSUME IInv, families # << >>
  PROVE  \A i \in DOMAIN Remaining :
           Suffices(task, Remaining[i].family, Remaining[i].property_indices)
BY PopProperties, SufficeOfPending DEF IInv

LEMMA StopInv ==
  ASSUME IInv, families # << >>,
         NEW results \in PossibleResults,
         NEW outcome \in Outcomes(task, Popped.family, results, optimum),
         Stop(outcome)
  PROVE  IInv' /\ (optimum' # optimum => optimum' # None /\ ImprovesOptimum(task, optimum', optimum))
<1>1. /\ task' = task /\ explored' = explored
      /\ families' = Remaining
      /\ status' = "stopped"
      /\ Adopt(outcome.assignment)
      /\ outcome.assignment # None
      /\ ~ task.explore_all
  BY DEF Stop
<1>2. /\ Popped.family \in Family
      /\ SoundOutcome(task, Popped.family, optimum, satisfying_assignment, outcome)
  BY AnalysisOfPopped
<1>3. /\ satisfying_assignment' \in Assignment \cup {None}
      /\ optimum' \in Nat \cup {None}
      /\ ResultSatisfiesSpec'
      /\ (satisfying_assignment = None => optimum = None)'
      /\ satisfying_assignment' # None
      /\ optimum' # optimum => optimum' # None /\ ImprovesOptimum(task, optimum', optimum)
  BY <1>1, <1>2, AdoptSound
<1>4. TypeOK'
  BY <1>1, <1>3, PopProperties DEF IInv, TypeOK, Status
<1>5. InheritedIndicesSuffice'
  BY <1>1, RemainingSuffice DEF InheritedIndicesSuffice, Suffices
<1>6. NoSolutionLost'
  <2>1. task.objective = "none"
    BY <1>1, TaskType DEF IInv, TypeOK
  <2> QED
    BY <1>1, <1>3, <2>1 DEF NoSolutionLost, ImprovesResult
<1> QED
  BY <1>3, <1>4, <1>5, <1>6 DEF IInv

LEMMA DecideInv ==
  ASSUME IInv, families # << >>,
         NEW results \in PossibleResults,
         NEW outcome \in Outcomes(task, Popped.family, results, optimum),
         Decide(outcome)
  PROVE  IInv' /\ (optimum' # optimum => optimum' # None /\ ImprovesOptimum(task, optimum', optimum))
<1>1. /\ task' = task /\ status' = status
      /\ explored' = explored + Size(Popped.family)
      /\ families' = Remaining
      /\ Adopt(outcome.assignment)
      /\ ~ outcome.can_improve
  BY DEF Decide
<1>2. /\ Popped.family \in Family
      /\ SoundOutcome(task, Popped.family, optimum, satisfying_assignment, outcome)
  BY AnalysisOfPopped
<1>3. /\ satisfying_assignment' \in Assignment \cup {None}
      /\ optimum' \in Nat \cup {None}
      /\ ResultSatisfiesSpec'
      /\ (satisfying_assignment = None => optimum = None)'
      /\ satisfying_assignment' = IF outcome.assignment = None
                                  THEN satisfying_assignment ELSE outcome.assignment
      /\ optimum' # optimum => optimum' # None /\ ImprovesOptimum(task, optimum', optimum)
      /\ \A a \in Assignment :
           ImprovesResult(task, a, satisfying_assignment') =>
             ImprovesResult(task, a, satisfying_assignment)
  BY <1>1, <1>2, AdoptSound
<1>4. TypeOK'
  <2>1. explored' \in Nat
    BY <1>1, <1>2, FiniteMembers DEF IInv, TypeOK
  <2> QED
    BY <1>1, <1>3, <2>1, PopProperties DEF IInv, TypeOK
<1>5. InheritedIndicesSuffice'
  BY <1>1, RemainingSuffice DEF InheritedIndicesSuffice, Suffices
<1>6. NoSolutionLost'
  <2> SUFFICES ASSUME NEW a \in Assignment,
                      ImprovesResult(task, a, satisfying_assignment')
               PROVE  \E i \in DOMAIN Remaining : a \in Members(Remaining[i].family)
    BY <1>1 DEF NoSolutionLost
  <2>1. PICK j \in DOMAIN families : a \in Members(families[j].family)
    BY <1>3 DEF IInv, NoSolutionLost
  <2>2. a \notin Members(Popped.family)
    BY <1>1, <1>2, <1>3 DEF SoundOutcome
  <2>3. families[j] # Popped
    BY <2>1, <2>2
  <2>4. PICK i \in DOMAIN Remaining : Remaining[i] = families[j]
    BY <2>3, PopProperties DEF IInv
  <2> QED
    BY <2>1, <2>4
<1> QED
  BY <1>3, <1>4, <1>5, <1>6 DEF IInv

LEMMA RefineInv ==
  ASSUME IInv, families # << >>,
         NEW results \in PossibleResults,
         NEW outcome \in Outcomes(task, Popped.family, results, optimum),
         Refine(results, outcome)
  PROVE  IInv' /\ (optimum' # optimum => optimum' # None /\ ImprovesOptimum(task, optimum', optimum))
<1>1. PICK U : U = UndecidedConstraints(results)
  OBVIOUS
<1>2. U \in SUBSET Constraint
  BY <1>1 DEF UndecidedConstraints
<1>3. PICK split \in Split(Popped.family, U) : families' = Remaining \o Subfamilies(split, U)
  BY <1>1 DEF Refine
<1>4. /\ task' = task /\ status' = status /\ explored' = explored
      /\ Adopt(outcome.assignment)
      /\ outcome.can_improve
  BY DEF Refine
<1>5. /\ Popped.family \in Family
      /\ SoundOutcome(task, Popped.family, optimum, satisfying_assignment, outcome)
      /\ Suffices(task, Popped.family, U)
  BY <1>1, <1>4, AnalysisOfPopped
<1>6. /\ satisfying_assignment' \in Assignment \cup {None}
      /\ optimum' \in Nat \cup {None}
      /\ ResultSatisfiesSpec'
      /\ (satisfying_assignment = None => optimum = None)'
      /\ optimum' # optimum => optimum' # None /\ ImprovesOptimum(task, optimum', optimum)
      /\ \A a \in Assignment :
           ImprovesResult(task, a, satisfying_assignment') =>
             ImprovesResult(task, a, satisfying_assignment)
  BY <1>4, <1>5, AdoptSound
<1>7. /\ split \in Seq(Family)
      /\ \A a : a \in Members(Popped.family) <=>
                  \E j \in 1..Len(split) : a \in Members(split[j])
  BY <1>2, <1>3, <1>5, SplitPartitions DEF Partitions
<1>8. Remaining \in Seq(Pending)
  BY PopProperties DEF IInv
<1>9. Pushed(Remaining, split, U, families')
  BY <1>2, <1>3, <1>7, <1>8, PushProperties
<1>10. TypeOK'
  BY <1>4, <1>6, <1>9 DEF IInv, TypeOK, Pushed
<1>11. InheritedIndicesSuffice'
  <2>1. ASSUME NEW i \in DOMAIN families'
        PROVE  Suffices(task, families'[i].family, families'[i].property_indices)
    <3>1. CASE \E j \in DOMAIN Remaining : families'[i] = Remaining[j]
      BY <3>1, RemainingSuffice
    <3>2. ASSUME NEW j \in 1..Len(split),
                 families'[i] = [family |-> split[j], property_indices |-> U]
          PROVE  Suffices(task, families'[i].family, families'[i].property_indices)
      <4>1. Members(split[j]) \subseteq Members(Popped.family)
        BY <1>7
      <4>2. families'[i].family = split[j] /\ families'[i].property_indices = U
        BY <3>2
      <4> QED
        BY <1>5, <4>1, <4>2 DEF Suffices
    <3> QED
      BY <1>9, <3>1, <3>2 DEF Pushed
  <2> QED
    BY <1>4, <2>1 DEF InheritedIndicesSuffice, Suffices
<1>12. NoSolutionLost'
  <2> SUFFICES ASSUME NEW a \in Assignment,
                      ImprovesResult(task, a, satisfying_assignment')
               PROVE  \E i \in DOMAIN families' : a \in Members(families'[i].family)
    BY <1>4 DEF NoSolutionLost
  <2>1. PICK j \in DOMAIN families : a \in Members(families[j].family)
    BY <1>6 DEF IInv, NoSolutionLost
  <2>2. CASE families[j] = Popped
    <3>1. PICK k \in 1..Len(split) : a \in Members(split[k])
      BY <1>7, <2>1, <2>2
    <3>2. PICK i \in DOMAIN families' :
            families'[i] = [family |-> split[k], property_indices |-> U]
      BY <1>9 DEF Pushed
    <3>3. families'[i].family = split[k]
      BY <3>2
    <3> QED
      BY <3>1, <3>3
  <2>3. CASE families[j] # Popped
    <3>1. PICK k \in DOMAIN Remaining : Remaining[k] = families[j]
      BY <2>3, PopProperties DEF IInv
    <3>2. PICK i \in DOMAIN families' : families'[i] = Remaining[k]
      BY <1>9 DEF Pushed
    <3> QED
      BY <2>1, <3>1, <3>2
  <2> QED
    BY <2>2, <2>3
<1> QED
  BY <1>6, <1>10, <1>11, <1>12 DEF IInv

(* The steps that leave the search state alone.                            *)
LEMMA UnchangedInv ==
  ASSUME IInv, UNCHANGED <<task, families, explored, satisfying_assignment, optimum>>,
         status' \in Status
  PROVE  IInv'
<1>1. TypeOK'
  BY DEF IInv, TypeOK
<1>2. InheritedIndicesSuffice' /\ ResultSatisfiesSpec' /\ NoSolutionLost'
  BY DEF IInv, InheritedIndicesSuffice, ResultSatisfiesSpec, NoSolutionLost
<1> QED
  BY <1>1, <1>2 DEF IInv

LEMMA NextInv == IInv /\ [Next]_vars =>
  IInv' /\ (optimum' # optimum => optimum' # None /\ ImprovesOptimum(task, optimum', optimum))
<1> SUFFICES ASSUME IInv, [Next]_vars
             PROVE  /\ IInv'
                    /\ optimum' # optimum =>
                         optimum' # None /\ ImprovesOptimum(task, optimum', optimum)
  OBVIOUS
<1>1. CASE Iterate
  <2>1. families # << >>
    BY <1>1 DEF Iterate
  <2>2. PICK results \in PossibleResults :
          \E outcome \in Outcomes(task, Popped.family, results, optimum) :
            Stop(outcome) \/ Decide(outcome) \/ Refine(results, outcome)
    BY <1>1 DEF Iterate
  <2>3. PICK outcome \in Outcomes(task, Popped.family, results, optimum) :
          Stop(outcome) \/ Decide(outcome) \/ Refine(results, outcome)
    BY <2>2
  <2>4. CASE Stop(outcome)
    BY <2>1, <2>4, StopInv
  <2>5. CASE Decide(outcome)
    BY <2>1, <2>5, DecideInv
  <2>6. CASE Refine(results, outcome)
    BY <2>1, <2>6, RefineInv
  <2> QED
    BY <2>3, <2>4, <2>5, <2>6
<1>2. CASE Fail
  <2>1. status' \in Status
    BY <1>2 DEF Fail, Status
  <2> QED
    BY <1>2, <2>1, UnchangedInv DEF Fail
<1>3. CASE Exhaust
  <2>1. status' \in Status
    BY <1>3 DEF Exhaust, Status
  <2> QED
    BY <1>3, <2>1, UnchangedInv DEF Exhaust
<1>4. CASE Terminated \/ UNCHANGED vars
  <2>1. UNCHANGED vars /\ status' \in Status
    BY <1>4 DEF Terminated, vars, IInv, TypeOK
  <2> QED
    BY <2>1, UnchangedInv DEF vars
<1> QED
  BY <1>1, <1>2, <1>3, <1>4 DEF Next

-----------------------------------------------------------------------------
(***************************************************************************)
(* What is proved of every behaviour.                                      *)
(***************************************************************************)

(* The inductive invariant holds of every reachable state.                 *)
THEOREM Invariance == Spec => []IInv
<1>1. IInv /\ [Next]_vars => IInv'
  BY NextInv
<1> QED
  BY InitInv, <1>1, PTL DEF Spec

(* The worklist holds families of the design space only, and every counter *)
(* and result stays in its range.                                          *)
THEOREM TypeCorrect == Spec => []TypeOK
<1>1. IInv => TypeOK
  BY DEF IInv
<1> QED
  BY Invariance, <1>1, PTL

(* The constraints a family inherits decide the whole specification for    *)
(* its members (undecided_constraints, collect_parent_info).               *)
THEOREM InheritanceCorrect == Spec => []InheritedIndicesSuffice
<1>1. IInv => InheritedIndicesSuffice
  BY DEF IInv
<1> QED
  BY Invariance, <1>1, PTL

(* The assignment adopted by analyze_family_ar satisfies the specification *)
(* and its value is the specification's optimum.                           *)
THEOREM ResultCorrect == Spec => []ResultSatisfiesSpec
<1>1. IInv => ResultSatisfiesSpec
  BY DEF IInv
<1> QED
  BY Invariance, <1>1, PTL

(* The search is complete: pruning and splitting never lose an assignment  *)
(* that improves on the result.                                            *)
THEOREM SearchComplete == Spec => []NoSolutionLost
<1>1. IInv => NoSolutionLost
  BY DEF IInv
<1> QED
  BY Invariance, <1>1, PTL

(* The assertion of update_optimum never fails.                            *)
THEOREM OptimumMonotone == Spec => OptimumImproves
<1>1. IInv /\ [Next]_vars =>
        [optimum' # optimum => optimum' # None /\ ImprovesOptimum(task, optimum', optimum)]_vars
  BY NextInv
<1> QED
  BY Invariance, <1>1, PTL DEF Spec, OptimumImproves

-----------------------------------------------------------------------------
(***************************************************************************)
(* The count of the explored assignments.                                  *)
(***************************************************************************)

LEMMA AddsUpOfPool ==
  ExploredAddsUp <=>
    (status # "stopped" =>
       Disjoint(families) /\ explored + Cardinality(Pool(families)) = Size(Options))
BY DEF ExploredAddsUp, Disjoint, Pool

LEMMA FinitePool ==
  ASSUME NEW q \in Seq(Pending)
  PROVE  IsFiniteSet(Pool(q)) /\ Cardinality(Pool(q)) \in Nat
<1>1. \A i \in DOMAIN q : q[i].family \in Family
  <2>1. \A i \in DOMAIN q : q[i] \in Pending
    BY LenProperties, ElementOfSeq
  <2> QED
    BY <2>1 DEF Pending
<1>2. Pool(q) \in SUBSET Members(Options)
  BY <1>1, MembersAreAssignments DEF Pool, Assignment, Members
<1>3. Options \in Family
  BY OptionsAssumption DEF Family
<1> QED
  BY <1>2, <1>3, FiniteMembers, FS_Subset, FS_CardinalityType

LEMMA InitAddsUp == Init => ExploredAddsUp
<1> SUFFICES ASSUME Init
             PROVE  ExploredAddsUp
  OBVIOUS
<1>1. PICK root : root = [family |-> Options, property_indices |-> Constraint]
  OBVIOUS
<1>2. families = << root >> /\ root.family = Options /\ explored = 0
  BY <1>1 DEF Init
<1>3. DOMAIN families = {1} /\ families[1] = root
  BY <1>2
<1>4. Pool(families) = Members(Options) /\ Disjoint(families)
  BY <1>2, <1>3 DEF Pool, Disjoint
<1>5. Size(Options) \in Nat
  BY OptionsAssumption, FiniteMembers DEF Family
<1> QED
  BY <1>2, <1>4, <1>5, AddsUpOfPool DEF Size

LEMMA DecideAddsUp ==
  ASSUME TypeOK, families # << >>, status = "running", ExploredAddsUp,
         NEW outcome, Decide(outcome)
  PROVE  ExploredAddsUp'
<1>1. /\ explored' = explored + Size(Popped.family)
      /\ families' = Remaining
  BY DEF Decide
<1>2. /\ Disjoint(families)
      /\ explored + Cardinality(Pool(families)) = Size(Options)
  BY AddsUpOfPool
<1>3. Popped \in Pending /\ Remaining \in Seq(Pending) /\ families \in Seq(Pending)
  BY PopProperties DEF TypeOK
<1>4. PICK F \in Family : F = Popped.family
  BY <1>3 DEF Pending
<1>5. /\ Pool(families) = Members(F) \cup Pool(Remaining)
      /\ Disjoint(Remaining)
      /\ Members(F) \cap Pool(Remaining) = {}
  <2>1. PopIndex \in DOMAIN families /\ WithoutIndex(families, PopIndex, Remaining)
    BY PopProperties
  <2> QED
    BY <1>2, <1>4, <2>1, PoolOfRest DEF Popped
<1>6. /\ IsFiniteSet(Members(F)) /\ Size(F) \in Nat
      /\ IsFiniteSet(Pool(Remaining)) /\ Cardinality(Pool(Remaining)) \in Nat
  BY <1>3, FiniteMembers, FinitePool
<1>7. Cardinality(Pool(families)) = Size(F) + Cardinality(Pool(Remaining))
  <2>1. Cardinality(Pool(families)) = Cardinality(Members(F)) + Cardinality(Pool(Remaining))
                                        - Cardinality({})
    BY <1>5, <1>6, FS_Union
  <2> QED
    BY <1>6, <2>1, FS_EmptySet DEF Size
<1>8. explored' + Cardinality(Pool(Remaining)) = Size(Options)
  BY <1>1, <1>2, <1>4, <1>6, <1>7 DEF TypeOK
<1> QED
  BY <1>1, <1>5, <1>8 DEF ExploredAddsUp, Disjoint, Pool

LEMMA RefineAddsUp ==
  ASSUME TypeOK, families # << >>, status = "running", ExploredAddsUp,
         NEW results, NEW outcome, Refine(results, outcome)
  PROVE  ExploredAddsUp'
<1>1. PICK U \in SUBSET Constraint : U = UndecidedConstraints(results)
  BY DEF UndecidedConstraints
<1>2. PICK s \in Split(Popped.family, U) : families' = Remaining \o Subfamilies(s, U)
  BY <1>1 DEF Refine
<1>3. /\ Disjoint(families)
      /\ explored + Cardinality(Pool(families)) = Size(Options)
      /\ explored' = explored
  BY AddsUpOfPool DEF Refine
<1>4. Popped \in Pending /\ Remaining \in Seq(Pending)
  BY PopProperties DEF TypeOK
<1>5. PICK F \in Family : F = Popped.family
  BY <1>4 DEF Pending
<1>6. Partitions(s, F)
  BY <1>2, <1>5, SplitPartitions
<1>7. PICK sub : sub = Subfamilies(s, U)
  OBVIOUS
<1>8. /\ sub \in Seq(Pending)
      /\ HaveFamilies(sub, s)
  <2>1. Len(s) \in Nat /\ \A j \in 1..Len(s) : s[j] \in Family
    BY <1>6, LenProperties, ElementOfSeq DEF Partitions
  <2>2. sub \in [1..Len(s) -> Pending]
    BY <1>7, <2>1 DEF Subfamilies, Pending
  <2> QED
    BY <1>7, <2>1, <2>2, FunctionIsSeq DEF Subfamilies, HaveFamilies
<1>9. PICK new : new = Remaining \o sub /\ new = families'
  BY <1>2, <1>7
<1>10. /\ Pool(families) = Members(F) \cup Pool(Remaining)
       /\ Disjoint(Remaining)
       /\ Members(F) \cap Pool(Remaining) = {}
  <2>1. PopIndex \in DOMAIN families /\ WithoutIndex(families, PopIndex, Remaining)
    BY PopProperties
  <2> QED
    BY <1>3, <1>5, <2>1, PoolOfRest DEF Popped
<1>11. /\ Pool(new) = Pool(Remaining) \cup Members(F)
       /\ Disjoint(Remaining) /\ Members(F) \cap Pool(Remaining) = {} => Disjoint(new)
  <2>1. Appended(Remaining, sub, new)
    BY <1>4, <1>8, <1>9, AppendToWorklist
  <2> QED
    BY <1>6, <1>8, <2>1, PoolOfAppended
<1>12. Pool(new) = Pool(families) /\ Disjoint(new)
  BY <1>10, <1>11
<1> QED
  BY <1>3, <1>9, <1>12 DEF ExploredAddsUp, Disjoint, Pool

(* The progress that explore() reports is right: the pending families are  *)
(* disjoint, and with the explored assignments they add up to the design   *)
(* space, whatever is pruned and however it is split.                      *)
THEOREM ExploredCorrect == Spec => []ExploredAddsUp
<1>1. IInv /\ ExploredAddsUp /\ [Next]_vars => ExploredAddsUp'
  <2> SUFFICES ASSUME IInv, ExploredAddsUp, [Next]_vars
               PROVE  ExploredAddsUp'
    OBVIOUS
  <2>1. CASE Iterate
    <3>1. PICK results \in PossibleResults :
            \E outcome \in Outcomes(task, Popped.family, results, optimum) :
              Stop(outcome) \/ Decide(outcome) \/ Refine(results, outcome)
      BY <2>1 DEF Iterate
    <3>2. PICK outcome \in Outcomes(task, Popped.family, results, optimum) :
            Stop(outcome) \/ Decide(outcome) \/ Refine(results, outcome)
      BY <3>1
    <3>3. status = "running" /\ families # << >> /\ TypeOK
      BY <2>1 DEF Iterate, IInv
    <3>4. CASE Stop(outcome)
      BY <3>4 DEF Stop, ExploredAddsUp
    <3>5. CASE Decide(outcome)
      BY <3>3, <3>5, DecideAddsUp
    <3>6. CASE Refine(results, outcome)
      BY <3>3, <3>6, RefineAddsUp
    <3> QED
      BY <3>2, <3>4, <3>5, <3>6
  <2>2. CASE Fail
    BY <2>2 DEF Fail, ExploredAddsUp
  <2>3. CASE Exhaust
    BY <2>3 DEF Exhaust, ExploredAddsUp
  <2>4. CASE Terminated \/ UNCHANGED vars
    BY <2>4 DEF Terminated, vars, ExploredAddsUp
  <2> QED
    BY <2>1, <2>2, <2>3, <2>4 DEF Next
<1> QED
  BY Invariance, InitAddsUp, <1>1, PTL DEF Spec

-----------------------------------------------------------------------------
(***************************************************************************)
(* Refinement: abstraction refinement keeps the promise of every method.   *)
(***************************************************************************)

(* The abstract specification reads the task as the concrete one does.     *)
LEMMA AbstractImproves ==
  ASSUME NEW t, NEW a, NEW result
  PROVE  /\ Abstract!SatisfiesSpec(t.sat, a) <=> SatisfiesSpec(t.sat, a)
         /\ Abstract!ImprovesResult(t, a, result) <=> ImprovesResult(t, a, result)
         /\ \A sat, margin : Abstract!ImprovesBeyond(t, sat, a, result, margin)
                              <=> ImprovesBeyond(t, sat, a, result, margin)
BY DEF Abstract!SatisfiesSpec, Abstract!SatisfiesGroup, Abstract!ImprovesResult,
       Abstract!ImprovesOptimum, Abstract!Better, Abstract!Precision, Abstract!Group,
       Abstract!ImprovesBeyond, SatisfiesSpec, SatisfiesGroup, ImprovesResult,
       ImprovesOptimum, ImprovesBeyond, Better, Precision, Group

LEMMA AbstractCardinality ==
  ASSUME NEW S
  PROVE  Abstract!Cardinality(S) = Cardinality(S)
BY DEF Abstract!Cardinality, Cardinality

LEMMA AbstractDifference ==
  ASSUME NEW a, NEW minimizing
  PROVE  Abstract!DifferenceOf(a, minimizing) = DifferenceOf(a, minimizing)
<1>1. PICK F : F = AsFamily(a)
  OBVIOUS
<1>2. Abstract!AsFamily(a) = F
  BY <1>1 DEF Abstract!AsFamily, AsFamily
<1>3. ASSUME NEW m \in Matching
      PROVE  Abstract!Differing(F, m, minimizing) <=> Differing(F, m, minimizing)
  BY AbstractCardinality, Zenon DEF Abstract!Differing, Differing
<1>4. {m \in Matching : Abstract!Differing(F, m, minimizing)}
        = {m \in Matching : Differing(F, m, minimizing)}
  BY <1>3
<1>5. Abstract!SchedulerDifference(F, minimizing) = SchedulerDifference(F, minimizing)
  BY <1>4, AbstractCardinality, Zenon DEF Abstract!SchedulerDifference, Abstract!AtLeastOne,
              SchedulerDifference, AtLeastOne
<1> QED
  BY <1>1, <1>2, <1>5 DEF Abstract!DifferenceOf, DifferenceOf

LEMMA AbstractTask ==
  Abstract!Assignment = Assignment /\ Abstract!Task = Task
<1>1. Abstract!Assignment = Assignment
  BY DEF Abstract!Assignment, Assignment
<1> QED
  BY <1>1, AbstractDifference
  DEF Abstract!Task, Abstract!Objective, Abstract!AgreeOn, Task, Objective, AgreeOn

(* What the method promises depends on the task alone.                     *)
LEMMA PromiseIsFixed ==
  ASSUME task' = task
  PROVE  UNCHANGED <<task.sat, Precision(task)>>
BY DEF Precision

LEMMA PromiseType ==
  ASSUME task \in Task
  PROVE  /\ task.sat \in [Constraint -> SUBSET Assignment]
         /\ \A c \in Constraint : task.sat[c] \subseteq task.sat[c]
         /\ Precision(task) \in Nat /\ Precision(task) >= Precision(task)
<1>1. task.sat \in [Constraint -> SUBSET Assignment]
  BY DEF Task
<1>2. Precision(task) \in Nat /\ Precision(task) >= Precision(task)
  BY TaskType
<1> QED
  BY <1>1, <1>2

LEMMA InitImplements == Init => Abstract!Init
<1> SUFFICES ASSUME Init
             PROVE  Abstract!Init
  OBVIOUS
<1>1. task \in Task
  BY TasksAssumption DEF Init
<1>2. Abstract!Precision(task) = Precision(task)
  BY DEF Abstract!Precision, Precision
<1> QED
  BY <1>1, <1>2, PromiseType, AbstractTask DEF Init, Abstract!Init

(* Adopting the assignment of a sound outcome is a step of the abstract    *)
(* specification, whether or not the search stops with it.                 *)
LEMMA AdoptImplements ==
  ASSUME IInv, task' = task, status = "running",
         NEW F \in Family, NEW outcome,
         SoundOutcome(task, F, optimum, satisfying_assignment, outcome),
         Adopt(outcome.assignment), outcome.assignment # None,
         \/ status' = "running"
         \/ status' = "stopped" /\ ~ task.explore_all
  PROVE  Abstract!Adopt
<1>1. PICK x \in Assignment : x = outcome.assignment
  BY DEF SoundOutcome
<1>2. /\ SatisfiesSpec(task.sat, x)
      /\ task.objective # "none" => ImprovesOptimum(task, task.val[x], optimum)
      /\ satisfying_assignment' = x
  BY <1>1 DEF SoundOutcome, Adopt
<1>3. task.objective = "none" \/ ImprovesResult(task, x, satisfying_assignment)
  BY <1>2, OptimumOfResult, ImprovesResultOptimum DEF IInv, TypeOK
<1>4. ~ (status \in {"stopped", "exhausted"})
  OBVIOUS
<1>5. (status' \in {"stopped", "exhausted"}) \in {FALSE, ~ task.explore_all}
  <2>1. CASE status' = "running"
    <3>1. (status' \in {"stopped", "exhausted"}) = FALSE
      BY <2>1
    <3> QED
      BY <3>1
  <2>2. CASE status' = "stopped" /\ ~ task.explore_all
    <3>1. (status' \in {"stopped", "exhausted"}) = TRUE /\ (~ task.explore_all) = TRUE
      BY <2>2
    <3> QED
      BY <3>1
  <2> QED
    BY <2>1, <2>2
<1> QED
  BY <1>1, <1>2, <1>3, <1>4, <1>5, AbstractTask, AbstractImproves DEF Abstract!Adopt

LEMMA IterateImplements ==
  ASSUME IInv, Iterate
  PROVE  Abstract!Adopt \/ UNCHANGED Abstract!avars
<1>1. status = "running" /\ families # << >>
  BY DEF Iterate
<1>2. PICK results \in PossibleResults :
        \E outcome \in Outcomes(task, Popped.family, results, optimum) :
          Stop(outcome) \/ Decide(outcome) \/ Refine(results, outcome)
  BY DEF Iterate
<1>3. PICK outcome \in Outcomes(task, Popped.family, results, optimum) :
        Stop(outcome) \/ Decide(outcome) \/ Refine(results, outcome)
  BY <1>2
<1>4. /\ Popped.family \in Family
      /\ SoundOutcome(task, Popped.family, optimum, satisfying_assignment, outcome)
  BY <1>1, AnalysisOfPopped
<1>5. /\ task' = task /\ Adopt(outcome.assignment)
      /\ \/ status' = status
         \/ status' = "stopped" /\ ~ task.explore_all /\ outcome.assignment # None
  BY <1>3 DEF Stop, Decide, Refine
<1>6. CASE outcome.assignment = None
  BY <1>5, <1>6 DEF Adopt, Abstract!avars
<1>7. CASE outcome.assignment # None
  BY <1>1, <1>4, <1>5, <1>7, AdoptImplements
<1> QED
  BY <1>6, <1>7

(* With an empty worklist nothing is left that would improve on the result.*)
LEMMA ExhaustImplements ==
  ASSUME IInv, Exhaust
  PROVE  Abstract!Finish
<1>1. /\ status = "running" /\ status' = "exhausted" /\ families = << >>
      /\ UNCHANGED <<task, satisfying_assignment>>
  BY DEF Exhaust
<1>2. ~ \E a \in Assignment :
        ImprovesBeyond(task, task.sat, a, satisfying_assignment, Precision(task))
  BY <1>1, ImprovesBeyondPrecision DEF IInv, TypeOK, NoSolutionLost
<1>3. ~ (status \in {"stopped", "exhausted"})
  BY <1>1
<1>4. (status' \in {"stopped", "exhausted"}) = TRUE
  BY <1>1
<1> QED
  BY <1>1, <1>2, <1>3, <1>4, AbstractTask, AbstractImproves, PromiseIsFixed
  DEF Abstract!Finish

(* Abstraction refinement implements the abstract specification of a       *)
(* synthesis method: it adopts better and better solutions only, and       *)
(* returns with a best one, or with a first one if it may stop there.      *)
THEOREM Refinement == Spec => RefinesSynthesis
<1>1. IInv /\ [Next]_vars => [Abstract!Next]_(Abstract!avars)
  <2> SUFFICES ASSUME IInv, [Next]_vars
               PROVE  Abstract!Next \/ UNCHANGED Abstract!avars
    OBVIOUS
  <2>1. CASE Iterate
    BY <2>1, IterateImplements DEF Abstract!Next
  <2>2. CASE Fail
    BY <2>2 DEF Fail, Abstract!avars
  <2>3. CASE Exhaust
    BY <2>3, ExhaustImplements DEF Abstract!Next
  <2>4. CASE Terminated \/ UNCHANGED vars
    BY <2>4 DEF Terminated, vars, Abstract!avars
  <2> QED
    BY <2>1, <2>2, <2>3, <2>4 DEF Next
<1> QED
  BY Invariance, InitImplements, <1>1, PTL DEF Spec, RefinesSynthesis, Abstract!Spec

=============================================================================
