--------------------------- MODULE HybridSynthesis ---------------------------
(***************************************************************************)
(* The hybrid method (SynthesizerHybrid.synthesize,                        *)
(* hypersynthesizers/hypersynthesizer.py): each family of the worklist is  *)
(* analysed as a whole; while it is undecided and time is left, its        *)
(* assignments are analysed one by one and excluded through the solver;    *)
(* then it is split.  The solver (sketch/holes.py) is shared by all the    *)
(* families: depth first, a stack of scopes follows the refinement depth;  *)
(* breadth first, all the clauses stay in one scope.                       *)
(***************************************************************************)
EXTENDS AssignmentAnalysis

CONSTANT Tasks   (* the tasks considered: TLC starts from each of them *)

ASSUME TasksAssumption == Tasks \subseteq Task

VARIABLES
  task,                   (* the problem and the command line, fixed       *)
  families,               (* the worklist                                  *)
  family,                 (* the undecided family, or None                 *)
  results,                (* the results of its constraints                *)
  scopes,                 (* the solver: the families each scope excludes  *)
  assignment,             (* the assignment picked, or None                *)
  analyzed,               (* history: the assignments analysed one by one  *)
  explored,               (* number of assignments in decided families     *)
  satisfying_assignment,  (* the result so far, or None                    *)
  optimum,                (* the optimum kept by the specification         *)
  status                  (* "ar", "cegis", or how the program ended       *)

vars == <<task, families, family, results, scopes, assignment, analyzed, explored,
          satisfying_assignment, optimum, status>>

Pending ==
  [family : Family, property_indices : SUBSET Constraint, refinement_depth : Nat]

ASSUME NoneAssumption == None \notin Pending

(* The variables range over families, clauses and results of the declared  *)
(* kinds, and the solver is at the depth of the family it serves: depth    *)
(* first, its pushes and pops (sat_level) leave one scope per refinement   *)
(* of the current family.                                                  *)
TypeOK ==
  /\ task \in Task
  /\ families \in Seq(Pending)
  /\ family \in Pending \cup {None}
  /\ results \in [Constraint -> Result]
  /\ scopes \in Seq(SUBSET Family)
  /\ assignment \in Assignment \cup {None}
  /\ analyzed \subseteq Assignment
  /\ explored \in Nat
  /\ satisfying_assignment \in Assignment \cup {None}
  /\ optimum \in Nat \cup {None}
  /\ status \in {"ar", "cegis", "stopped", "exhausted", "failed"}
  /\ family # None =>
       Len(scopes) = 1 + IF task.exploration_order_dfs THEN family.refinement_depth ELSE 0

-----------------------------------------------------------------------------
Unchecked == [c \in Constraint |-> "unchecked"]

Init ==
  /\ task \in Tasks
  /\ families = << [family |-> Options, property_indices |-> Constraint,
                    refinement_depth |-> 0] >>
  /\ family = None
  /\ results = Unchecked
  /\ scopes = << {} >>
  /\ assignment = None
  /\ analyzed = {}
  /\ explored = 0
  /\ satisfying_assignment = None
  /\ optimum = None
  /\ status = "ar"

(* families.pop(-1) or families.pop(0)                                     *)
PopIndex == IF task.exploration_order_dfs THEN Len(families) ELSE 1

Remaining ==
  IF task.exploration_order_dfs
  THEN SubSeq(families, 1, Len(families) - 1)
  ELSE Tail(families)

Popped == families[PopIndex]

(* sat_level: back to the scope of the parent, then a scope of its own.    *)
(* Mutants: no scope is popped; the solver starts afresh for each family.  *)
SatLevelPush(depth) == IF depth = 0 THEN scopes ELSE Append(scopes, {})

SatLevelReset(depth) == [i \in 1..(depth + 1) |-> {}]

SatLevel(depth) ==
  IF depth = 0 THEN scopes
  ELSE Append(SubSeq(scopes, 1, IF depth < Len(scopes) THEN depth ELSE Len(scopes)), {})

Adopt(a) ==
  IF a = None THEN UNCHANGED <<satisfying_assignment, optimum>>
  ELSE /\ satisfying_assignment' = a
       /\ optimum' = UpdatedOptimum(task, a, optimum)

(* analyze_family_ar: an assignment was found and one is enough.           *)
Stop(outcome) ==
  /\ outcome.assignment # None
  /\ ~ task.explore_all
  /\ status' = "stopped"
  /\ UNCHANGED <<family, results, explored>>

(* The family cannot improve on the result.                                *)
Decide(outcome) ==
  /\ outcome.assignment # None => task.explore_all
  /\ ~ outcome.can_improve
  /\ explored' = explored + Size(Popped.family)
  /\ UNCHANGED <<family, results, status>>

(* The family is undecided: its assignments are analysed next.             *)
StartCegis(outcome, checked) ==
  /\ outcome.assignment # None => task.explore_all
  /\ outcome.can_improve
  /\ family' = Popped
  /\ results' = checked
  /\ status' = "cegis"
  /\ UNCHANGED explored

AnalyzeFamily ==
  /\ status = "ar"
  /\ families # << >>
  /\ families' = Remaining
  /\ scopes' = IF task.exploration_order_dfs THEN SatLevel(Popped.refinement_depth) ELSE scopes
  /\ \E f \in Feasibilities(task, Popped.family, Popped.property_indices) :
       LET checked == CheckHyperConstraints(Popped.property_indices, f)
       IN  \E outcome \in Outcomes(task, Popped.family, checked, optimum) :
             /\ Adopt(outcome.assignment)
             /\ Stop(outcome) \/ Decide(outcome) \/ StartCegis(outcome, checked)
  /\ UNCHANGED <<task, assignment, analyzed>>

(* pick_assignment: a member of the family that no clause excludes.        *)
Available ==
  {a \in Members(family.family) :
     \A i \in DOMAIN scopes : \A F \in scopes[i] : a \notin Members(F)}

(* cegis_has_time: the timers decide, so time may run out at any test.     *)
Pick ==
  /\ status = "cegis"
  /\ assignment = None
  /\ assignment' \in Available
  /\ UNCHANGED <<task, families, family, results, scopes, analyzed, explored,
                 satisfying_assignment, optimum, status>>

(* What exclude_assignment adds to the solver's current scope.             *)
Exclude(excluded) ==
  scopes' = [scopes EXCEPT ![Len(scopes)] = @ \cup excluded]

(* A hyperproperty that the family's analysis found infeasible has no      *)
(* secondary result to take the bounds from.                               *)
NoSecondaryResult(a) ==
  \E g \in UnsatGroups(task, family.property_indices, a) :
    \E c \in OrGroup(g, family.property_indices) \cap HyperConstraint :
      results[c] = "False"

(* analyze_family_assignment_cegis raises.                                 *)
AssignmentRaises ==
  /\ status = "cegis"
  /\ assignment # None
  /\ task.objective = "sched_hyperoptimality" \/ NoSecondaryResult(assignment)

(* The assertion of scheduler_selection_quantitative_pctl fails.           *)
FamilyRaises ==
  /\ status = "ar"
  /\ families # << >>
  /\ \E f \in Feasibilities(task, Popped.family, Popped.property_indices) :
       NoHoleToScore(task, Popped.family,
                     CheckHyperConstraints(Popped.property_indices, f), optimum)

Raise ==
  /\ FamilyRaises \/ AssignmentRaises
  /\ status' = "failed"
  /\ UNCHANGED <<task, families, family, results, scopes, assignment, analyzed, explored,
                 satisfying_assignment, optimum>>

(* A solution, and there is no objective.                                  *)
(* Mutant: a solution is not excluded when the whole space is explored.    *)
SolutionKept ==
  /\ AllSat(task, family.property_indices, assignment)
  /\ task.objective = "none"
  /\ Adopt(assignment)
  /\ status' = IF task.explore_all THEN status ELSE "stopped"
  /\ UNCHANGED scopes

Solution ==
  /\ AllSat(task, family.property_indices, assignment)
  /\ task.objective = "none"
  /\ Adopt(assignment)
  /\ IF task.explore_all
     THEN Exclude({AsFamily(assignment)}) /\ UNCHANGED status
     ELSE status' = "stopped" /\ UNCHANGED scopes

Conflict ==
  LET sat == AllSat(task, family.property_indices, assignment)
  IN  /\ sat => task.objective # "none"
      /\ Adopt(IF sat /\ Adopts(task, assignment, optimum) THEN assignment ELSE None)
      /\ \E excluded \in Exclusions(task, family.family, family.property_indices,
                                    assignment, optimum') : Exclude(excluded)
      /\ UNCHANGED status

AnalyzeAssignment ==
  /\ status = "cegis"
  /\ assignment # None
  /\ ~ AssignmentRaises
  /\ Solution \/ Conflict
  /\ analyzed' = analyzed \cup {assignment}
  /\ assignment' = None
  /\ UNCHANGED <<task, families, family, results, explored>>

(* The solver has no assignment left for the family: explore(family).      *)
NoAssignments ==
  /\ status = "cegis"
  /\ assignment = None
  /\ Available = {}
  /\ explored' = explored + Size(family.family)
  /\ family' = None
  /\ results' = Unchecked
  /\ status' = "ar"
  /\ UNCHANGED <<task, families, scopes, assignment, analyzed,
                 satisfying_assignment, optimum>>

(* Time is up: the family is split.                                        *)
Subfamilies(split, undecided) ==
  [i \in 1..Len(split) |->
     [family |-> split[i], property_indices |-> undecided,
      refinement_depth |-> family.refinement_depth + 1]]

TimeOut ==
  /\ status = "cegis"
  /\ assignment = None
  /\ \E split \in Split(family.family, UndecidedConstraints(results)) :
       families' = families \o Subfamilies(split, UndecidedConstraints(results))
  /\ family' = None
  /\ results' = Unchecked
  /\ status' = "ar"
  /\ UNCHANGED <<task, scopes, assignment, analyzed, explored,
                 satisfying_assignment, optimum>>

(* The worklist is empty: synthesize returns.                              *)
Exhaust ==
  /\ status = "ar"
  /\ families = << >>
  /\ status' = "exhausted"
  /\ UNCHANGED <<task, families, family, results, scopes, assignment, analyzed, explored,
                 satisfying_assignment, optimum>>

(* The program has ended.                                                  *)
Terminated == status \in {"stopped", "exhausted", "failed"} /\ UNCHANGED vars

Step ==
  \/ AnalyzeFamily
  \/ Pick
  \/ Raise
  \/ AnalyzeAssignment
  \/ NoAssignments
  \/ TimeOut
  \/ Exhaust

Next == Step \/ Terminated

Spec == Init /\ [][Next]_vars

(* The loops run on their own: nothing else has to happen for a next step. *)
FairSpec == Spec /\ WF_vars(Step)

-----------------------------------------------------------------------------
(***************************************************************************)
(* Properties.                                                             *)
(***************************************************************************)

(* Will the search still come to this assignment?  It is in a pending      *)
(* family or in the current one, and no clause of any scope excludes it.   *)
StillConsidered(a) ==
  /\ \/ \E i \in DOMAIN families : a \in Members(families[i].family)
     \/ family # None /\ a \in Members(family.family)
  /\ \A i \in DOMAIN scopes : \A F \in scopes[i] : a \notin Members(F)

(* Every assignment that would improve on the result is still considered:  *)
(* clauses hold beyond the family, the bounds and the optimum they were    *)
(* drawn from (exclude_assignment, sat_level, the splits).                 *)
NoSolutionLost ==
  status # "failed" =>
    \A a \in Assignment :
      ImprovesResult(task, a, satisfying_assignment) => StillConsidered(a)

(* Whatever the tolerances, an assignment is only lost if it is not better *)
(* than the result by more than the larger of the two comparisons', or     *)
(* does not satisfy the specification by more than the generator's         *)
(* (Counterexample.cpp against property.py).                               *)
LossWithinTolerance ==
  status # "failed" =>
    \A a \in Assignment :
      ImprovesBeyond(task, ClearlySat(task), a, satisfying_assignment, Tolerance(task)) =>
        StillConsidered(a)

(* No assignment is analysed twice: a clause stays in force until its      *)
(* family is done, although its scope is popped with it (sat_level).       *)
NoRepeatedAnalysis ==
  assignment # None => assignment \notin analyzed

(* A disjunction may be analysed whatever its disjuncts' results are:      *)
(* conjunctions of disjunctions are the supported form                     *)
(* (hypersketch/hyperparser.py).                                           *)
DisjunctionsSupported ==
  status = "failed" => task.objective # "none"

(* The loops terminate, whenever the timers give up on a family.           *)
Terminates == <>(status \in {"stopped", "exhausted", "failed"})

(* The abstract specification: better and better solutions, and a best one *)
(* at the end, up to the tolerances of the conflicts.                      *)
Abstract == INSTANCE Synthesis WITH
  respected <- ClearlySat(task),
  margin    <- Tolerance(task),
  finished  <- status \in {"stopped", "exhausted"}
RefinesSynthesis == Abstract!Spec

=============================================================================
