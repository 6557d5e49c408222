----------------------------- MODULE ARSynthesis -----------------------------
(***************************************************************************)
(* Abstraction refinement (HyperSynthesizerAR.synthesize and               *)
(* analyze_family_ar, hypersynthesizers/hypersynthesizer.py): a worklist   *)
(* of families, each analysed as a whole and then decided or split.  One   *)
(* step is one iteration of the loop.                                      *)
(***************************************************************************)
EXTENDS FamilyAnalysis

CONSTANT Tasks   (* the tasks considered: TLC starts from each of them *)

ASSUME TasksAssumption == Tasks \subseteq Task

VARIABLES
  task,                   (* the problem and the command line, fixed       *)
  families,               (* the worklist                                  *)
  explored,               (* number of assignments in decided families     *)
  satisfying_assignment,  (* the result so far, or None                    *)
  optimum,                (* the optimum kept by the specification         *)
  status                  (* "running", "stopped", "exhausted", "failed"   *)

vars == <<task, families, explored, satisfying_assignment, optimum, status>>

Status == {"running", "stopped", "exhausted", "failed"}

(* A pending family and the constraints to investigate in it.              *)
Pending == [family : Family, property_indices : SUBSET Constraint]

(* The variables range over families of the design space, their pending    *)
(* constraints, and results of the declared kinds; in particular no split  *)
(* leaves a hole of a pending family without options (assume_hole_options).*)
TypeOK ==
  /\ task \in Task
  /\ families \in Seq(Pending)
  /\ explored \in Nat
  /\ satisfying_assignment \in Assignment \cup {None}
  /\ optimum \in Nat \cup {None}
  /\ status \in Status

-----------------------------------------------------------------------------
(* The whole design space, with all_constraint_indices to investigate.     *)
Init ==
  /\ task \in Tasks
  /\ families = << [family |-> Options, property_indices |-> Constraint] >>
  /\ explored = 0
  /\ satisfying_assignment = None
  /\ optimum = None
  /\ status = "running"

(* families.pop(-1) or families.pop(0)                                     *)
PopIndex == IF task.exploration_order_dfs THEN Len(families) ELSE 1

Remaining ==
  IF task.exploration_order_dfs
  THEN SubSeq(families, 1, Len(families) - 1)
  ELSE Tail(families)

Popped == families[PopIndex]

(* What check_hyperconstraints may return for the popped family.           *)
PossibleResults ==
  {CheckHyperConstraints(Popped.property_indices, f) :
     f \in Feasibilities(task, Popped.family, Popped.property_indices)}

(* The new satisfying assignment, and update_optimum(improving_value).     *)
Adopt(assignment) ==
  IF assignment = None THEN UNCHANGED <<satisfying_assignment, optimum>>
  ELSE /\ satisfying_assignment' = assignment
       /\ optimum' = IF task.objective = "none" THEN optimum ELSE task.val[assignment]

(* Mutant: stops at the first assignment although explore_all is set.      *)
StopAtFirst(outcome) ==
  /\ outcome.assignment # None
  /\ Adopt(outcome.assignment)
  /\ families' = Remaining
  /\ status' = "stopped"
  /\ UNCHANGED <<task, explored>>

(* An assignment was found and one is enough.                              *)
Stop(outcome) ==
  /\ outcome.assignment # None
  /\ ~ task.explore_all
  /\ Adopt(outcome.assignment)
  /\ families' = Remaining
  /\ status' = "stopped"
  /\ UNCHANGED <<task, explored>>

(* The family cannot improve on the result: explore(family).               *)
Decide(outcome) ==
  /\ outcome.assignment # None => task.explore_all
  /\ ~ outcome.can_improve
  /\ Adopt(outcome.assignment)
  /\ explored' = explored + Size(Popped.family)
  /\ families' = Remaining
  /\ UNCHANGED <<task, status>>

(* The subfamilies inherit the undecided constraints (collect_parent_info) *)
(* and go to the end of the worklist.                                      *)
Subfamilies(split, undecided) ==
  [i \in 1..Len(split) |-> [family |-> split[i], property_indices |-> undecided]]

Refine(results, outcome) ==
  /\ outcome.assignment # None => task.explore_all
  /\ outcome.can_improve
  /\ Adopt(outcome.assignment)
  /\ \E split \in Split(Popped.family, UndecidedConstraints(results)) :
       families' = Remaining \o Subfamilies(split, UndecidedConstraints(results))
  /\ UNCHANGED <<task, explored, status>>

Iterate ==
  /\ status = "running"
  /\ families # << >>
  /\ \E results \in PossibleResults :
       \E outcome \in Outcomes(task, Popped.family, results, optimum) :
         Stop(outcome) \/ Decide(outcome) \/ Refine(results, outcome)

(* The assertion of scheduler_selection_quantitative_pctl does not hold.   *)
Fail ==
  /\ status = "running"
  /\ families # << >>
  /\ \E results \in PossibleResults :
       NoHoleToScore(task, Popped.family, results, optimum)
  /\ status' = "failed"
  /\ UNCHANGED <<task, families, explored, satisfying_assignment, optimum>>

(* The worklist is empty: synthesize returns.                              *)
Exhaust ==
  /\ status = "running"
  /\ families = << >>
  /\ status' = "exhausted"
  /\ UNCHANGED <<task, families, explored, satisfying_assignment, optimum>>

(* The program has ended.                                                  *)
Terminated == status # "running" /\ UNCHANGED vars

Next == Iterate \/ Fail \/ Exhaust \/ Terminated

Spec == Init /\ [][Next]_vars

(* The loop runs on its own: nothing else has to happen for its next step. *)
FairSpec == Spec /\ WF_vars(Iterate \/ Fail \/ Exhaust)

-----------------------------------------------------------------------------
(***************************************************************************)
(* Properties.                                                             *)
(***************************************************************************)

(* Members of a pending family satisfy the whole specification exactly     *)
(* when they satisfy the constraints the family still investigates: the    *)
(* ones dropped by its ancestors no longer matter                          *)
(* (undecided_constraints, ParentInfo.property_indices).                   *)
InheritedIndicesSuffice ==
  \A i \in DOMAIN families :
    LET indices == families[i].property_indices
    IN  \A a \in Members(families[i].family) :
          SatisfiesSpec(task.sat, a) <=>
            \A g \in Group : OrGroup(g, indices) # {} =>
              \E c \in OrGroup(g, indices) : a \in task.sat[c]

(* The result satisfies every group of the specification, although most    *)
(* families are checked against a part of it, and the specification's      *)
(* optimum is the result's value (analyze_family_ar, update_optimum).      *)
ResultSatisfiesSpec ==
  satisfying_assignment # None =>
    /\ SatisfiesSpec(task.sat, satisfying_assignment)
    /\ task.objective # "none" => optimum = task.val[satisfying_assignment]

(* Every assignment that would improve on the result is in a pending       *)
(* family: neither a pruned family nor a split has lost it.                *)
NoSolutionLost ==
  \A a \in Assignment :
    ImprovesResult(task, a, satisfying_assignment) =>
      \E i \in DOMAIN families : a \in Members(families[i].family)

(* The pending families are disjoint, and with the explored assignments    *)
(* they add up to the design space (HyperSynthesizer.explore).             *)
ExploredAddsUp ==
  status # "stopped" =>
    /\ \A i, j \in DOMAIN families :
         i # j => Members(families[i].family) \cap Members(families[j].family) = {}
    /\ explored + Cardinality(UNION {Members(families[i].family) : i \in DOMAIN families})
         = Size(Options)

(* The optimum only ever improves (the assertion of update_optimum).       *)
OptimumImproves ==
  [][optimum' # optimum => optimum' # None /\ ImprovesOptimum(task, optimum', optimum)]_vars

(* The assertion of scheduler_selection_quantitative_pctl never fails.     *)
AssertionHolds == status # "failed"

(* The loop terminates.                                                    *)
Terminates == <>(status # "running")

(* The abstract specification, with the result and whether synthesize has  *)
(* returned read off the state; no tolerance is added to the comparison's. *)
Abstract == INSTANCE Synthesis WITH
  respected <- task.sat,
  margin    <- Precision(task),
  finished  <- status \in {"stopped", "exhausted"}
RefinesSynthesis == Abstract!Spec

=============================================================================
