-------------------------- MODULE AssignmentAnalysis --------------------------
(***************************************************************************)
(* What the analysis of one assignment may answer, and what it excludes    *)
(* from the search: analyze_family_assignment_cegis                        *)
(* (hypersynthesizers/hypersynthesizer.py), the counterexample generator   *)
(* (storm-synthesis/synthesis/Counterexample.cpp) and exclude_assignment   *)
(* (sketch/holes.py).                                                      *)
(*                                                                         *)
(* A counterexample is a set of critical holes.  Which one is found        *)
(* depends on the probabilities; whichever it is, the bounds of the other  *)
(* holes make every completion of it violate the property too, by the      *)
(* generator's own comparison: for a strict constraint this asks for more  *)
(* than exp(-5), where the specification is content with 1e-4.             *)
(***************************************************************************)
EXTENDS FamilyAnalysis

CONSTANTS
  conflict_precision,  (* the generator ignores differences up to this     *)
  SingleState,         (* every constraint is about the objective's state  *)
  StrictConstraint,    (* the constraints that compare with < or >         *)
  Narrow               (* the assignments whose values for each of these   *)
                       (* differ by no more than the generator's tolerance *)

ASSUME ConflictAssumption ==
  /\ conflict_precision \in Nat
  /\ SingleState \in BOOLEAN
  /\ StrictConstraint \subseteq Constraint
  /\ Narrow \in [StrictConstraint -> SUBSET Assignment]

(* HyperConstraintsResult: the groups none of whose investigated members   *)
(* holds of a, and all_sat.                                                *)
UnsatGroups(t, indices, a) ==
  {g \in Group : /\ OrGroup(g, indices) # {}
                 /\ \A c \in OrGroup(g, indices) : a \notin t.sat[c]}

AllSat(t, indices, a) == UnsatGroups(t, indices, a) = {}

(* exclude_assignment: the critical holes keep the options of a, the other *)
(* ones range over the family.  The clause excludes this subfamily.        *)
(* Mutants: no generalization step, the other holes range over everything; *)
(* the clauses take any option for one of the hole.                        *)
GeneralizationUnrefined(F, a, conflict) ==
  [h \in Hole |-> IF h \in conflict THEN {a[h]} ELSE Options[h]]

GeneralizationAnyOption(F, a, conflict) ==
  [h \in Hole |-> IF h \in conflict THEN {a[h]} ELSE Option]

Generalization(F, a, conflict) ==
  [h \in Hole |-> IF h \in conflict THEN {a[h]} ELSE F[h]]

(* The members of the family that agree with a on the critical holes.      *)
Completions(F, a, conflict) == {b \in Members(F) : AgreeOn(conflict, a, b)}

(* sat of the generator's last wave: a strict constraint that holds by no  *)
(* more than the tolerance counts as violated.  For the other constraints  *)
(* the tolerance is on the side of the assignments.                        *)
ClearlySat(t) ==
  [c \in Constraint |->
     IF c \in StrictConstraint THEN t.sat[c] \ Narrow[c] ELSE t.sat[c]]

(* The conflict of a violated group is the union of its members' critical  *)
(* holes, so it is a conflict of each of them.                             *)
(* Mutant: the conflict of one member stands for the group.                *)
GroupConflictsOfOne(t, F, indices, g, a) ==
  {conflict \in SUBSET Hole :
     \E c \in OrGroup(g, indices) :
       \A b \in Completions(F, a, conflict) : b \notin ClearlySat(t)[c]}

GroupConflicts(t, F, indices, g, a) ==
  {conflict \in SUBSET Hole :
     \A b \in Completions(F, a, conflict) :
       \A c \in OrGroup(g, indices) : b \notin ClearlySat(t)[c]}

(* The holes the chain of a may reach from the objective's state.          *)
ReachableHoles(t, a) ==
  {reached \in SUBSET OptimalityHoles :
     \A b \in Assignment : AgreeOn(reached, a, b) =>
       /\ t.val[b] = t.val[a]
       /\ SingleState => \A c \in Constraint : b \in t.sat[c] <=> a \in t.sat[c]}

(* The conflict of the objective: when a does not beat the optimum, neither*)
(* does a completion of its critical holes; when it does, all the waves    *)
(* are expanded and every hole they reach is critical.                     *)
BeatsOptimum(t, v, optimum) ==
  IF optimum = None THEN TRUE ELSE Better(t, v, optimum, conflict_precision)

OptimalityConflicts(t, F, a, optimum) ==
  IF BeatsOptimum(t, t.val[a], optimum)
  THEN ReachableHoles(t, a)
  ELSE {conflict \in SUBSET OptimalityHoles :
          \A b \in Completions(F, a, conflict) :
            ~ BeatsOptimum(t, t.val[b], optimum)}

(* One conflict for each violated group, and always one for the objective; *)
(* each excludes a subfamily.                                              *)
Exclusions(t, F, indices, a, optimum) ==
  LET groups  == UnsatGroups(t, indices, a)
      choices == {f \in [groups -> SUBSET Hole] :
                    \A g \in groups : f[g] \in GroupConflicts(t, F, indices, g, a)}
      ofGroups(f) == {Generalization(F, a, f[g]) : g \in groups}
  IN  IF t.objective # "optimality" THEN {ofGroups(f) : f \in choices}
      ELSE {ofGroups(f) \cup {Generalization(F, a, conflict)} :
              f \in choices, conflict \in OptimalityConflicts(t, F, a, optimum)}

(* Does a, which satisfies the constraints, become the result?             *)
(* Mutant: it does whatever its value.                                     *)
AdoptsAny(t, a, optimum) == TRUE

Adopts(t, a, optimum) ==
  t.objective = "optimality" => ImprovesOptimum(t, t.val[a], optimum)

(* The optimum after a was adopted.                                        *)
UpdatedOptimum(t, a, optimum) ==
  IF t.objective = "none" THEN optimum ELSE t.val[a]

-----------------------------------------------------------------------------
(***************************************************************************)
(* What the conflicts leave to be found.                                   *)
(***************************************************************************)

(* What the two comparisons of a value with the optimum may disagree about.*)
Tolerance(t) ==
  IF t.objective # "optimality" THEN 0
  ELSE IF conflict_precision <= float_precision THEN float_precision
  ELSE conflict_precision

(* The conflict of the objective is only right if the constraints are      *)
(* about the holes it is drawn from.                                       *)
ConflictsSound(t) == t.objective = "optimality" => SingleState

(* The conflicts tell apart what the specification does: no strict         *)
(* constraint holds by less than the generator's tolerance, and the value  *)
(* is compared with the optimum as precisely.                              *)
ConflictsExact(t) ==
  /\ \A c \in StrictConstraint : \A a \in Narrow[c] : a \notin t.sat[c]
  /\ t.objective = "optimality" => SingleState /\ conflict_precision <= float_precision

=============================================================================
