-------------------------- MODULE HyperSpecification --------------------------
(***************************************************************************)
(* The specification in conjunctive normal form                            *)
(* (hypersketch/hyperproperty.py) and the way the analysis results of its  *)
(* constraints over a family are combined (hypersketch/hyperresult.py and  *)
(* MDP.check_hyperconstraints).  A constraint is a hyperproperty or a PCTL *)
(* property; disjoint_indexes lists the groups, each a disjunction.        *)
(***************************************************************************)
EXTENDS Integers, Sequences

CONSTANTS
  Constraint,        (* the constraint indices                             *)
  disjoint_indexes   (* the sequence of groups, in parsing order           *)

Group == DOMAIN disjoint_indexes

(* parse_instantiated_properties numbers the constraints line by line and  *)
(* appends one nonempty list of fresh indices per line.                    *)
ASSUME GroupsAssumption ==
  /\ disjoint_indexes \in Seq(SUBSET Constraint)
  /\ \A c \in Constraint : \E g \in Group : c \in disjoint_indexes[g]
  /\ \A g, k \in Group :
       g # k => disjoint_indexes[g] \cap disjoint_indexes[k] = {}
  /\ \A g \in Group : disjoint_indexes[g] # {}

(* Three-valued feasibility over a family, and the value of an index that  *)
(* was not evaluated (a None entry of the results list).                   *)
Feasibility == {"True", "False", "None"}
Result == Feasibility \cup {"unchecked"}

(* or_group_indexes: the members of group g among the given indices.       *)
OrGroup(g, indices) == disjoint_indexes[g] \cap indices

(* An assignment satisfies the specification when every group has a        *)
(* member it satisfies; sat maps a constraint to its assignments.          *)
SatisfiesGroup(sat, g, a) == \E c \in disjoint_indexes[g] : a \in sat[c]
SatisfiesSpec(sat, a) == \A g \in Group : SatisfiesGroup(sat, g, a)

(***************************************************************************)
(* MDP.check_hyperconstraints with short_evaluation: the groups are        *)
(* evaluated in order until one has only infeasible members.               *)
(***************************************************************************)
AllInfeasible(g, indices, feasibility) ==
  /\ OrGroup(g, indices) # {}
  /\ \A c \in OrGroup(g, indices) : feasibility[c] = "False"

(* Mutant: without short_evaluation every index is evaluated.              *)
EvaluatedAll(indices, feasibility) == indices

Evaluated(indices, feasibility) ==
  {c \in indices : \E g \in Group :
     /\ c \in disjoint_indexes[g]
     /\ \A k \in Group : k < g => ~ AllInfeasible(k, indices, feasibility)}

CheckHyperConstraints(indices, feasibility) ==
  [c \in Constraint |->
     IF c \in Evaluated(indices, feasibility) THEN feasibility[c] ELSE "unchecked"]

(***************************************************************************)
(* MdpHyperConstraintsResult.  HasTrue and HasNone are or_filter with True *)
(* and with None: an index that was not evaluated counts as False.         *)
(***************************************************************************)
HasTrue(g, results) == \E c \in disjoint_indexes[g] : results[c] = "True"
HasNone(g, results) == \E c \in disjoint_indexes[g] : results[c] = "None"

(* Mutant: the satisfied groups keep their undecided members.              *)
UndecidedInAnyGroup(results) == {c \in Constraint : results[c] = "None"}

UndecidedConstraints(results) ==
  {c \in Constraint : /\ results[c] = "None"
                      /\ \A g \in Group : c \in disjoint_indexes[g]
                                            => ~ HasTrue(g, results)}

(* What the loop over the groups assigns to self.feasibility at group g;   *)
(* "True" stands for no assignment.                                        *)
GroupFeasibility(g, results) ==
  IF \A c \in disjoint_indexes[g] : results[c] = "unchecked" THEN "True"
  ELSE IF HasTrue(g, results) THEN "True"
  ELSE IF HasNone(g, results) THEN "None"
  ELSE "False"

(* The last assignment of the loop stands: its break only leaves the loop  *)
(* over one group.                                                         *)
LastAssigned(v, results) ==
  \E g \in Group :
    /\ GroupFeasibility(g, results) = v
    /\ \A k \in Group : k > g => GroupFeasibility(k, results) = "True"

OverallFeasibility(results) ==
  IF LastAssigned("False", results) THEN "False"
  ELSE IF LastAssigned("None", results) THEN "None"
  ELSE "True"

=============================================================================
