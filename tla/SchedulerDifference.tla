------------------------- MODULE SchedulerDifference -------------------------
(***************************************************************************)
(* The number of states in which the two quantified schedulers choose      *)
(* differently, the objective of "MIN SD" and "MAX SD"                     *)
(* (MarkovChain.model_check_scheduler_difference and                       *)
(* Holes.assume_optimizing_options).  Matching lists the pairs of holes    *)
(* that belong to one state of the sketch, one hole per scheduler.         *)
(***************************************************************************)
EXTENDS DesignSpace

CONSTANT Matching

ASSUME MatchingAssumption ==
  /\ Matching \subseteq SUBSET Hole
  /\ \A m \in Matching : Cardinality(m) = 2
  /\ \A m, n \in Matching : m # n => m \cap n = {}

AtLeastOne(n) == IF n < 1 THEN 1 ELSE n

(* The pairs that count for family F: when minimizing, those that share no *)
(* option; when maximizing, those with more than one option between them.  *)
Differing(F, m, minimizing) ==
  IF minimizing
  THEN \A h, k \in m : h # k => F[h] \cap F[k] = {}
  ELSE Cardinality(UNION {F[h] : h \in m}) > 1

SchedulerDifference(F, minimizing) ==
  AtLeastOne(Cardinality({m \in Matching : Differing(F, m, minimizing)}))

(* An assignment as the family it is (construct_assignment).               *)
AsFamily(a) == [h \in Hole |-> {a[h]}]

(* A DTMC is checked in the primary direction too.                         *)
DifferenceOf(a, minimizing) == SchedulerDifference(AsFamily(a), minimizing)

(* assume_minimizing_options: a shared option on both sides of each pair   *)
(* that has one, any option elsewhere.                                     *)
MinimizingAssignments(F) ==
  {a \in Members(F) :
     \A m \in Matching :
       (\E o \in Option : \A h \in m : o \in F[h]) => \A h, k \in m : a[h] = a[k]}

(* assume_maximizing_options: the hole with fewer options goes first, the  *)
(* other one then avoids its option when it can.                           *)
MaximizingAssignments(F) ==
  {a \in Members(F) :
     \A m \in Matching : \E h \in m : \A k \in m \ {h} :
       /\ Cardinality(F[h]) <= Cardinality(F[k])
       /\ F[k] # {a[h]} => a[k] # a[h]}

OptimizingAssignments(F, minimizing) ==
  IF minimizing THEN MinimizingAssignments(F) ELSE MaximizingAssignments(F)

=============================================================================
