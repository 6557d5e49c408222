---------------------------- MODULE FamilyAnalysis ----------------------------
(***************************************************************************)
(* What the analysis of one family may answer, and how an undecided family *)
(* is split: MDP.check_hyperspecification (synthesizers/models.py),        *)
(* HyperSpecificationResult.improving (hypersketch/hyperresult.py) and     *)
(* HyperPropertyQuotientContainer.split (hypersynthesizers/hyperquotient). *)
(*                                                                         *)
(* The model checker is external.  A scheduler of the family's MDP may be  *)
(* inconsistent (use two options of one hole), so its bounds are sound but *)
(* loose: every answer that soundness allows is a possible answer, and     *)
(* only a single assignment is answered exactly.                           *)
(***************************************************************************)
EXTENDS SchedulerDifference, HyperSpecification, Functions

CONSTANTS
  HyperConstraint,  (* the constraints that are hyperproperties            *)
  OptimalityHoles,  (* the holes with optimality.state in initial_states   *)
  float_precision   (* differences of values up to this are ignored        *)

ASSUME AnalysisAssumption ==
  /\ HyperConstraint \subseteq Constraint
  /\ OptimalityHoles \subseteq Hole
  /\ float_precision \in Nat

(***************************************************************************)
(* A synthesis task: the objective, which assignments satisfy each         *)
(* constraint, the objective's value of each assignment, and the command   *)
(* line.  An objective forces explore_all (cli.py).  The value of a PCTL   *)
(* objective depends on the holes relevant for its state only.             *)
(***************************************************************************)
Objective == {"none", "optimality", "sched_hyperoptimality"}

AgreeOn(H, a, b) == \A h \in H : a[h] = b[h]

Task ==
  {t \in [objective   : Objective,
          minimizing  : BOOLEAN,
          sat         : [Constraint -> SUBSET Assignment],
          val         : [Assignment -> Nat],
          explore_all : BOOLEAN,
          exploration_order_dfs : BOOLEAN] :
     /\ t.objective # "none" => t.explore_all
     /\ t.objective = "optimality" =>
          \A a, b \in Assignment : AgreeOn(OptimalityHoles, a, b) => t.val[a] = t.val[b]
     /\ t.objective = "sched_hyperoptimality" =>
          \A a \in Assignment : t.val[a] = DifferenceOf(a, t.minimizing)}

Precision(t) == IF t.objective = "optimality" THEN float_precision ELSE 0

(* OptimalityProperty.meets_op and SchedulerOptimalityHyperProperty.meets_op *)
Better(t, v, w, precision) ==
  IF t.minimizing THEN v + precision < w ELSE v > w + precision

(* improves_optimum and improves_hyperoptimum *)
ImprovesOptimum(t, v, optimum) ==
  IF optimum = None THEN TRUE ELSE Better(t, v, optimum, Precision(t))

(* Would a be a better result of the search than the one found so far?     *)
ImprovesResult(t, a, result) ==
  /\ SatisfiesSpec(t.sat, a)
  /\ result # None =>
       /\ t.objective # "none"
       /\ ImprovesOptimum(t, t.val[a], t.val[result])

(* Would a, if sat says what satisfies the constraints, be a better result *)
(* by more than the margin?                                                *)
ImprovesBeyond(t, sat, a, result, margin) ==
  /\ SatisfiesSpec(sat, a)
  /\ result # None =>
       /\ t.objective # "none"
       /\ Better(t, t.val[a], t.val[result], margin)

(***************************************************************************)
(* check_property and check_hyperproperty: the feasibilities the family's  *)
(* bounds allow for constraint c.                                          *)
(***************************************************************************)
CheckConstraint(t, F, c) ==
  {v \in Feasibility :
     /\ v = "True"  => Members(F) \subseteq t.sat[c]
     /\ v = "False" => Members(F) \cap t.sat[c] = {}
     /\ v = "None"  => ~ Singleton(F)}

Feasibilities(t, F, indices) ==
  {f \in [indices -> Feasibility] : \A c \in indices : f[c] \in CheckConstraint(t, F, c)}

(***************************************************************************)
(* sat_selections: a consistent scheduler may select, for an undecided     *)
(* constraint, options of some holes that satisfy it whatever the other    *)
(* holes do; a constraint that is True selects nothing.  The selections of *)
(* the evaluated groups are merged, one of each, where they agree.  So an  *)
(* assignment that fills the open holes of a merged selection satisfies an *)
(* undecided or decided member of every evaluated group.                   *)
(***************************************************************************)
SatSelected(t, F, results) ==
  {a \in Members(F) :
     \A g \in Group :
       \/ \A c \in disjoint_indexes[g] : results[c] = "unchecked"
       \/ \E c \in disjoint_indexes[g] :
            results[c] = "True" \/ (results[c] = "None" /\ a \in t.sat[c])}

(***************************************************************************)
(* An outcome: the improving assignment, or None, and can_improve.         *)
(***************************************************************************)
Outcome(assignment, can_improve) ==
  [assignment |-> assignment, can_improve |-> can_improve]

(* MDP.check_optimality.  The primary scheduler of a family whose relevant *)
(* holes are all trivial is consistent.                                    *)
(* Mutant: the bound is not compared with the optimum.                     *)
ImprovingAny(t, F, optimum) == Members(F)

Improving(t, F, optimum) == {a \in Members(F) : ImprovesOptimum(t, t.val[a], optimum)}

(* Mutant: a consistent scheduler that the double check refuses ends the   *)
(* analysis of the family.                                                 *)
CheckOptimalityRefused(t, F, optimum) ==
  {Outcome(None, FALSE)} \cup
    {Outcome(a, FALSE) : a \in {b \in Improving(t, F, optimum) : SatisfiesSpec(t.sat, b)}}

CheckOptimality(t, F, optimum) ==
  LET improving == Improving(t, F, optimum)
      tight     == {a \in improving :
                      \A b \in Members(F) : ~ Better(t, t.val[b], t.val[a], 0)}
      accepted  == {a \in tight : SatisfiesSpec(t.sat, a)}
  IN  {Outcome(a, FALSE) : a \in accepted}
        \cup (IF improving = {} THEN {Outcome(None, FALSE)} ELSE {})
        \cup (IF tight # accepted \/ \E h \in OptimalityHoles : ~ Trivial(F, h)
              THEN {Outcome(None, TRUE)} ELSE {})

(* MDP.check_scheduler_hyperoptimality *)
CheckSchedulerHyperOptimality(t, F, optimum) ==
  IF ~ ImprovesOptimum(t, SchedulerDifference(F, t.minimizing), optimum)
  THEN {Outcome(None, FALSE)}
  ELSE {IF /\ SatisfiesSpec(t.sat, a)
           /\ ImprovesOptimum(t, DifferenceOf(a, t.minimizing), optimum)
        THEN Outcome(a, FALSE)
        ELSE Outcome(None, TRUE) : a \in OptimizingAssignments(F, t.minimizing)}

(* improving() without an objective, for an undecided family: there may be *)
(* no consistent scheduler.                                                *)
Consistent(t, F, results) ==
  {Outcome(None, TRUE)} \cup {Outcome(a, TRUE) : a \in SatSelected(t, F, results)}

(* check_hyperspecification with short_evaluation, then improving().       *)
Outcomes(t, F, results, optimum) ==
  LET overall == OverallFeasibility(results)
  IN  IF overall = "False" THEN {Outcome(None, FALSE)}
      ELSE IF t.objective = "optimality" THEN CheckOptimality(t, F, optimum)
      ELSE IF t.objective = "sched_hyperoptimality"
           THEN CheckSchedulerHyperOptimality(t, F, optimum)
      ELSE IF overall = "True" THEN {Outcome(a, FALSE) : a \in Members(F)}
      ELSE Consistent(t, F, results)

(***************************************************************************)
(* scheduler_selection_quantitative_pctl asserts that a consistent         *)
(* scheduler leaves some relevant hole with two options to score.  It is   *)
(* reached for a family that has a nondeterministic state left.            *)
(***************************************************************************)
NoHoleToScore(t, F, results, optimum) ==
  /\ t.objective = "optimality"
  /\ OverallFeasibility(results) # "False"
  /\ Improving(t, F, optimum) # {}
  /\ ~ Singleton(F)
  /\ \A h \in OptimalityHoles : Trivial(F, h)

(***************************************************************************)
(* split: one splitter, whose core options get a subfamily each and whose  *)
(* other options share the first one (DFS solves core first); or, for a    *)
(* hyperproperty whose two schedulers disagree about different holes, two  *)
(* splitters with one core option each.  Scores only name holes that still *)
(* have several options.                                                   *)
(***************************************************************************)
(* Mutant: a hole with a single option may be the splitter.                *)
SplittersTrivial(F) == Hole

Splitters(F) == {h \in Hole : ~ Trivial(F, h)}

(* Mutants: the core options stay among the others; an empty set of other  *)
(* options makes a subfamily; a single other option makes none.            *)
OthersKeepCore(F, h, core) == <<F>>
OthersEmpty(F, h, core) == <<Subholes(F, h, F[h] \ core)>>
OthersUnlessOne(F, h, core) ==
  IF Cardinality(F[h] \ core) <= 1 THEN << >> ELSE <<Subholes(F, h, F[h] \ core)>>

(* The subfamily of the options that are not core, if there are any.       *)
Others(F, h, core) ==
  IF F[h] = core THEN << >> ELSE <<Subholes(F, h, F[h] \ core)>>

SplitAt(F, h, core) ==
  {Others(F, h, core) \o [i \in 1..Cardinality(core) |-> Subholes(F, h, {q[i]})] :
     q \in Bijection(1..Cardinality(core), core)}

SplitOne(F) ==
  UNION {UNION {SplitAt(F, h, core) : core \in (SUBSET F[h]) \ {{}}} : h \in Splitters(F)}

SubholesBoth(F, h, A, k, B) == Subholes(Subholes(F, h, A), k, B)

Quarters(F, h, o, k, u) ==
  << SubholesBoth(F, h, F[h] \ {o}, k, F[k] \ {u}),
     SubholesBoth(F, h, F[h] \ {o}, k, {u}),
     SubholesBoth(F, h, {o}, k, F[k] \ {u}),
     SubholesBoth(F, h, {o}, k, {u}) >>

SplitAtBoth(F, h, k) == {Quarters(F, h, o, k, u) : o \in F[h], u \in F[k]}

SplitTwo(F) ==
  UNION {UNION {SplitAtBoth(F, h, k) : k \in Splitters(F) \ {h}} : h \in Splitters(F)}

Split(F, undecided) ==
  SplitOne(F) \cup (IF undecided \cap HyperConstraint # {} THEN SplitTwo(F) ELSE {})

=============================================================================
