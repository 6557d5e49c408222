---------------------------- MODULE MCARSynthesis ----------------------------
(***************************************************************************)
(* Instance of ARSynthesis for TLC: two holes, a disjunction of two        *)
(* constraints and a single one.                                           *)
(***************************************************************************)
EXTENDS ARSynthesis, TLC

CONSTANTS h1, h2, o1, o2

MCHole == {h1, h2}
MCOption == {o1, o2}
MCOptions == [h \in MCHole |-> MCOption]
MCConstraint == {1, 2, 3}
MCGroups == << {1, 2}, {3} >>
MCMatching == {{h1, h2}}
MCRelevant == {h1}

At(x, y) == (h1 :> x) @@ (h2 :> y)
Diagonal == {At(o1, o1), At(o2, o2)}

(* The first disjunct holds of any assignments but one, the second one of  *)
(* little: a family may need both disjuncts, or one, or have neither.      *)
Sats(second, third) ==
  {[c \in MCConstraint |-> CASE c = 1 -> x [] c = 2 -> y [] OTHER -> z] :
     x \in SUBSET (Assignment \ {At(o1, o2)}), y \in second, z \in third}

FeasibilityTasks ==
  {[objective |-> "none", minimizing |-> TRUE, sat |-> s, val |-> [a \in Assignment |-> 0],
    explore_all |-> e, exploration_order_dfs |-> d] :
     s \in Sats({{}, {At(o1, o1)}}, {Diagonal}),
     e \in BOOLEAN, d \in BOOLEAN}

(* Values of the options of h1: within float_precision, or far enough to   *)
(* be told apart.                                                          *)
Values(second) == [a \in Assignment |-> IF a[h1] = o1 THEN 0 ELSE second]

OptimalityTasks ==
  {[objective |-> "optimality", minimizing |-> m, sat |-> s, val |-> Values(v),
    explore_all |-> TRUE, exploration_order_dfs |-> d] :
     s \in Sats({{}}, {Assignment, Diagonal}), m \in BOOLEAN, v \in 1..2, d \in BOOLEAN}

DifferenceTasks ==
  {[objective |-> "sched_hyperoptimality", minimizing |-> m, sat |-> s,
    val |-> [a \in Assignment |-> DifferenceOf(a, m)],
    explore_all |-> TRUE, exploration_order_dfs |-> d] :
     s \in Sats({{At(o1, o1)}}, {Assignment, Diagonal}), m \in BOOLEAN, d \in BOOLEAN}

MCTasks == FeasibilityTasks \cup OptimalityTasks \cup DifferenceTasks

=============================================================================
