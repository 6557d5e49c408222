---------------------------- MODULE MCARPrecision ----------------------------
(***************************************************************************)
(* A second instance of ARSynthesis: a hole with three options, so that a  *)
(* split may leave several core options, and values that float_precision   *)
(* does not tell apart.                                                    *)
(***************************************************************************)
EXTENDS ARSynthesis, TLC

CONSTANTS h1, h2, o1, o2, o3

MCHole == {h1, h2}
MCOption == {o1, o2, o3}
MCOptions == (h1 :> {o1, o2, o3}) @@ (h2 :> {o1, o2})
MCConstraint == {1}
MCGroups == << {1} >>
MCRelevant == {h1}

Rank == (o1 :> 0) @@ (o2 :> 1) @@ (o3 :> 2)

(* Values that depend on the hole that is relevant for the objective.      *)
Values == [a \in Assignment |-> Rank[a[h1]]]

Solutions == {{a \in Assignment : a[h1] # a[h2]}, {a \in Assignment : a[h2] = o2}}

MCTasks ==
  {[objective |-> "optimality", minimizing |-> m, sat |-> (1 :> s),
    val |-> Values, explore_all |-> TRUE, exploration_order_dfs |-> d] :
     m \in BOOLEAN, s \in Solutions, d \in BOOLEAN}

=============================================================================
