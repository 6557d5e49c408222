-------------------------- MODULE MCHybridSynthesis --------------------------
(***************************************************************************)
(* Instances of HybridSynthesis for TLC: two holes with two options, a     *)
(* disjunction of two constraints and a single one.  The best value is     *)
(* that of an assignment the constraints exclude.                          *)
(***************************************************************************)
EXTENDS HybridSynthesis, TLC

CONSTANTS h1, h2, o1, o2

MCHole == {h1, h2}
MCOption == {o1, o2}
MCOptions == [h \in MCHole |-> MCOption]
MCConstraint == {1, 2, 3}
MCGroups == << {1, 2}, {3} >>
MCMatching == {{h1, h2}}

At(x, y) == (h1 :> x) @@ (h2 :> y)

Sat(first, third) ==
  (1 :> first) @@ (2 :> {At(o1, o1), At(o2, o2)}) @@ (3 :> third)

Value == At(o1, o1) :> 1 @@ At(o1, o2) :> 0 @@ At(o2, o1) :> 2 @@ At(o2, o2) :> 1

SomeTask(objective, sat, val, explore_all, dfs) ==
  [objective |-> objective, minimizing |-> TRUE, sat |-> sat, val |-> val,
   explore_all |-> explore_all, exploration_order_dfs |-> dfs]

MCTasks ==
  {SomeTask("none", Sat(first, Assignment \ {At(o1, o2)}), Value, e, d) :
     first \in {{At(o2, o1)}, {At(o2, o1), At(o1, o2)}}, e \in BOOLEAN, d \in BOOLEAN}
    \cup {SomeTask("optimality", Sat({At(o2, o1)}, Assignment \ {At(o1, o1)}), Value, TRUE, d) :
            d \in BOOLEAN}
    \cup {SomeTask("sched_hyperoptimality", Sat({At(o2, o1)}, {At(o2, o1)}),
                   [a \in Assignment |-> DifferenceOf(a, TRUE)], TRUE, d) : d \in BOOLEAN}

(* Strict constraints that some assignments satisfy by little: one of a    *)
(* disjunction, where the other member may hold clearly, and the single    *)
(* one.                                                                    *)
MCNoneNarrow == << >>
MCNarrow == (2 :> {At(o1, o1)}) @@ (3 :> {At(o2, o2)})

=============================================================================
