---------------------------- MODULE MCEnumeration ----------------------------
(***************************************************************************)
(* Instances of Enumeration for TLC: a hole with three options and a hole  *)
(* with two, a disjunction of two constraints and a single one.            *)
(***************************************************************************)
EXTENDS Enumeration, TLC

CONSTANTS h1, h2, o1, o2, o3

MCHole == {h1, h2}
MCOption == {o1, o2, o3}
MCOptions == (h1 :> {o1, o2, o3}) @@ (h2 :> {o1, o2})
MCConstraint == {1, 2, 3}
MCGroups == << {1, 2}, {3} >>
MCMatching == {{h1, h2}}
MCRelevant == {h1}

Rank == (o1 :> 0) @@ (o2 :> 1) @@ (o3 :> 2)

Sat(first, second, third) == (1 :> first) @@ (2 :> second) @@ (3 :> third)

Sats ==
  {Sat({a \in Assignment : a[h1] = o2}, {a \in Assignment : a[h1] = a[h2]}, third) :
     third \in {Assignment, {a \in Assignment : a[h2] = o2}, {a \in Assignment : a[h1] = o3}}}

(* Values that depend on the first hole, or on both.                       *)
Values(weight) == [a \in Assignment |-> Rank[a[h1]] + weight * Rank[a[h2]]]
Weights == IF OptimalityHoles = Hole THEN {0, 2} ELSE {0}

SomeTask(objective, minimizing, sat, val, explore_all) ==
  [objective |-> objective, minimizing |-> minimizing, sat |-> sat, val |-> val,
   explore_all |-> explore_all, exploration_order_dfs |-> TRUE]

MCTasks ==
  {SomeTask("none", TRUE, s, Values(0), e) : s \in Sats, e \in BOOLEAN}
    \cup {SomeTask("optimality", m, s, Values(w), TRUE) :
            m \in BOOLEAN, s \in Sats, w \in Weights}
    \cup {SomeTask("sched_hyperoptimality", m, s,
                   [a \in Assignment |-> DifferenceOf(a, m)], TRUE) :
            m \in BOOLEAN, s \in Sats}

(* Strict constraints that some assignments satisfy by little: one of a    *)
(* disjunction, where the other member may hold clearly, and the single    *)
(* one.                                                                    *)
MCNoneNarrow == << >>
MCNarrow ==
  (2 :> {a \in Assignment : a[h1] = o1 /\ a[h2] = o1})
    @@ (3 :> {a \in Assignment : a[h1] = o3})

=============================================================================
