--------------------------- MODULE MCCounterexample ---------------------------
(***************************************************************************)
(* Instances of Counterexample for TLC: two initial states, three holes of *)
(* which two are shared by two states each, and two target formulas.       *)
(***************************************************************************)
EXTENDS Counterexample, TLC

CONSTANTS h1, h2, h3, o1, o2, MultitargetBounds

MCHole == {h1, h2, h3}
MCOption == {o1, o2}
MCOptions == [h \in MCHole |-> MCOption]

MCState == 1..9
MCInitialStates == {1, 2}
MCTargets == << {9}, {8} >>

MCHoles ==
  (1 :> {h1}) @@ (2 :> {}) @@ (3 :> {h2}) @@ (4 :> {h3}) @@ (5 :> {h1})
    @@ (6 :> {h3}) @@ (7 :> {}) @@ (8 :> {}) @@ (9 :> {})

(* The successors under the first and under the second option.             *)
First ==
  << {3, 7}, {3, 4}, {5, 8}, {6, 9}, {7, 9}, {7, 8}, {}, {}, {} >>

Second ==
  << {4, 5}, {3, 4}, {7}, {7, 9}, {6, 8}, {9}, {}, {}, {} >>

MCRow ==
  [s \in MCState |->
    [a \in [MCHole -> MCOption] |->
      IF \A h \in MCHoles[s] : a[h] = o1 THEN First[s] ELSE Second[s]]]

Families == {MCOptions, [MCOptions EXCEPT ![h1] = {o1}], [MCOptions EXCEPT ![h3] = {o2}]}

SomeRequest(hyper, multitarget, safety, strict, threshold, min_bound, bounds, F) ==
  [hyper |-> hyper, multitarget |-> multitarget, safety |-> safety, strict |-> strict,
   state |-> 1, other_state |-> 2, threshold |-> threshold, min_bound |-> min_bound,
   bounds |-> bounds, family |-> F]

MCRequests ==
  {SomeRequest(FALSE, FALSE, safety, strict, threshold, 0, bounds, F) :
     safety \in BOOLEAN, strict \in BOOLEAN, threshold \in {6, 8, 12},
     bounds \in BOOLEAN, F \in Families}
    \cup {SomeRequest(TRUE, FALSE, safety, strict, 0, min_bound, bounds, F) :
            safety \in BOOLEAN, strict \in BOOLEAN, min_bound \in {-2, 0, 4},
            bounds \in BOOLEAN, F \in Families}
    \cup {SomeRequest(TRUE, TRUE, safety, strict, 0, 0, bounds, F) :
            safety \in BOOLEAN, strict \in BOOLEAN,
            bounds \in {FALSE, MultitargetBounds}, F \in Families}

=============================================================================
