--------------------------- MODULE MCPomdpUnfolding ---------------------------
(***************************************************************************)
(* Instance of PomdpUnfolding for TLC: POMDPs of up to four states that    *)
(* share observations, where an observation has an action hole, a memory   *)
(* hole, both or neither.                                                  *)
(***************************************************************************)
EXTENDS PomdpUnfolding

MCPomdp(rows, observation) ==
  [rows |-> rows, observation |-> observation,
   observations |-> Cardinality(Range(observation)), initial |-> {1}, target |-> {Len(rows)}]

(* Two states that look alike, and an end that is seen.                    *)
Alike ==
  {MCPomdp(<< <<{2}, {1, 3}>>, second, <<{3}>> >>, <<1, 1, 2>>) :
     second \in {<<{1}, {3}>>, <<{2, 3}, {1, 2}>>}}

(* Three actions; an observation with one action on the way.               *)
ThreeActions == MCPomdp(<< <<{2}, {3}, {1, 2}>>, <<{1, 3}>>, <<{3}>> >>, <<1, 2, 3>>)

(* Two observations with actions; the last state has no hole when nothing  *)
(* it leads to has memory.                                                 *)
Crossing ==
  {MCPomdp(<< <<{2, 3}>>, <<{1}, {4}>>, <<{4}, {2}>>, last >>, <<1, 2, 2, 3>>) :
     last \in {<<{4}>>, <<{1, 4}>>}}

(* The observation with memory is not the first of the states' order.      *)
Backwards == MCPomdp(<< <<{1}>>, <<{1, 2}, {2, 3}>>, <<{1}>> >>, <<2, 1, 2>>)

MCPomdps == Alike \cup {ThreeActions} \cup Crossing \cup {Backwards}

=============================================================================
