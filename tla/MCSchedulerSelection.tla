------------------------- MODULE MCSchedulerSelection -------------------------
(***************************************************************************)
(* Instance of SchedulerSelection for TLC: two initial states, two inner   *)
(* states, the goal and a sink; a hole with two options and one with three *)
(* that states share in different ways.  The specification is a            *)
(* disjunction of a hyperproperty and a property, and a hyperproperty.     *)
(***************************************************************************)
EXTENDS SchedulerSelection

MCHole == {1, 2}
MCOption == 1..3
MCOptions == <<{1, 2}, {1, 2, 3}>>
MCConstraint == {1, 2, 3}
MCGroups == << {1, 2}, {3} >>

Goal == 5
Sink == 6

(* The successors of the rows of a state of each hole; 0 is no hole.       *)
OfHole(h, rows) == [hole |-> h, rows |-> rows]

First  == {OfHole(1, << {3}, {4} >>), OfHole(1, << {4}, {Goal} >>)}
Second == {OfHole(1, << {4}, {3} >>), OfHole(2, << {3}, {4}, {Sink} >>), OfHole(0, << {4} >>)}
Third  == {OfHole(1, << {1}, {Goal} >>), OfHole(1, << {4}, {3, Goal} >>), OfHole(0, << {4} >>)}
Fourth == {OfHole(2, << {Goal}, {Sink}, {3} >>), OfHole(2, << {4, Goal}, {2}, {2} >>),
           OfHole(1, << {3}, {Goal} >>)}

(* A state with fewer actions than its hole, and a value that is neither 0 *)
(* nor 1.                                                                  *)
Odd == {OfHole(2, << {Goal}, {Sink} >>), OfHole(2, << {Goal, Sink}, {3}, {Sink} >>)}

Comparison(minimizing, strict, s, t) ==
  [minimizing |-> minimizing, strict |-> strict, state |-> s, other_state |-> t]

Specifications ==
  {<<Comparison(m, t, 1, 2), Comparison(n, FALSE, 1, 1), Comparison(k, FALSE, 2, 1)>> :
     m \in BOOLEAN, t \in BOOLEAN, n \in BOOLEAN, k \in BOOLEAN}

(* The initial states of a hole are those its scheduler is about.          *)
MCSketch(states, initial_states, specification) ==
  LET all == states \o <<OfHole(0, << {Goal} >>), OfHole(0, << {Sink} >>)>>
  IN  [rows    |-> [s \in DOMAIN all |-> all[s].rows],
       hole    |-> [s \in DOMAIN all |-> all[s].hole],
       options |-> [s \in DOMAIN all |-> [r \in DOMAIN all[s].rows |-> r]],
       initial |-> {1, 2}, target |-> {Goal},
       initial_states |-> initial_states,
       constraint |-> specification]

OneScheduler == [h \in MCHole |-> {1, 2}]
TwoSchedulers == << {1}, {2} >>

(* With two schedulers, states 1 and 3 are of one and 2 and 4 of the other.*)
MCSketches ==
  {MCSketch(<<a, b, c, d>>, OneScheduler, spec) :
     a \in First, b \in Second, c \in Third, d \in Fourth, spec \in Specifications}
  \cup {MCSketch(<<a, b, c, d>>, OneScheduler, spec) :
     a \in {OfHole(1, << {3}, {4} >>)}, b \in {OfHole(0, << {4} >>)},
     c \in Third, d \in Odd, spec \in Specifications}
  \cup {MCSketch(<<a, b, c, d>>, TwoSchedulers, spec) :
     a \in {OfHole(1, << {3}, {Goal} >>)}, b \in {OfHole(2, << {4}, {4}, {Sink} >>)},
     c \in {OfHole(1, << {1}, {Goal} >>), OfHole(1, << {Goal}, {Sink} >>)},
     d \in {OfHole(2, << {Goal}, {2}, {Sink} >>)}, spec \in Specifications}

=============================================================================
