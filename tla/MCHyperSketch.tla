---------------------------- MODULE MCHyperSketch ----------------------------
(***************************************************************************)
(* Instances of HyperSketch for TLC: two runs on a sketch file with two    *)
(* scheduler variables, formulas over three initial states, and quotient   *)
(* MDPs of up to four states with structural equalities.                   *)
(***************************************************************************)
EXTENDS HyperSketch, TLC

CONSTANTS r1, r2, x, y, z, sched, other, a, b, c, e, d

MCInitialState == 1..4

Q(quant, name, states) == [quant |-> quant, name |-> name, states |-> states]

Formula(quants, ls) == [quants |-> quants, lines |-> ls]

MCFormulas ==
  {Formula(<<Q("A", x, {1, 2, 3}), Q("A", y, {1, 2, 3})>>, {<< <<x, y>> >>}),
   Formula(<<Q("A", x, {1, 2}), Q("A", y, {2, 3})>>,
           {<< <<x>>, <<y>> >>, << <<x, y>>, <<y, x>> >>}),
   Formula(<<Q("A", x, {1, 2}), Q("E", y, {1, 2, 3})>>, {<< <<x, y>>, <<x>> >>}),
   Formula(<<Q("A", x, {1, 2}), Q("A", y, {1, 2}), Q("E", z, {2, 3, 4})>>,
           {<< <<x, y, z>>, <<x, y>> >>}),
   Formula(<<Q("E", x, {1, 2}), Q("E", y, {2, 3})>>, {<< <<x, y>>, <<x>> >>}),
   (* No distinct state is left for a property: the first of its line, or  *)
   (* another one.                                                         *)
   Formula(<<Q("A", x, {1}), Q("E", y, {1})>>, {<< <<x, y>>, <<x>> >>}),
   Formula(<<Q("A", x, {1}), Q("E", y, {1})>>, {<< <<x>>, <<x, y>> >>}),
   (* No state satisfies the restriction.                                  *)
   Formula(<<Q("E", x, {})>>, {<< <<x>> >>}),
   (* Existential variables in two lines.                                  *)
   Formula(<<Q("A", x, {1, 2}), Q("E", y, {3, 4})>>, {<< <<x, y>> >>, << <<y>> >>}),
   (* A variable that is not quantified.                                   *)
   Formula(<<Q("A", x, {1, 2})>>, {<< <<x, z>> >>})}

SketchOf(labels, schedulers, equalities) ==
  [labels |-> labels, scheduler |-> schedulers, equalities |-> equalities]

Eq(name, states, schedulers) == [name |-> name, states |-> states, schedulers |-> schedulers]

MCSketches ==
  {(* No equality; states without a choice.                                *)
   SketchOf(<< <<a, b>>, <<a>>, <<b, b>> >>, <<sched, sched, other>>, << >>),
   (* Three related states, one with its actions in another order, one     *)
   (* without a choice.                                                    *)
   SketchOf(<< <<a, b>>, <<b, a>>, <<a>>, <<a, c, b>> >>, <<sched, other, other, sched>>,
            << Eq(e, {1, 2, 3}, {sched, other}) >>),
   (* The same equality for each scheduler.                                *)
   SketchOf(<< <<a, b>>, <<a, b>>, <<a, b>>, <<b, a>> >>, <<sched, other, other, sched>>,
            << Eq(e, {1, 2, 3, 4}, {sched}), Eq(e, {1, 2, 3, 4}, {other}) >>),
   (* Two equalities, one of which does not concern a scheduler.           *)
   SketchOf(<< <<a, b, c>>, <<c, a, b>>, <<a, b>>, <<b, a>> >>, <<sched, sched, sched, other>>,
            << Eq(e, {1, 2}, {sched}), Eq(d, {3, 4}, {sched}) >>),
   (* Equalities that the quotient refuses.                                *)
   SketchOf(<< <<a, b>>, <<a, c>> >>, <<sched, sched>>, << Eq(e, {1, 2}, {sched}) >>),
   SketchOf(<< <<a, b>>, <<a, b>> >>, <<sched, sched>>,
            << Eq(e, {1, 2}, {sched}), Eq(d, {2}, {sched}) >>),
   SketchOf(<< <<a, b>>, <<b, b>> >>, <<sched, sched>>, << Eq(e, {1, 2}, {sched}) >>),
   (* Related states that do not have the same choices, or one twice.      *)
   SketchOf(<< <<a, b, c>>, <<a, b>> >>, <<sched, sched>>, << Eq(e, {1, 2}, {sched}) >>),
   SketchOf(<< <<a, b, b>>, <<b, a>> >>, <<sched, sched>>, << Eq(e, {1, 2}, {sched}) >>)}

=============================================================================
