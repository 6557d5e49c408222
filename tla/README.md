# HyperPAYNT in TLA+

HyperPAYNT takes a *sketch* (an MDP whose nondeterministic choices are *holes*
with *options*), a specification made of probabilistic hyperproperties about
several copies of the sketch, and looks for a *hole assignment* (one option per
hole) under which the resulting Markov chain satisfies the specification,
possibly with an optimal value. This directory holds TLA+ modules of its
synthesis methods, TLC configurations that check them on small instances, and
proofs of the main results checked by the TLA+ proof system.

Paths below are relative to `src/`; `P` stands for `paynt/paynt`.

## 1. Inventory

| Part | Source | State it keeps | Operations |
|---|---|---|---|
| Command line | `P/cli.py` | method, `explore_all` (forced by an objective), exploration order | constructs a synthesizer and runs it |
| Parser, sketch file | `P/hypersketch/hyperparser.py`, `hypersketch.py` | quantifiers, restrictions, property lines; the sketch file while it is parsed | instantiates the quantified properties for the initial states; adds the variable `sched_quant` to the sketch file, parses it and writes the file back |
| Hyperspecification | `P/hypersketch/hyperproperty.py`, `P/sketch/property.py` | constraints, `disjoint_indexes` (a conjunction of disjunctions), objective and its optimum | `or_filter`, `or_group_indexes`, `update_optimum` |
| Results | `P/hypersketch/hyperresult.py` | feasibility True / False / None of each constraint, satisfying selections | overall feasibility, undecided constraints, `improving` |
| Design space | `P/sketch/holes.py` | options of each hole, refinement depth, undecided properties, the Z3 solver shared by all families | subfamilies, `pick_assignment`, `exclude_assignment`, `sat_level` |
| Quotient | `P/synthesizers/quotient.py`, `P/hypersynthesizers/hyperquotient.py` | quotient MDP, colors of its actions, holes of its states | restriction to a family, chains of assignments, scheduler selections and scores, `split` |
| Models | `P/synthesizers/models.py` | an MDP or DTMC | checks a specification over a family or for one assignment |
| Synthesizers | `P/hypersynthesizers/hypersynthesizer.py` | worklist, result, explored count, timers | 1-by-1, AR, CEGIS, hybrid |
| Counterexamples | `storm/src/storm-synthesis/synthesis/Counterexample.cpp` | waves of states, the wave of each hole | `prepareDtmc`, `constructConflict`, `constructHyperConflict` |
| Statistics, profiler | `P/synthesizers/statistic.py`, `P/profiler.py` | counters, timers | output only; the hybrid method reads the timers |
| Storm, as this tool calls it | `storm/src/storm/utility/graph.cpp`, `transformer/SubsystemBuilder.cpp`, `SparseMdpPrctlHelper.cpp`, `SparseDeterministicVisitingTimesHelper.cpp` | none between calls | restriction of an MDP to selected choices, values with a scheduler that attains them, expected visits |
| POMDP synthesis | `storm/src/storm-synthesis/pomdp/PomdpManager.cpp`, `P/synthesizers/quotient.py`, `pomdp.py` | memory size of each observation, the unfolded tables, the holes of each observation, inconsistencies | `set_memory_size`, `inject_memory`, `unfold_memory`, `break_symmetry_3`; not reached from `cli.py` |
| Legacy synthesizers | `P/synthesizers/synthesizer.py` and others beside it | | not reached from `cli.py` |

The program is sequential, with one exception: several runs of it (the
benchmark scripts start one after the other under a timeout) share the sketch
file, which the parser rewrites in place. Loading a sketch parses it,
instantiates the quantified properties for its initial states and derives the
holes from the states of the quotient MDP. Then a synthesizer asks the quotient for a family's MDP
(or an assignment's chain), has Storm check it, combines the results of the
constraints, and then adopts an assignment, decides the family, splits it, or
excludes assignments from the solver. What is hard is that all decisions are
drawn from *partial* information that is kept longer than the step that
produced it:

- a family is checked against the constraints its ancestors left undecided,
  although the specification is a conjunction of disjunctions;
- selections of several constraints are merged into one assignment;
- clauses drawn from one assignment, one family's bounds and one optimum
  remain in a solver that later families use, in scopes that follow the depth
  of the worklist;
- the hybrid method may run out of time between any two of its steps;
- values are compared with two different tolerances, both with the optimum and
  with the thresholds of strict constraints;
- results of an earlier analysis of a family are reused for its assignments;
- a counterexample is drawn from a part of the chain, the rest being replaced by
  the bounds of the family;
- the actions of a family are filtered from those cached in its parent, and
  texts are instantiated in texts instantiated before;
- a selection of options stands for the value of a scheduler, although the
  scheduler is defined where the selection is not, and some selections are
  changed afterwards;
- memory grows under tables that number pairs of action and memory, and
  a row that writes memory its successor does not have yet falls back to none.

What makes each part correct: *specification*: a family that is pruned has no
satisfying member, and dropping constraints does not change which members
satisfy the specification; *split*: the parts are nonempty, disjoint, smaller
and cover the family; *solver*: a clause never excludes an assignment that
would improve on the result, and is in force as long as the family it serves;
*every method*: the result satisfies the specification, improves step by step,
and is optimal at the end; the loops terminate; *counterexamples*: all that a
conflict excludes violates the property; *analysis of a family*: a verdict is
right for every member, and a consistent selection is an assignment that
satisfies what it was found for; *memory*: the assignments of the holes are the
policies with memory, and memory that is added loses none of them; *loading*: only the sketch is parsed
and it is left as it was, the instantiated properties mean what the quantified
ones do, and the assignments of the holes are the policies of the sketch. The
complete list of hazards,
with their lines, is in `PROJECT.json`.

## 2. Modules

| Module | Models | Extends |
|---|---|---|
| `DesignSpace` | holes, families, members, subholes | |
| `HyperSpecification` | disjunction groups, three-valued results, short evaluation, undecided constraints, overall feasibility | |
| `SchedulerDifference` | the objective `MIN SD` / `MAX SD` and the assignments that optimise it | `DesignSpace` |
| `FamilyAnalysis` | tasks; the outcomes of analysing a family; the splits of an undecided family | the three above |
| `AssignmentAnalysis` | the analysis of one assignment, conflicts, and the subfamilies they exclude | `FamilyAnalysis` |
| `ARSynthesis` | abstraction refinement | `FamilyAnalysis` |
| `Enumeration` | 1-by-1 and CEGIS | `AssignmentAnalysis` |
| `HybridSynthesis` | the hybrid method, its solver scopes and timers | `AssignmentAnalysis` |
| `GraphAnalysis` | Storm's restriction, qualitative model checking with schedulers, recurrent states | |
| `SchedulerSelection` | the analysis of families, with `GraphAnalysis` in place of assumed verdicts: selections, scores, splits | `FamilyAnalysis`, `GraphAnalysis` |
| `PomdpUnfolding` | memory unfolded into a POMDP, the tables of its holes, the strategies that grow it | |
| `Synthesis` | abstract specification: what every method promises | `FamilyAnalysis` |
| `Counterexample` | the counterexample generator: waves, sub-chains with bounds, conflicts | `DesignSpace` |
| `SketchFile` | the sketch file while several runs parse it | |
| `QuantifierExpansion` | the instantiation of quantified properties | |
| `Quotient` | holes of states, structural equalities, actions of families and chains | |
| `HyperSketch` | the loading of a sketch | the three above |
| `Analysis_proofs` | lemmas on the analysis of families and of assignments | `AssignmentAnalysis` |
| `ARSynthesis_proofs`, `Enumeration_proofs`, `HybridSynthesis_proofs` | theorems on the synthesis methods | the module they are about, `Analysis_proofs` |
| `Counterexample_proofs`, `HyperSketch_proofs`, `PomdpUnfolding_proofs` | theorems on counterexamples, the sketch file and loading, memory | the module they are about |
| `SchedulerSelection_proofs` | theorems on the analysis of families inside | `SchedulerSelection`, `Analysis_proofs` |
| `MCARSynthesis`, `MCARPrecision`, `MCEnumeration`, `MCHybridSynthesis`, `MCCounterexample`, `MCHyperSketch`, `MCSchedulerSelection`, `MCPomdpUnfolding` | instances for TLC | |

### Correspondence with the code

*Data.* A family maps each hole to a nonempty set of options (`Holes`), an
assignment maps each hole to one option. The probabilities of the chains are
abstracted to `task.sat`, the assignments that satisfy each constraint, and
`task.val`, the objective's value of each assignment: these are what decides
every branch of the synthesizers.

*The model checker.* Storm is external. A scheduler of a family's MDP may be
inconsistent (two options for one hole), so its bounds are sound but may be
loose. `CheckConstraint` therefore admits every feasibility that is sound, and
demands an exact answer only of a family with one member. In the same way
`CheckOptimality` admits any consistent improving selection that the double
check accepts. A run of the real program is one resolution of these choices.

*Groups.* `CheckHyperConstraints` cuts the evaluation short at the first
infeasible group, as `MDP.check_hyperconstraints` does under
`short_evaluation`, and `OverallFeasibility` keeps the loop of
`MdpHyperConstraintsResult` as it is, where a later group overwrites what an
earlier one assigned: that this agrees with the intended conjunction is a lemma
(`NoInfeasibleGroup`, `InfeasibleSound`), which needs the short evaluation.

*AR.* `Iterate` is one iteration: pop (`PopIndex`, depth or breadth first),
analyse, then `Stop`, `Decide` (with `explore(family)`) or `Refine`. `Fail` is
the assertion of `scheduler_selection_quantitative_pctl`.

*Split.* `SplitOne` is the split by one hole with core options,
`SplitTwo` the split by two holes of hyperproperties. The scores choose among
splitters that are not trivial; the model allows each of them.

*Conflicts.* A counterexample is a set of critical holes. The generator replaces
the unexplored part of the chain by the bounds of the family's MDP, so that
whichever holes it returns, all completions within the family violate the
property too (`GroupConflicts`), as the generator compares values: a strict
comparison counts as violated unless it holds by more than exp(-5)
(`Counterexample.cpp:706-713`, `802-809`), while the specification accepts it
from 1e-4 on (`property.py:85-90`). `ClearlySat` takes the assignments in
between (`Narrow`) out of those that satisfy a strict constraint
(`StrictConstraint`). Its choice depends on probabilities and is left open. When the chain does not violate the objective all waves are expanded
and every hole that can be reached is critical (`ReachableHoles`).
`Generalization` is the clause of `exclude_assignment`.

*CEGIS and 1-by-1.* `excluded` keeps the clauses (or the visited combinations)
as the families they exclude. `Candidates` is what the solver may return.

*Hybrid.* `AnalyzeFamily` is the AR half of the outer loop, including
`sat_level`; `Pick` and `AnalyzeAssignment` are the two halves of the inner
loop; `TimeOut` is `cegis_has_time` answering no (at any test, also at the first
one), `NoAssignments` the solver answering unsat. `scopes` is the solver's
stack. `analyzed` is a history variable.

*Counterexample generator.* `Counterexample` is the inside of what
`AssignmentAnalysis` takes as given. `Expand` takes a state from the horizon of
the current wave, `StartWave` picks a blocking state whose hole is mapped to the
fewest states, registers the hole and unblocks the states that wait for
registered holes only (`exploreReplicatedDtmc`); which state is taken, of
several, is left open. `Check` builds the sub-chain up to a wave and compares
its values (`constructConflict`, `constructHyperConflict`). The states that are
not expanded get the bounds of the family's MDP, or default ones (`Bounds`,
`OtherBounds`). Successors are equally likely and the chains are acyclic, so that
values are integers out of `Scale`. A conflict for a hyperproperty is requested
only if the assignment violates it, and with bounds only if the family's
analysis left it undecided. Rewards differ in how the sub-chain is put together
and are not told apart. `ConflictSound` is what `GroupConflicts` in
`AssignmentAnalysis` rests on, with the same tolerance.

*Sketch file.* `ReadSketch`, `ExtendSketch`, `ParseSketch`, `TruncateSketch` and
`WriteBack` are the file operations of `parse_program`; the steps of two runs
may interleave, and `Kill` interrupts a run between any two of them. A file is
abstracted to whether it has the body of the sketch and how many declarations
of `sched_quant` were added. A write of a long file in several chunks is one
step.

*Instantiation.* `SpreadQuantifier` instantiates the next variable in all lines,
`ParseProperties` refuses an empty property and one with a variable that is not
quantified, which is no state (`int` in `parse_hyperproperty`, `parse_property`). A property is the sequence of the
states and variables it mentions; a line is a sequence of properties because an
empty text disappears at its start and nowhere else (`Spread`). The states of a
scheduler are found through `sched_quant` (`VisibleStates`).

*Quotient.* One step for each state of the quotient MDP: `SkipState`,
`JoinHole`, `CreateHole`, or `FailEqualities` for an assertion that fails. A
hole is known by its name and schedulers, the options of a shared hole by the
labels of the choices. `BuildQuotient` is the design space and the first
`build`, `BuildSubfamily` a `build` that filters the actions of the parent.

*Storm's graph algorithms.* `GraphAnalysis` gives a state a sequence of rows,
each a set of successors. The searches of `graph.cpp` keep a stack; where only
the set they end with matters it is a fixed point here (`Saturate`), where the
order decides which row a scheduler takes (`computeSchedulerProb1E`) the stack
and the order of predecessors are kept. An expected number of visits is positive
and finite, or infinite.

*Selections.* `SchedulerSelection` is the inside of what `FamilyAnalysis` takes
as given, for specifications about reaching one target. `Build` restricts the
quotient to a family and the states it reaches, `CheckConstraints` checks the next constraint of
the current group, `Conclude` combines the results, `SplitFamily` scores and
splits, and `Descend` goes on with any one of the parts, so that all families
that the worklist would hold are visited. Values other than 0 and 1 belong to
the numeric solver: a family with such a value ends in the status `numeric`. Of
a score it is kept whether it is positive; any hole with a positive score may be
the best one. `Promoted` is the selection that is made consistent when all scores
are zero. Each part is smaller than its family, so that there is nothing to say
about termination beyond `SplitsAsAbstract`: only `Finished` repeats itself.

*POMDP.* `SetMemorySize` and `InjectMemory` change the memory of observations,
`UnfoldMemory` is `construct_mdp` with the tables of the manager and those that
`unfold_memory` derives from them, `BreakSymmetry` is `break_symmetry_3`. The
strategies are `strategy_iterative` (memory 1, 2, 3, ... for all observations)
and `strategy_expected` (one more for the observation of the hole that was
inconsistent). What synthesis finds is left open: any selection within the
family.

*Exceptions.* The steps that raise (`Fail`, `Consult`, `NotSupported`, `Raise`,
`FailDeadlock`)
end in the status `failed`; nothing catches these exceptions.

## 3. Runs

| Run | Instance | Shows |
|---|---|---|
| `ar_synthesis` | 2 holes with 2 options, 2 groups, all objectives, both orders, both directions, tolerance 1 in the comparison of values | the safety properties, termination and the refinement of `Synthesis` |
| `ar_assertion` | a hole with three options and one with two, of which the objective looks at the first only, one constraint | *violation*: the assertion that a hole is left to score fails |
| `enumeration` | holes with 3 and 2 options, groups {1,2} and {3}, all objectives; a coarser comparison in the generator and two strict constraints that some assignments satisfy narrowly | what 1-by-1 and CEGIS lose lies within the tolerances, termination, refinement |
| `enumeration_conflict` | constraints about other initial states than the objective | *violation*: the conflict of the objective excludes a better solution |
| `hybrid_synthesis` | 2 holes with 2 options, a disjunction and a single constraint, both orders; the constraint and a disjunct are strict, and some assignments satisfy them narrowly | solver depth, what is lost lies within the tolerance, no repeated analysis, termination, refinement |
| `hybrid_disjunction` | all constraints are hyperproperties | *violation*: a disjunct found infeasible has no bounds to use |
| `counterexample` | nine states, three holes of which two are shared, two targets, three families; thresholds and hyperproperties, both directions, strict or not, with and without bounds (without them for two targets) | the waves overlook nothing, conflicts are sound |
| `counterexample_multitarget` | a hyperproperty about two targets, with bounds | *violation*: a conflict excludes an assignment that satisfies it |
| `hyper_sketch` | two runs on one file, ten formulas with up to three variables, nine quotient MDPs with up to four states | the file is safe, instantiated properties are right, holes match the sketch |
| `scheduler_selection` | two initial and two inner states, a goal, a sink; a hole with two and a hole with three options that states share; the disjunction of a hyperproperty and a property, and a hyperproperty | values, schedulers, verdicts, selections and splits are right, no assertion fails |
| `scheduler_promotion` | the same instance | *violation*: a promoted selection is reported and does not satisfy the specification |
| `pomdp_unfolding` | six POMDPs of three or four states, up to three memory states | the holes are policies with memory; more memory loses none |

### Properties

- `TypeOK` (each component): includes that no split leaves a hole without
  options, that every clause is a subfamily of the design space and, in the
  hybrid method, that the solver's depth follows the worklist.
- `InheritedIndicesSuffice`: for the members of a pending family, satisfying the
  constraints it still checks is the same as satisfying the specification.
- `ResultSatisfiesSpec`: the result satisfies every group, and the optimum is
  its value.
- `NoSolutionLost`: every assignment that would improve on the result is still
  to be found: in a pending family, or excluded by no clause. It is checked of the
  AR loop, and proved of the others where nothing lies between the tolerances.
- `LossWithinTolerance`: the same of every assignment that improves on the result
  by more than the larger tolerance and satisfies the specification with its
  strict constraints holding by more than the generator's. It is checked of CEGIS
  and the hybrid method, which do not have `NoSolutionLost`.
- `ExploredAddsUp`: explored and pending assignments add up to the design space.
- `OptimumImproves`: an action property, no step worsens the optimum.
- `NoRepeatedAnalysis`: the hybrid method never analyses an assignment twice,
  although scopes are popped.
- `WavesRegistered`, `EachWaveRegisters`, `ExplorationClosed`: the holes of the
  states of a wave are registered by then; each wave registers a hole; every
  successor of an expanded state is expanded, queued or blocking.
- `ConflictSound`: all assignments of the family that agree with the analysed
  one on a conflict violate the property, up to the tolerance, or have its values.
- `OnlySketchAccepted`: whatever other runs do, or left behind when killed, the
  content a run goes on with and writes back is the sketch.
- `FileRestored`: the file is the sketch unless a run has extended it and not
  written it back.
- `LoadedFormulaCorrect`: whichever properties hold, the instantiated lines hold
  if and only if the quantified formula does, for distinct initial states. It is
  stated for programs that have `sched_quant`, line by line, and for lines whose
  existential properties mention the universal variables of the line: the code
  keeps the states of a property apart, not those of a line.
- `HolesMatchSketch`: the assignments of the holes are exactly the policies that
  choose alike in related states, and their chains have one action in each
  state. It is stated for related states that have the same labels and as many
  choices.
- `FamilyHasChains`: after any sequence of splits the actions of a family's MDP
  are those of its members' chains.
- `ValuesExact`: the states said to have value 0 or 1 are those where the best of
  all memoryless schedulers, by enumeration, attains it, in both directions.
- `SchedulerAttains`: the scheduler that comes with the values attains them in
  every state at once.
- `VerdictsSound`: what is found for a constraint of a family is one of the
  verdicts `FamilyAnalysis` allows, by the chains of all members.
- `SelectionsSatisfy`: whenever a selection is reported, every way to fill its
  open holes satisfies the specification, unless it was promoted.
- `AssertionsHold`: an undecided family has a hole to split on, no maximum is
  taken of nothing, and a state is without action only when related states had
  different choices.
- `SplitsAsAbstract`: a split is one of those of `FamilyAnalysis`.
- `AssignmentsArePolicies`: each option of a state's hole selects one row of the
  unfolded MDP, the row with the action and memory update that the option's
  number encodes; action and memory holes pair up.
- `EntriesInOrder`: the entries of a row come in the order the matrix builder
  needs.
- `SymmetryBroken`: breaking the symmetry leaves each action and update to some
  hole, and no hole has all the inconsistent actions again.
- `MemoryOnlyHelps`: an action property, an unfolding with more memory simulates
  every option of the one before.
- `RefinesSynthesis`: each method implements `Synthesis`.
- `Terminates`: liveness, see below.

`VerdictsSound`, `SelectionsSatisfy` and `SplitsAsAbstract` are what
`FamilyAnalysis`, and with it every synthesis method here, assumes of the
analysis of a family; `ConflictSound` is the corresponding one for
`AssignmentAnalysis`.

### Bounds

Apart from `MaxMemory`, there are no counters to cut off: the state spaces are finite because families
get smaller, and every run explores its instance completely. Two holes are
needed to have an inconsistent selection, a two-hole split and a conflict that
is not the whole assignment; three options to have core options and others, or a
clause that keeps one of several; two groups, one of them a disjunction, to have
a short evaluation, a masked undecided constraint and a merged selection. The
tasks are chosen so that there are none, one and several solutions, that the
best value is that of an assignment the constraints exclude, and that an
undecided disjunct is dropped because another holds.

Of the strict constraints of `enumeration` and `hybrid_synthesis` one is in a
disjunction and one is alone: an assignment may satisfy one disjunct narrowly and
another clearly. In `enumeration` the generator does not tell neighbouring values
apart either (`conflict_precision` is 1); in `hybrid_synthesis` it does, so that
the value of the last result is the best one of all that satisfy the constraints
clearly. `NoSolutionLost` is violated in both instances, so that the tolerances
make a difference there.

For the counterexample generator two holes are shared by two states each, so that
one registration unblocks several states and others keep waiting; both initial
states reach common states, and thresholds are below, at and above the values of
the chains. Two runs are enough for the sketch file, as a third
one can leave no content that two cannot (the proofs cover any number). The
formulas have every order of quantifiers the parser accepts, overlapping sets of
states, variables without a state left, and one that is not quantified; the quotient MDPs have related
states with reordered, missing and repeated labels, states without a choice, the
same equality for two schedulers, and two equalities for one state.

The sketches of `scheduler_selection` have end components with and without the
goal, states that only one scheduler reaches, holes shared by an initial and an
inner state (the shape in which a selection is inconsistent), rows with two
successors, a state with fewer actions than its hole, and values that are
neither 0 nor 1. Two options cannot tell core options from others; three can. The POMDPs
have observations with an action hole, a memory hole, both or neither, shared or
not, and not in the order of their states; three memory states are needed for
observations to grow twice, unevenly, and `MaxMemory` is that bound.

Deadlock is checked in all runs but those whose program stops for good:
`strategy_expected` when the optimum is reached, and both strategies at
`MaxMemory` (`pomdp_unfolding`).

### Fairness

`FairSpec` states weak fairness of the loop as a whole: the program is one
thread that waits for nobody, so some next step is taken as long as there is
one. No fairness is stated for any particular branch: neither the timers nor the
model checker have to be favourable.

### Mutants

Each property of a passing run comes with a variant of a definition, written
just before it with a comment that starts with *Mutant*, that changes it as a
plausible bug would; the property fails under it. The variants are not used
anywhere else.

## 4. Disagreements found

1. `ar_assertion`: `hyperquotient.py:168` can fail. A split at the objective's own
   hole leaves a family where this hole is trivial and another one is not, so that
   its MDP is no DTMC (line 120). There is no optimum yet, so the primary bound
   improves on it (`models.py:304`); the scheduler is consistent, and lines 157-168
   then look for a hole with several options among those of the objective's state.
   There is none. No tolerance plays a part in it, and it happens before
   any assignment is checked again.
2. `enumeration_conflict`: `hypersynthesizer.py:257-261` builds a conflict for
   the objective even when it is not violated, against the comments at lines 244
   and 263.
3. `hybrid_disjunction`: `hypersynthesizer.py:282` reads the secondary result of
   a disjunct that has none.
4. `counterexample_multitarget`: `hypersynthesizer.py:282` passes bounds of the
   first target for the second formula of a hyperproperty about two targets
   (`models.py:368`).
5. `scheduler_promotion`: when all scores of the inconsistent holes are zero,
   `hyperquotient.py:227-256` keeps one option of each ("promote any choice") and
   goes on as if the scheduler had been consistent. `models.py:389` then takes it
   for a "SAT instance" and `hyperresult.py:99` returns it as "a SAT assignment".
   In the trace states 1 and 3 share a hole, every maximal value is 1, so that all
   scores are 0; the option that is kept leads from 1 to 3 and from 3 to 1, and the
   goal is never reached. Only an objective has its assignment checked again, so
   without one a wrong result is reported. `ResultSatisfiesSpec` of the
   synthesis methods holds under the assumption that no selection is promoted.

Five more things were met that no document contradicts, and are hazards rather
than disagreements: a run that overlaps another may parse the sketch without
`sched_quant` and lose all universal lines; a property with no distinct state
left is dropped if it is first in its line and fails to parse otherwise; a state
with fewer choices than the hole it joins has no action under some options, and
so may one with the same labels, if the state that created the hole has a label
twice (labels are compared as sets, options are counted); 1-by-1 under `--explore_all` reads the result of a scheduler difference that the
specification may not have (`hypersynthesizer.py:110`); a conflict is drawn with
the tolerance exp(-5) (`Counterexample.cpp:702-713`, `798-809`) where improvements
and strict constraints are compared with 1e-4 (`property.py:142-144`, `85-90`): it
may exclude an improvement that would be accepted, and, with or without an
objective, an assignment whose strict constraints hold by less than exp(-5).
How much may be lost by that is checked (`LossWithinTolerance`) and proved
(`LossBounded`, below).

`enumeration` and `hybrid_synthesis` pass under the assumptions complementary to
those of the two violations: `SingleState`, a constant of `AssignmentAnalysis`, and
the choice of `HyperConstraint`.

## 5. Proofs

All theorems hold for every value of the constants that satisfies the named
assumptions: finitely many holes and options, disjoint nonempty groups that cover
the constraints, disjoint matching pairs, natural tolerances, any set of strict constraints with any
assignments near their thresholds, and tasks of the declared type. `HybridSynthesis` needs that `None` is not a family
(`NoneAssumption`), the loading that two structural equalities with the same text
have the same states (a hole is named after the text, `SketchesAssumption`) and
that a model has finitely many initial states, which are not the names of variables,
that no two variables of a formula have the same name and that universal quantifiers
come first, both of which `parse_state_quants` checks (`FormulasAssumption`), that the
run whose sketch is loaded is one of the runs (`SelfAssumption`), and the counterexamples that a chain has finitely many states and a request at most two
targets (`QuotientAssumption`).

### Analysis

`Analysis_proofs` has two parts. The first states what the analysis and the split of a family
guarantee, and the three methods that analyse families rest on it:
`InfeasibleSound`, `FeasibleSound` and `UndecidedSuffice` (the combination of
three-valued results), `SelectedSatisfies` (merged selections), `SplitPartitions`
(the parts of both splits cover the family and are disjoint), `DifferenceBound` and
`DifferenceAttained` (the scheduler difference of a family bounds that of its
members and is attained by `assume_optimizing_options`), `OptimalitySound`,
`SchedulerHyperOptimalitySound` and `OutcomeSound` (every outcome).

The second does the same for one assignment: an adopted result
satisfies the specification and has the value of the optimum, and a clause
excludes a subfamily that contains the assignment and nothing that would be
better by more than the tolerances (`GroupConflictSound`,
`OptimalityConflictSound`, `ExclusionSound`). As the generator reads strict
constraints more strictly, it is not enough that the inherited constraints decide
the specification (`Suffices`): a disjunct that was dropped might have held clearly
where the ones that are left hold narrowly. It cannot, because only infeasible
disjuncts are dropped from a group that is still investigated (`NothingDropped`,
`UndecidedInvestigated`). The proofs about `ARSynthesis` and
`SchedulerSelection`, which never analyse a single assignment, cite the first part only
and none of the assumptions of `AssignmentAnalysis`.

### Abstraction refinement (`ARSynthesis_proofs`)

| Theorem | States |
|---|---|
| `Invariance` | `Spec => []IInv` |
| `TypeCorrect` | `Spec => []TypeOK` |
| `InheritanceCorrect` | `Spec => []InheritedIndicesSuffice` |
| `ResultCorrect` | `Spec => []ResultSatisfiesSpec` |
| `SearchComplete` | `Spec => []NoSolutionLost` |
| `OptimumMonotone` | `Spec => OptimumImproves` |
| `ExploredCorrect` | `Spec => []ExploredAddsUp` |
| `Refinement` | `Spec => RefinesSynthesis` |

`IInv` conjoins `TypeOK`, `InheritedIndicesSuffice`, `ResultSatisfiesSpec`,
`NoSolutionLost` and that there is no optimum as long as there is no result. None
of them is inductive alone. That a pruned family has no improving member needs
that its remaining constraints stand for the whole specification; that a dropped
constraint can be dropped needs that the family was not infeasible as a whole;
that no improving assignment is lost when the optimum changes needs that the
optimum is the value of the result, and that improving is transitive (with a
tolerance it is). The proof that a step preserves `IInv` has one lemma for each of
`Stop`, `Decide` and `Refine`; the proof of the refinement has one too.
`ExploredAddsUp` needs, beside `IInv`, only that the parts of a split are
disjoint and cover the family.

### 1-by-1 and CEGIS (`Enumeration_proofs`)

| Theorem | States |
|---|---|
| `TypeCorrect` | `Spec => []TypeOK` |
| `LossBounded` | `Spec => [](SoundSearch => LossWithinTolerance)` |
| `SearchComplete` | `Spec => [](ExactSearch => NoSolutionLost)` |
| `Refinement` | `Spec /\ SoundSearch => RefinesSynthesis` |

`NoSolutionLost` is not inductive, nor is it true for all constants: a clause is
drawn with one tolerance, and improvements and strict constraints are accepted
with another. `LossWithinTolerance` says instead that no excluded assignment is
better than the result by more than the *larger* of the two and satisfies its
strict constraints by more than the generator's; it is inductive together with the
optimum being the value of the result, because a better result only makes fewer
assignments worth having. Its hypothesis `SoundSearch` concerns CEGIS with an
objective, where the conflict of the objective must be about the same state as
the constraints (the complement is the violation that `enumeration_conflict`
shows). `ExactSearch` asks of CEGIS in addition that no assignment satisfies a
strict constraint narrowly and, with an objective, that conflicts are no less
exact than the optimum (`ConflictsExact`); then nothing at all is lost. Both
hypotheses hold for 1-by-1, and the first for CEGIS without an objective. The
second then still asks that no strict constraint holds narrowly. `Refinement`
needs `SoundSearch` only, as what `Synthesis` promises at the end leaves room for
the tolerances (`Respected` and `Margin` for its `respected` and `margin`).

What this says of the program: its conflicts are drawn with exp(-5), about
0.0067, and its improvements and strict constraints compared with 1e-4, so that it
is `LossBounded` that applies. If the strict constraints are to hold by more than
exp(-5), then no solution is lost without an objective; with one, and if all is
about one state, the optimum that CEGIS reports is within exp(-5) of the best
value, and not within 1e-4. An
assignment that satisfies a strict constraint by less may be lost, whatever its
value. Without strict constraints and without an objective nothing is lost.

### Hybrid method (`HybridSynthesis_proofs`)

| Theorem | States |
|---|---|
| `TypeCorrect` | `Spec => []TypeOK` |
| `AnalyzedOnce` | `Spec => []NoRepeatedAnalysis` |
| `LossBounded` | `Spec => [](ConflictsSound(task) => LossWithinTolerance)` |
| `SearchComplete` | `Spec => [](ExactSearch => NoSolutionLost)` |
| `Refinement` | `Spec /\ ConflictsSound(task) => RefinesSynthesis` |

The invariant says, part by part, why it is safe to share one solver:

- `PhaseInv`: which of the current family and assignment exist in which phase;
- `DepthInv`: depth first, no pending family is deeper than the current one and
  the worklist is sorted by depth, so that the scopes a family pops are never
  those of a family further down; breadth first there is a single scope;
- `IndicesInv`: the constraints each family inherits, and those the analysis of
  the current one left undecided, stand for the specification, also where it is
  read more strictly (`Investigated`);
- `DisjointInv`: pending families and the current one share no assignment;
- `AnalyzedInv`: an analysed assignment of a pending family is excluded by a
  clause in a scope that survives until that family is served (`Kept`);
- `LossInv`: `LossWithinTolerance` in terms of the worklist and the scopes, an
  assignment that would be better by more than the tolerances is in a pending family or
  in the current one and excluded by no clause.

`AnalyzedInv` is what `NoRepeatedAnalysis` needs and it is not inductive without
`DepthInv` (a popped scope might have held the clause) and `DisjointInv` (the
assignment might be pending elsewhere). The timers may run out at any step; a
timeout moves the current family to the parts it is split into, with the clauses
kept. The hypotheses are those of CEGIS, and the same remark on the tolerances
applies; `respected` and `margin` of `Synthesis` are those of CEGIS too.

### Counterexamples (`Counterexample_proofs`)

It proves, for every chain and every order in which states
are expanded, `TypeCorrect`, `WavesAreRegistered`, `WavesAreBounded` and
`NothingOverlooked`. The invariant adds to these properties that the states of
the horizon can be expanded and those that block cannot: without it a wave
might register no new hole, or expand a state whose hole is not registered.

`ConflictCorrect` is the soundness of conflicts,
`Spec => [](BoundsOfTargets => ConflictSound)`. `BoundsOfTargets` leaves out one
case, a hyperproperty about two targets whose request has bounds: they are the
bounds of the first target, the code uses them for the second one as well, and
`counterexample_multitarget` shows a conflict that is wrong for it (section 4).
The invariant (`ConflictInv`, TLC checks it too) records that the initial states
are reached and why a conflict was returned: its holes are those registered at some
wave, and at that wave the values of the sub-chain violated the property. The argument
then has three parts:

- the bounds of the family bound the value of every state in the chain of every
  member (`BoundsSound`);
- a sub-chain with the bounds in place of what is not expanded has values on one
  side of those of every chain that contains it (`SubValuesBelow`,
  `SubValuesAbove`);
- the members of the family that agree on the conflict have the same successors in
  the states expanded by that wave (`CompletionsAgree`, `SameSubChain`).

Values are defined by recursion over the acyclic state order. That a recursive
function has the values its definition says is shown once, for any such order
(`FixedPoint`), and comparisons go through the last state at which they would
fail (`FromTheLast`). Averages are rounded by division; that this keeps the
order is `QuotientMonotone` and `AverageMonotone`.

### Loading (`HyperSketch_proofs`)

The first part is about the sketch file alone (`FileSpec`) and proves
`SketchAccepted` and `SketchRestored` for any number of runs and schedulers. The
invariant adds that a run about to truncate or write the file has extended it,
and that a run with one scheduler never does.

| Theorem of `HyperSketch_proofs` | States |
|---|---|
| `TypeCorrect` | `Spec => []TypeOK` |
| `FileShared` | `Spec => []OnlySketchAccepted /\ []FileRestored` |
| `ChainsOfFamily` | `Spec => []FamilyHasChains` |
| `HolesOfSketch` | `Spec => HolesMatchSketch` |
| `LoadedFormulas` | `Spec => LoadedFormulaCorrect` |

`FileShared` composes: a step of the loading is a step of `SketchFile` or leaves
the file alone (`LoadingUsesFile`), so the theorems of `SketchFile` carry over.
`ChainsOfFamily` and `HolesOfSketch` need an invariant of the construction (`QuotientInv`) that says
which hole each processed state has: one with the key of the state, which the
state created or joined by its labels (`HolesInv`); each hole has a state that
created it (`CreatorsInv`), no two holes have the same key (`KeysInv`), of two
states of a hole at most one created it (`JoinedInv`); and the actions of a
family, reached by any splits, are those selected from the whole quotient by its
options (`FamilyInv`). `ChainsOfFamily` then compares two selections.
`HolesOfSketch` needs that two states share a hole if and only if they are
related (`SameHole`), and that a state with as many choices as its hole has
options, and the same labels, has exactly one choice for each option: a pigeonhole
argument on the positions of the labels (`OptionsOnto`). Without "as many" it is
false, as a quotient MDP with a repeated label shows to the proof as well as to TLC.

`TypeCorrect` includes that joining lines keeps the type of the properties
(`FlattenType`). The join is a fold over a sequence, and the statement for all
lengths is shown by a least counterexample, as the induction theorems of the
library cannot be instantiated.

`LoadedFormulas` needs to know what the lines say after some of the quantifiers, when
their properties mention states as well as variables. A line with universal variables
left says (`HoldsStill`) that for all distinct states of these, other than those that
the line mentions already, one of its properties holds for some states of its
remaining variables, other than those that the property mentions (`HoldsFor`).
`SayTheSame`, the part of the invariant that matters, is that the lines say this
exactly if the formula holds, whichever properties hold. The steps rest on two facts:
one universal variable of a line can be replaced first (`HoldsVertically`), and one
existential variable of a property can (`HoldsHorizontally`). For the former a property with
existential variables has to mention all universal variables of its line, or the states
that are kept apart are not the same before and after: this is where `Separable`
is used, and the invariant includes that each line stays so. For the latter no universal
variables may be left (`OnlyExistentialLeft`), which is why the parser's check on the
order of quantifiers matters. A property without instances says nothing, so that it
makes no difference whether its empty text is kept or lost (`SpreadMembers`). In
the end no variable is left and a line holds if one of its properties does
(`FinalLine`). `ToldApart` must stay as it was once the run has parsed its program, as other
runs go on changing the file (`ParsedStays`).

### The analysis of families inside (`SchedulerSelection_proofs`)

| Theorem | States |
|---|---|
| `TypeCorrect` | `Spec => []TypeOK` |
| `VerdictsAreSound` | `Spec => []VerdictsSound` |
| `SplitsAreAbstract` | `Spec => []SplitsAsAbstract` |
| `ValuesAreExact` | `Spec => []ValuesExact` |
| `SchedulersAttain` | `Spec => []SchedulerAttains` |
| `SelectionsAreRight` | `Spec => []SelectionsSatisfy` |
| `AssertionsAlwaysHold` | `Spec => []AssertionsHold` |

They hold for every finite sketch, family and order of constraints.
`VerdictsAreSound`, `SplitsAreAbstract` and `SelectionsAreRight` discharge what
`FamilyAnalysis` assumes of verdicts, splits and reported selections, for properties
whose values are 0 or 1. The assumption on a sketch (`SketchesAssumption`) is

- that rows lead to states of the sketch and options are those of the state's hole;
- that the actions of a state have different options: `hyperquotient.py:82` asserts
  it where a hole is shared, and numbers them where one is created (line 98);
- that the states a constraint's state reaches have only holes that are relevant for
  it. With several schedulers each state carries the variable `sched_quant`, which
  sketches may not mention (`hyperparser.py:249`), so a run stays with its scheduler;
  and a hole takes the initial states of its scheduler (`hyperparser.py:502`), among
  them those that the constraints were instantiated with (line 320).

`VerdictsSound` and `SelectionsSatisfy` speak of sketches in which every option of a
hole is an action of each of its states (`Matched`: the assertion of
`hyperquotient.py:81`, which only looks in one direction).

*Loops.* The graph algorithms are recursive functions over the subsets of
a finite set. That such a function exists is shown for any iteration
(`IterationExists`: it is a function of the elements an orbit ends in); that it
ends in a least or greatest set by taking an orbit's largest element
(`GrowthCloses`, `ShrinkingEnds`). Folds are treated likewise: a fold passes through one
value after each element (`FoldTrace`). From then on every algorithm is known by a
least or greatest set, and nothing is unfolded.

*Chains and bounds.* A chain that takes rows of the MDP (`ChainIn`) never reaches the
target from a state with maximum 0, surely reaches it from one with minimum 1
(`Prob0AIsNever`, `Prob1AIsSurely`), and conversely (`NeverIsProb0E`,
`SurelyIsProb1E`). The chain of a member is such a chain, although it has states that the
family's MDP lacks; so the verdicts are right (`VerdictSound`).

*Attainment.* The other half needs a scheduler. For value 0 and for
minima a row that stays in the right set will do (`StayingIsNever`). For maximum 1 it is
the search of `computeSchedulerProb1E`, whose choice depends on the order in which
states are visited: its invariant (`Found`) is that each state found has a row that stays
in the set and leads to a state found before it, and that what the states searched
lead back to has been found (`Exhausts`). Each state is pushed once, so that as
many steps as there are states empty the stack (`StepFinds`), and at the end all states
of the set are found (`SearchReaches`). Then no set can be left closed without the
target, by the state found first among those (`MaximumAttained`).

*The invariant.* `IInv` says that `mdp` is the restriction of the sketch to the family
and reachable states (`IsModel`), that each result is unchecked or fits this
model and family (`ResultOK`), and that the parts are a split of the family. An undecided
result keeps scores and selections until a later step splits on them; the split is one of
`FamilyAnalysis` only because holes with a score have several options in the
*present* family and the options used or ranked are among them (`UndecidedOK`).

*What is selected.* A member that fills the open holes of a consistent selection has a
chain that agrees with the scheduler's on all states the initial state reaches
(`FollowsScheduler`, `ValuesAlike`), so it has the scheduler's value there, and each
selection listed for a constraint satisfies it (`CheckSolutions`). Merging joins
selections that agree, and an assignment that fills the joint selection fills both
(`JointFills`); by the fold over the groups each merged selection satisfies every
group that was evaluated (`SatSelections`). The condition that no selection was
promoted is needed: `scheduler_promotion` is a run that violates the property without
it.

*Why there is a hole to split on.* If no hole is scored, all states that the
constraint's state reaches have rows that are alike (`TrivialRows`), all schedulers
give it the same value (`UnscoredValue`), and the two bounds decide the constraint
(`UndecidedScored`). This is where the second and third assumption above are used. The
second part of the invariant, `ResultsInv`, carries both facts from the check of a
constraint to the end of the analysis, together with the reason for the status:
a family that is split has a group that is neither satisfied nor refuted, hence an
undecided constraint (`UndecidedSome`).

### Policies with memory (`PomdpUnfolding_proofs`)

| Theorem | States |
|---|---|
| `UnfoldingInductive` | `Spec => []IInv` |
| `TypeCorrect` | `Spec => []TypeOK` |
| `PoliciesAreAssignments` | `Spec => []AssignmentsArePolicies` |
| `EntriesAreInOrder` | `Spec => []EntriesInOrder` |
| `SymmetryIsBroken` | `Spec => []SymmetryBroken` |
| `MemoryNeverHurts` | `Spec => MemoryOnlyHelps` |

They hold for all POMDPs and every `MaxMemory`. The assumption on a POMDP
(`PomdpsAssumption`) is that it is canonic, as `MakePOMDPCanonic` makes it: states with
the same observation have the same number of actions; that it has no deadlocks, and that
every observation is some state's. `UnfoldedAssumption` says that the tables are not the
value `None`, which stands for their absence.

*The invariant.* The properties speak of the present tables and of what is recorded, and
neither says where it comes from. `Tables` adds that the tables are those of some
memory sizes, which have only grown since; `Phases` at which points the sizes are the
present ones, that both strategies start with memory 1 and `strategy_iterative` keeps all
sizes equal, and what the family is after the symmetry was broken. `Recorded` is the
part that is not obvious: the updates recorded as inconsistent are options of the
memory that the observation's successors have *now*, although they were recorded under
smaller sizes (`RecordedGrows`: more memory, no fewer updates), and an observation with
two inconsistent actions has at least two memory states. Without the former,
`break_symmetry_3` might leave options that the holes do not have; without the latter it
would leave the inconsistent actions in a single hole.

*Places.* The tables are sequences joined from blocks of different lengths. A
sequence of blocks keeps their order, and place k of block i lies behind the sum
of the lengths before it (`FlattenElements`, `PlaceInBlock`, `FlattenPlaces`); from
then on each table is known by its places: the duplicates of a state (`StatesInPlace`), the
rows of a state (`RowsInPlace`), its entries in the table of options
(`EntriesInPlace`), the holes of an observation (`ManagerHolesInPlace`,
`HolesOfObservation`). The recursions are over the natural numbers, and each is shown
by the least number at which it would fail (`InductionUpTo`).

*Policies.* An option is an action times the number of updates plus an update
(`Encode`, `Decode`), which is also the row's place among the rows of its state.
So exactly one row of a state carries an option's entry (`RowOfColor`), and it leads where
the action and the update say (`StepOfColor`); a state without a hole has one row and one
empty entry. The manager counts action and memory holes together, the container counts
the merged ones, and both count each of theirs once (`HolesInPairs`).

*Order of entries.* `translateState` keeps the order of the prototypes, as the duplicates of a
state come together (`PlacesInOrder`); in the order that the mutant builds it would
not.

*Symmetry.* `Distribute` deals items to holes in rounds, and goes on until both the items
and the holes are through: every item is given to some hole and every hole gets one
(`DistributeFacts`). Two or more items are never all given to one of two or more holes:
of each two rounds next to each other, the holes differ.

*More memory.* A state of the new tables was a state of the old ones, with memory that it
did not have yet taken for 0 (`Before`). An option of the old hole is matched by the new
option with the same action and update, which the new hole has (`MoreUpdates`), and all
states with the old hole have the new one or one of its copies (`SameHole`). Where it
leads, new memory appears only where the old step would have had 0
(`BeforeTranslate`).

### Only model-checked

- `Terminates`: liveness is out of the prover's reach.

## 6. Not modelled, and the plan

Not modelled because nothing depends on it: output, statistics, hints for value
iteration, flags that no option sets (`incomplete_search`,
`use_optimum_update_timeout`, `only_ar`, `only_cegis`). Not modelled because
nothing reaches it: the legacy synthesizers and containers, and in the POMDP
part rewards, `break_symmetry`, `break_symmetry_2` and `buildTransitionMatrix`.
Epsilon-optimality is taken with epsilon 0.

Not modelled because it is out of TLC's reach: numeric solvers and rewards, and
the exact scores of holes, which are quotients of real numbers. The models take
any sound outcome for them (`FamilyAnalysis`), or the part that is decided by
the graph (`SchedulerSelection`).

By far most of the repository is Storm, a general model checker that was vendored with its
parsers, symbolic engines, solver bindings and code generators, and stormpy with its
own copy of pybind11. This tool calls a small part of it; that
part is modelled where it has logic that the synthesis depends on (`Counterexample`,
`GraphAnalysis`, `PomdpUnfolding`), and the rest is outside the models'
boundary. What they cover is therefore a small share of all lines and a large one
of `P/hypersynthesizers` and `storm-synthesis`.

Every invariant and action property of the passing runs is stated by a theorem. What
remains is liveness (`Terminates`).
