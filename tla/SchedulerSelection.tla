-------------------------- MODULE SchedulerSelection --------------------------
(***************************************************************************)
(* The analysis of families with the model checker in place of the         *)
(* assumptions of FamilyAnalysis: a family's MDP is built, the schedulers  *)
(* that attain its bounds are mapped to the options they select, holes are *)
(* scored by how much the selections matter, and the family is solved,     *)
(* refuted or split (HyperPropertyQuotientContainer in                     *)
(* hypersynthesizers/hyperquotient.py, MDP.check_property and              *)
(* check_hyperproperty in synthesizers/models.py, hyperresult.py).         *)
(*                                                                         *)
(* All properties are about reaching target, and a family with a state     *)
(* whose value is neither 0 nor 1 is not followed.  Of scores, being zero  *)
(* or positive is kept: any hole with a positive score may be the best.    *)
(***************************************************************************)
EXTENDS FamilyAnalysis, GraphAnalysis

CONSTANT Sketches

(***************************************************************************)
(* A quotient MDP with its target, the hole of each state (0 when it has a *)
(* single action) and the option of each of its rows, the initial states   *)
(* of each hole's schedulers, and the constraints.  No two actions of a    *)
(* state have the same option ("index not in index_list").  A constraint's *)
(* states reach only holes of their scheduler, since no command assigns    *)
(* sched_quant, which is a reserved word (parse_formulas_and_check_init,   *)
(* parse_scheduler_variable).                                              *)
(***************************************************************************)
ASSUME SketchesAssumption ==
  /\ Hole \subseteq Nat \ {0}
  /\ Option \subseteq Nat
  /\ Constraint \subseteq Nat /\ IsFiniteSet(Constraint)
  /\ \A q \in Sketches :
       /\ q.rows \in Seq(Seq(SUBSET (DOMAIN q.rows)))
       /\ \A s \in DOMAIN q.rows : \A r \in DOMAIN q.rows[s] :
            Cardinality(q.rows[s][r]) \in 1..2
       /\ q.hole \in [DOMAIN q.rows -> Hole \cup {0}]
       /\ q.initial # {} /\ q.initial \cup q.target \subseteq DOMAIN q.rows
       /\ \A s \in DOMAIN q.rows :
            IF q.hole[s] = 0 THEN Len(q.rows[s]) = 1
            ELSE q.options[s] \in Injection(DOMAIN q.rows[s], Options[q.hole[s]])
       /\ q.initial_states \in [Hole -> SUBSET q.initial]
       /\ \A c \in Constraint :
            q.constraint[c] \in [minimizing : BOOLEAN, strict : BOOLEAN,
                                 state : q.initial, other_state : q.initial]
       /\ \A c \in Constraint :
            \A i \in {q.constraint[c].state, q.constraint[c].other_state} :
              \A s \in ReachableFrom(q, i) :
                q.hole[s] # 0 => i \in q.initial_states[q.hole[s]]

VARIABLES
  sketch,
  sat,         (* the assignments that satisfy each constraint, for the    *)
               (* properties only                                          *)
  family,      (* the options of each hole                                 *)
  indices,     (* the constraints to check for the family                  *)
  mdp,         (* the model of the family                                  *)
  results,     (* what was found for each constraint, None if unchecked    *)
  parts,       (* the subfamilies of a split                               *)
  status       (* how far the analysis of the family is                    *)

vars == <<sketch, sat, family, indices, mdp, results, parts, status>>

Quotient == [rows |-> sketch.rows, initial |-> sketch.initial]

(* Mutant: a state without a hole has nothing to select.                   *)
SelectedOfHoles(F) ==
  [s \in DOMAIN sketch.rows |->
     {r \in DOMAIN sketch.rows[s] :
        sketch.hole[s] # 0 /\ sketch.options[s][r] \in F[sketch.hole[s]]}]

(* build: the rows of the included options, and those without a hole.      *)
Selected(F) ==
  [s \in DOMAIN sketch.rows |->
     {r \in DOMAIN sketch.rows[s] :
        sketch.hole[s] # 0 => sketch.options[s][r] \in F[sketch.hole[s]]}]

(* The model of a family with the option of each row, by quotient_choice_map. *)
FamilyMDP(F) ==
  LET kept == new_to_old(Quotient, Selected(F))
      M    == buildSubsystem(Quotient, Selected(F))
  IN  [rows |-> M.rows, initial |-> M.initial,
       options |-> [s \in DOMAIN kept |->
                      IF sketch.hole[s] = 0 THEN << >>
                      ELSE [i \in DOMAIN kept[s] |-> sketch.options[s][kept[s][i]]]]]

Target(M) == sketch.target \cap StatesOf(M)

StatesOfHole(M, h) == {s \in StatesOf(M) : sketch.hole[s] = h}

-----------------------------------------------------------------------------
(* Selections: the options of each hole that a scheduler uses in the       *)
(* states it reaches, for holes that are relevant for the initial state.   *)

scheduler_selection(M, scheduler, initial_state) ==
  LET chain == Induced(M, scheduler)
  IN  [h \in Hole |->
         IF initial_state \notin sketch.initial_states[h] THEN {}
         ELSE {M.options[s][scheduler[s]] : s \in StatesOf(chain) \cap StatesOfHole(M, h)}]

Consistent1(selection) == \A h \in Hole : Cardinality(selection[h]) <= 1

Inconsistent(selection) == {h \in Hole : Cardinality(selection[h]) > 1}

Joint(primary, secondary) == [h \in Hole |-> primary[h] \cup secondary[h]]

(* The nontrivial holes that are relevant for an initial state.            *)
RelevantHoles(initial_state) ==
  {h \in Hole : ~ Trivial(family, h) /\ initial_state \in sketch.initial_states[h]}

(* choice_values: the value after a row, in halves.                        *)
choice_value(row, result) ==
  (2 * Cardinality(row \cap result.one)) \div Cardinality(row)

(* expected_visits: the states with a positive number of visits.  Infinite *)
(* numbers become the mean of the finite ones when minimizing, 0 otherwise. *)
VisitedStates(M, scheduler, initial_state, minimizing) ==
  LET visits == computeExpectedVisitingTimes(Induced(M, scheduler), initial_state)
  IN  IF minimizing /\ visits.finite # {} THEN visits.finite \cup visits.infinite
      ELSE visits.finite

(***************************************************************************)
(* estimate_scheduler_difference: the holes with a score, those with a     *)
(* positive one, and the options of each that may rank lowest and highest. *)
(* assigned gives the holes to score the options that count.               *)
(***************************************************************************)
NoScores == [scored |-> {}, positive |-> {}, lowest |-> << >>, highest |-> << >>]

estimate_scheduler_difference(M, result, visited, holes, assigned) ==
  LET Counted(s) == {r \in Rows(M, s) : M.options[s][r] \in assigned[sketch.hole[s]]}
      Values(s)  == {choice_value(M.rows[s][r], result) : r \in Counted(s)}
      Differs(s) == s \in visited /\ Cardinality(Values(s)) > 1
      Affected(h) == {s \in StatesOfHole(M, h) : Counted(s) # {}}
      scored   == {h \in holes : Affected(h) # {}}
      positive == {h \in scored : \E s \in Affected(h) : Differs(s)}
      Ranked(h) == {s \in Affected(h) : h \in positive => Differs(s)}
      Extreme(s, Leq(_, _)) ==
        {M.options[s][r] : r \in {i \in Counted(s) : \A j \in Counted(s) :
           Leq(choice_value(M.rows[s][i], result), choice_value(M.rows[s][j], result))}}
  IN  [scored |-> scored, positive |-> positive,
       lowest  |-> [h \in scored |-> UNION {Extreme(s, <=) : s \in Ranked(h)}],
       highest |-> [h \in scored |-> UNION {Extreme(s, >=) : s \in Ranked(h)}]]

(* The holes of a selection to score: its inconsistent ones that it uses,  *)
(* or, if there are none, all that the initial state may depend on.        *)
UsedHoles(holes, selection) == {h \in holes : selection[h] # {}}

(* Mutant: only the holes a scheduler uses are scored.                     *)
HolesToScoreUsed(used, initial_state) == used

HolesToScore(used, initial_state) == IF used = {} THEN RelevantHoles(initial_state) ELSE used

OptionsToScore(used, joint) == [h \in Hole |-> IF used = {} THEN family[h] ELSE joint[h]]

ScoresOf(M, result, minimizing, used, joint, initial_state) ==
  estimate_scheduler_difference(M, result,
    VisitedStates(M, result.scheduler, initial_state, minimizing),
    HolesToScore(used, initial_state), OptionsToScore(used, joint))

(* max() of the scores of inconsistent holes is 0.                         *)
AllZero(used, scores) == used # {} /\ scores.positive = {}

(* "re compute due to zero differences": each hole keeps the single option *)
(* of the other selection, if it is one of its own, or else its first one. *)
Promoted(selection, other) ==
  [h \in Hole |->
     IF Cardinality(selection[h]) <= 1 THEN selection[h]
     ELSE IF Cardinality(other[h]) = 1 /\ other[h] \subseteq selection[h] THEN other[h]
     ELSE {CHOOSE o \in selection[h] : \A u \in selection[h] : o <= u}]

-----------------------------------------------------------------------------
(* Results of constraints.  solutions lists the selections that are said   *)
(* to satisfy the constraint; promoted that one was made consistent.       *)

NoSelection == [h \in Hole |-> {}]

Decided(feasibility) ==
  [feasibility |-> feasibility,
   solutions |-> IF feasibility = "True" THEN <<NoSelection>> ELSE << >>,
   promoted |-> FALSE, max_of_none |-> FALSE]

Holds(prop, result) ==
  IF prop.minimizing THEN prop.state \in result.zero ELSE prop.state \in result.one

(* scheduler_selection_quantitative_pctl for an undecided property.        *)
UndecidedProperty(M, prop, primary) ==
  LET selection == scheduler_selection(M, primary.scheduler, prop.state)
      used      == Inconsistent(selection)
      scores    == ScoresOf(M, primary, prop.minimizing, used, selection, prop.state)
  IN  [feasibility |-> "None",
       solutions |-> IF used = {} THEN <<selection>> ELSE << >>,
       promoted |-> FALSE, max_of_none |-> FALSE,
       primary_selection |-> selection, primary_consistent |-> used = {},
       primary_scores |-> scores]

check_property(M, prop) ==
  LET primary   == computeUntilProbabilities(M, prop.minimizing, Target(M))
      secondary == computeUntilProbabilities(M, ~ prop.minimizing, Target(M))
  IN  IF ~ Holds(prop, primary) THEN Decided("False")
      ELSE IF Holds(prop, secondary) THEN Decided("True")
      ELSE UndecidedProperty(M, prop, primary)

(* The comparison of a hyperproperty: a at its state, b at the other one.  *)
Compare(prop, a, b) ==
  CASE prop.minimizing /\ prop.strict -> a < b
    [] prop.minimizing /\ ~ prop.strict -> a <= b
    [] ~ prop.minimizing /\ prop.strict -> a > b
    [] OTHER -> a >= b

ValueAt(result, s) == IF s \in result.one THEN 1 ELSE 0

(***************************************************************************)
(* scheduler_selection_quantitative_hyper and the feasibilities of the     *)
(* selections.  The primary scheduler attains the bound of the state, the  *)
(* secondary one the other bound of the other state.                       *)
(***************************************************************************)
UndecidedHyperproperty(M, prop, primary, secondary) ==
  LET first1  == scheduler_selection(M, primary.scheduler, prop.state)
      first2  == scheduler_selection(M, secondary.scheduler, prop.other_state)
      joint   == Joint(first1, first2)
      open    == Inconsistent(joint)
      used1   == UsedHoles(open, first1)
      used2   == UsedHoles(open, first2)
      scores1 == ScoresOf(M, primary, prop.minimizing, used1, joint, prop.state)
      scores2 == ScoresOf(M, secondary, ~ prop.minimizing, used2, joint, prop.other_state)
      second2 == IF AllZero(used2, scores2) THEN Promoted(first2, first1) ELSE first2
      second1 == IF AllZero(used1, scores1) THEN Promoted(first1, second2) ELSE first1
      primary_feasibility ==
        /\ Compare(prop, ValueAt(primary, prop.state), ValueAt(primary, prop.other_state))
        /\ Consistent1(second1)
      secondary_feasibility ==
        /\ Compare(prop, ValueAt(secondary, prop.state), ValueAt(secondary, prop.other_state))
        /\ Consistent1(second2)
  IN  [feasibility |-> "None",
       solutions |->
         (IF primary_feasibility THEN <<second1>> ELSE << >>)
           \o (IF secondary_feasibility THEN <<second2>> ELSE << >>)
           \o (IF open = {} THEN <<Joint(second1, second2)>> ELSE << >>),
       promoted |-> \/ primary_feasibility /\ second1 # first1
                    \/ secondary_feasibility /\ second2 # first2,
       max_of_none |-> \/ used1 # {} /\ scores1.scored = {}
                       \/ used2 # {} /\ scores2.scored = {},
       primary_scores |-> scores1, secondary_scores |-> scores2,
       joint_selection |-> Joint(second1, second2)]

(* Mutant: the other direction is checked at one state only.               *)
CheckOneDirection(M, prop) ==
  LET primary   == computeUntilProbabilities(M, prop.minimizing, Target(M))
      secondary == computeUntilProbabilities(M, ~ prop.minimizing, Target(M))
      Sat(result, alt) ==
        Compare(prop, ValueAt(result, prop.state), ValueAt(alt, prop.other_state))
  IN  IF ~ Sat(primary, secondary) THEN Decided("False")
      ELSE IF Sat(secondary, secondary) THEN Decided("True")
      ELSE UndecidedHyperproperty(M, prop, primary, secondary)

check_hyperproperty(M, prop) ==
  LET primary   == computeUntilProbabilities(M, prop.minimizing, Target(M))
      secondary == computeUntilProbabilities(M, ~ prop.minimizing, Target(M))
      Sat(result, alt) ==
        Compare(prop, ValueAt(result, prop.state), ValueAt(alt, prop.other_state))
  IN  IF ~ Sat(primary, secondary) THEN Decided("False")
      ELSE IF Sat(secondary, primary) THEN Decided("True")
      ELSE UndecidedHyperproperty(M, prop, primary, secondary)

Check(M, c) ==
  IF c \in HyperConstraint THEN check_hyperproperty(M, sketch.constraint[c])
  ELSE check_property(M, sketch.constraint[c])

-----------------------------------------------------------------------------
(* The evaluation of a family's constraints (check_hyperconstraints).      *)

Unchecked == [feasibility |-> "unchecked", solutions |-> << >>,
              promoted |-> FALSE, max_of_none |-> FALSE]

feasibility == [c \in Constraint |-> results[c].feasibility]

Pending(g) == {c \in OrGroup(g, indices) : feasibility[c] = "unchecked"}

(* The group to evaluate next; a group that is infeasible is the last one. *)
CurrentGroup(g) ==
  /\ Pending(g) # {}
  /\ \A k \in Group : k < g => Pending(k) = {} /\ ~ AllInfeasible(k, indices, feasibility)

Evaluating == \E g \in Group : CurrentGroup(g)

(* The model checker returns 0 or 1 for every state of the model.          *)
Qualitative(M) ==
  \A minimize \in BOOLEAN :
    MaybeStates(M, QualitativeStateSets(M, minimize, StatesOf(M), Target(M))) = {}

Build ==
  /\ status = "new"
  /\ ~ HasDeadlock(Quotient, Selected(family))
  /\ mdp' = FamilyMDP(family)
  /\ results' = [c \in Constraint |-> Unchecked]
  /\ status' = IF Qualitative(mdp') THEN "checking" ELSE "numeric"
  /\ UNCHANGED <<sketch, sat, family, indices, parts>>

(* "Expected that in each state, at least one action is selected."         *)
FailDeadlock ==
  /\ status = "new"
  /\ HasDeadlock(Quotient, Selected(family))
  /\ status' = "failed"
  /\ UNCHANGED <<sketch, sat, family, indices, mdp, results, parts>>

CheckConstraints ==
  /\ status = "checking"
  /\ \E g \in Group : \E c \in Constraint :
       /\ CurrentGroup(g)
       /\ c \in Pending(g) /\ \A d \in Pending(g) : c <= d
       /\ results' = [results EXCEPT ![c] = Check(mdp, c)]
  /\ UNCHANGED <<sketch, sat, family, indices, mdp, parts, status>>

-----------------------------------------------------------------------------
(* What the results say of the family (HyperSpecificationResult.improving, *)
(* without an objective).                                                  *)

(* The selections of a group, in the order of its constraints.             *)
GroupSelections(g) ==
  FoldLeft(LAMBDA found, c : found \o results[c].solutions, << >>,
           Ascending(disjoint_indexes[g]))

Agree(a, b) == \A h \in Hole : a[h] = {} \/ b[h] = {} \/ a[h] = b[h]

(* Mutant: selections are joined whether they agree or not.                *)
MergeAll(saved, found) ==
  FoldLeft(LAMBDA joined, a : joined \o [i \in DOMAIN found |-> Joint(a, found[i])], << >>, saved)

(* update_primary_feasibility_groups: each pair that agrees.               *)
MergeSelections(saved, found) ==
  FoldLeft(LAMBDA joined, a :
             LET agreeing == Ascending({i \in DOMAIN found : Agree(a, found[i])})
             IN  joined \o [i \in DOMAIN agreeing |-> Joint(a, found[agreeing[i]])],
           << >>, saved)

sat_selections ==
  FoldLeft(LAMBDA saved, g :
             IF \A c \in disjoint_indexes[g] : feasibility[c] = "unchecked" THEN saved
             ELSE MergeSelections(saved, GroupSelections(g)),
           <<NoSelection>>, Ascending(Group))

(* The assignment improving() may return: empty holes are filled with      *)
(* their first option.                                                     *)
SelectedAssignments(selection) ==
  {a \in Members(family) : \A h \in Hole : selection[h] # {} => a[h] \in selection[h]}

Verdict ==
  CASE OverallFeasibility(feasibility) = "True" -> "satisfied"
    [] OverallFeasibility(feasibility) = "False" -> "refuted"
    [] OTHER -> IF sat_selections # << >> THEN "selected" ELSE "undecided"

Conclude ==
  /\ status = "checking"
  /\ ~ Evaluating
  /\ status' = Verdict
  /\ UNCHANGED <<sketch, sat, family, indices, mdp, results, parts>>

-----------------------------------------------------------------------------
(* undecided_result and split.                                             *)

ScoredHoles(c) ==
  results[c].primary_scores.scored
    \cup (IF c \in HyperConstraint THEN results[c].secondary_scores.scored ELSE {})

PositiveHoles(c) ==
  results[c].primary_scores.positive
    \cup (IF c \in HyperConstraint THEN results[c].secondary_scores.positive ELSE {})

(* The undecided results that may have the greatest score.                 *)
BestResults ==
  LET scored   == {c \in UndecidedConstraints(feasibility) : ScoredHoles(c) # {}}
      positive == {c \in scored : PositiveHoles(c) # {}}
  IN  IF positive # {} THEN positive ELSE scored

(* holes_with_max_score                                                    *)
BestHoles(scores) == IF scores.positive # {} THEN scores.positive ELSE scores.scored

(* compute_suboptions: one option, the best or worst of some state.        *)
CoreSuboptions(scores, h, primary, minimizing) ==
  IF primary = minimizing THEN scores.highest[h] ELSE scores.lowest[h]

SplitOnCore(scores, primary, minimizing) ==
  UNION {UNION {SplitAt(family, h, {o}) : o \in CoreSuboptions(scores, h, primary, minimizing)} :
           h \in BestHoles(scores)}

(* Mutant: the options that the schedulers do not use are forgotten.       *)
EnumerateUsed(h, used_options) ==
  {[i \in DOMAIN p |-> p[i]] : p \in {SubSeq(q, Len(q) - Cardinality(used_options) + 1, Len(q)) :
     q \in SplitAt(family, h, used_options)}}

(* suboptions_enumerate                                                    *)
Enumerate(h, used_options) == SplitAt(family, h, used_options)

SplitOnProperty(c) ==
  LET result == results[c]
  IN  IF result.primary_consistent
      THEN SplitOnCore(result.primary_scores, TRUE, sketch.constraint[c].minimizing)
      ELSE UNION {Enumerate(h, result.primary_selection[h]) : h \in BestHoles(result.primary_scores)}

(* Both sides have positive scores: the holes with the greatest ones.      *)
SplitOnPair(c, h, k) ==
  LET minimizing == sketch.constraint[c].minimizing
  IN  IF h = k THEN Enumerate(h, results[c].joint_selection[h])
      ELSE UNION {{Quarters(family, h, o, k, u) :
                     u \in CoreSuboptions(results[c].secondary_scores, k, FALSE, minimizing)} :
                    o \in CoreSuboptions(results[c].primary_scores, h, TRUE, minimizing)}

(* A score of -1 or 0 on one side leaves the choice to the other one.      *)
SplitOnHyperproperty(c) ==
  LET primary    == results[c].primary_scores
      secondary  == results[c].secondary_scores
      minimizing == sketch.constraint[c].minimizing
  IN  IF secondary.positive = {} /\ primary.scored # {}
      THEN SplitOnCore(primary, TRUE, minimizing)
      ELSE IF primary.positive = {} /\ secondary.scored # {}
      THEN SplitOnCore(secondary, FALSE, minimizing)
      ELSE UNION {UNION {SplitOnPair(c, h, k) : k \in secondary.positive} : h \in primary.positive}

split(c) == IF c \in HyperConstraint THEN SplitOnHyperproperty(c) ELSE SplitOnProperty(c)

SplitFamily ==
  /\ status \in {"selected", "undecided"}
  /\ \E c \in BestResults : parts' \in split(c)
  /\ status' = "split"
  /\ UNCHANGED <<sketch, sat, family, indices, mdp, results>>

(* A subfamily is analysed for the constraints that were undecided.        *)
Descend ==
  /\ status = "split"
  /\ \E i \in DOMAIN parts : family' = parts[i]
  /\ indices' = UndecidedConstraints(feasibility)
  /\ mdp' = None /\ results' = None /\ parts' = << >>
  /\ status' = "new"
  /\ UNCHANGED <<sketch, sat>>

(* The loop over the worklist ends; a family with other values is left to  *)
(* the numeric solver.                                                     *)
Finished ==
  /\ status \in {"satisfied", "refuted", "numeric", "failed"}
  /\ UNCHANGED vars

Next ==
  \/ Build \/ FailDeadlock \/ CheckConstraints \/ Conclude \/ SplitFamily \/ Descend
  \/ Finished

-----------------------------------------------------------------------------
(* What the values should be: the chains of all memoryless schedulers.     *)

Never(M, target) == {s \in StatesOf(M) : ReachableFrom(M, s) \cap target = {}}

(* No run that has yet to reach the target enters a state it is lost in.   *)
Surely(M, target) ==
  LET never == Never(M, target)
      Avoiding(s) == Saturate(StatesOf(M), {s}, LAMBDA X : UNION {M.rows[t][1] : t \in X \ target})
  IN  {s \in StatesOf(M) : Avoiding(s) \cap never = {}}

Outcome01(M, target) == [never |-> Never(M, target), surely |-> Surely(M, target)]

Schedulers(M) ==
  {f \in [StatesOf(M) -> UNION {Rows(M, s) : s \in StatesOf(M)}] :
     \A s \in StatesOf(M) : f[s] \in Rows(M, s)}

ChainOf(M, f) == [rows |-> [s \in StatesOf(M) |-> <<M.rows[s][f[s]]>>], initial |-> M.initial]

(* The chain of an assignment, and the constraints it satisfies.           *)
AssignmentChain(q, a) ==
  [rows |-> [s \in DOMAIN q.rows |->
               IF q.hole[s] = 0 THEN q.rows[s]
               ELSE <<q.rows[s][CHOOSE r \in DOMAIN q.rows[s] : q.options[s][r] = a[q.hole[s]]]>>],
   initial |-> q.initial]

Matched(q) ==
  \A s \in DOMAIN q.rows : q.hole[s] # 0 =>
    {q.options[s][r] : r \in DOMAIN q.rows[s]} = Options[q.hole[s]]

Satisfies(q, c, surely) ==
  LET prop     == q.constraint[c]
      Value(s) == IF s \in surely THEN 1 ELSE 0
  IN  IF c \in HyperConstraint THEN Compare(prop, Value(prop.state), Value(prop.other_state))
      ELSE Value(prop.state) = (IF prop.minimizing THEN 0 ELSE 1)

(* The assignments that satisfy each constraint, when all their values are *)
(* 0 or 1.                                                                 *)
SatOf(q) ==
  LET outcome == [a \in Assignment |-> Outcome01(AssignmentChain(q, a), q.target)]
  IN  IF \A a \in Assignment : outcome[a].never \cup outcome[a].surely = DOMAIN q.rows
      THEN [c \in Constraint |-> {a \in Assignment : Satisfies(q, c, outcome[a].surely)}]
      ELSE None

Init ==
  /\ sketch \in Sketches
  /\ sat = IF Matched(sketch) THEN SatOf(sketch) ELSE None
  /\ family = Options
  /\ indices = Constraint
  /\ mdp = None /\ results = None /\ parts = << >>
  /\ status = "new"

Spec == Init /\ [][Next]_vars

-----------------------------------------------------------------------------
(* The variables have the shape they should have.                          *)
TypeOK ==
  /\ family \in Family
  /\ indices \subseteq Constraint
  /\ status \in {"new", "checking", "numeric", "failed", "satisfied", "refuted",
                 "selected", "undecided", "split"}
  /\ status \in {"new", "failed"} => mdp = None
  /\ status \notin {"new", "failed"} =>
       /\ DOMAIN mdp.rows \subseteq DOMAIN sketch.rows
       /\ feasibility \in [Constraint -> Result]
  /\ \A i \in DOMAIN parts : parts[i] \in Family

JustBuilt == status \in {"checking", "numeric"} /\ \A c \in Constraint : results[c] = Unchecked

(* The states said to have probability 0 or 1 are those where the best     *)
(* memoryless scheduler attains it, in both directions                     *)
(* (performProb01Min, performProb01Max).                                   *)
ValuesExact ==
  JustBuilt =>
    LET target   == Target(mdp)
        outcomes == {Outcome01(ChainOf(mdp, f), target) : f \in Schedulers(mdp)}
        least    == performProb01Min(mdp, StatesOf(mdp), target)
        most     == performProb01Max(mdp, StatesOf(mdp), target)
    IN  \A s \in StatesOf(mdp) :
          /\ s \in least.zero <=> \E o \in outcomes : s \in o.never
          /\ s \in least.one  <=> \A o \in outcomes : s \in o.surely
          /\ s \in most.zero  <=> \A o \in outcomes : s \in o.never
          /\ s \in most.one   <=> \E o \in outcomes : s \in o.surely

(* One scheduler attains the bound in every state at once: this is what    *)
(* lets selections stand for values (extendScheduler).                     *)
SchedulerAttains ==
  JustBuilt =>
    \A minimize \in BOOLEAN :
      LET result  == computeUntilProbabilities(mdp, minimize, Target(mdp))
          outcome == Outcome01(ChainOf(mdp, result.scheduler), Target(mdp))
      IN  IF minimize THEN result.zero = outcome.never ELSE result.one = outcome.surely

(* The assignments of the sketch, as FamilyAnalysis takes them.             *)
SketchTask == [sat |-> sat]

(* What is found for a constraint of a family is right for its members     *)
(* (check_property, check_hyperproperty): the assumption of the synthesis  *)
(* methods' models.                                                        *)
VerdictsSound ==
  sat # None /\ results # None =>
    \A c \in Constraint : feasibility[c] # "unchecked" =>
      feasibility[c] \in CheckConstraint(SketchTask, family, c)

Promotions == {c \in Constraint : results[c].promoted}

(* The assignment that improving() takes from consistent schedulers        *)
(* satisfies the specification, however the selections of the constraints  *)
(* are merged and its open holes are filled, if no selection was made      *)
(* consistent.                                                             *)
SelectionsSatisfy ==
  sat # None /\ status = "selected" /\ Promotions = {} =>
    SelectedAssignments(sat_selections[1]) \subseteq SatSelected(SketchTask, family, feasibility)

(* The same, with the selections that were made consistent because no      *)
(* score is positive.                                                      *)
PromotedSelectionsSatisfy ==
  sat # None /\ status = "selected" =>
    SelectedAssignments(sat_selections[1]) \subseteq SatSelected(SketchTask, family, feasibility)

(* No assertion or empty maximum ends the analysis.  An undecided family   *)
(* has a hole to split on (scheduler_selection_quantitative_pctl,          *)
(* undecided_result, split, suboptions_enumerate); a family without an     *)
(* action in some state only comes from a hole that is shared by states    *)
(* with different choices (build).                                         *)
AssertionsHold ==
  /\ results # None => \A c \in Constraint : ~ results[c].max_of_none
  /\ status \in {"selected", "undecided"} =>
       /\ BestResults # {}
       /\ \A c \in BestResults : split(c) # {}
  /\ status = "failed" => ~ Matched(sketch)

(* A split is one of those the synthesis methods' models allow: its parts  *)
(* cover the family, are disjoint, not empty and smaller than it.          *)
SplitsAsAbstract ==
  status = "split" => parts \in Split(family, UndecidedConstraints(feasibility))

=============================================================================
