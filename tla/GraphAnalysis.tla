---------------------------- MODULE GraphAnalysis ----------------------------
(***************************************************************************)
(* What Storm does with a sparse MDP for this project: restriction to      *)
(* selected choices (transformer/SubsystemBuilder.cpp), the qualitative    *)
(* part of model checking with a scheduler that attains the values         *)
(* (utility/graph.cpp, SparseMdpPrctlHelper.cpp), and which states a chain *)
(* visits never, finitely or infinitely often                              *)
(* (SparseDeterministicVisitingTimesHelper.cpp).                           *)
(*                                                                         *)
(* A model gives each of its states a sequence of rows, the successors of  *)
(* its choices, and a set of initial states.  The searches of the source   *)
(* keep a stack; where only the set they compute matters it is saturated   *)
(* here, where the order decides (the choices of a scheduler) it is kept.  *)
(***************************************************************************)
EXTENDS Naturals, Sequences, FiniteSets, SequencesExt

StatesOf(M) == DOMAIN M.rows

Rows(M, s) == DOMAIN M.rows[s]

(* The least superset of X that Step adds nothing to; Step stays in S.     *)
Saturate(S, X, Step(_)) ==
  LET grow[Y \in SUBSET S] ==
        LET Z == Y \cup Step(Y) IN IF Z = Y THEN Y ELSE grow[Z]
  IN  grow[X]

Meets(A, B) == A \cap B # {}

(* A set of numbers in ascending order.                                    *)
Ascending(S) ==
  [i \in 1..Cardinality(S) |-> CHOOSE n \in S : Cardinality({m \in S : m < n}) = i - 1]

-----------------------------------------------------------------------------
(* Restriction.  selected gives each state the rows that are selected.     *)

(* getReachableStates, without target states or a bound on the steps.      *)
getReachableStates(M, initial, selected) ==
  Saturate(StatesOf(M), initial,
           LAMBDA X : UNION {UNION {M.rows[s][r] : r \in selected[s]} : s \in X})

(* buildSubsystem: the states that the selected choices reach ...          *)
Subsystem(M, selected) == getReachableStates(M, M.initial, selected)

(* ... internalBuildSubsystem: each of them needs a choice ...             *)
HasDeadlock(M, selected) == \E s \in Subsystem(M, selected) : selected[s] = {}

(* ... and keeps the selected ones, in their order; new_to_old is the      *)
(* mapping of the actions.                                                 *)
new_to_old(M, selected) ==
  [s \in Subsystem(M, selected) |-> Ascending(selected[s])]

buildSubsystem(M, selected) ==
  LET kept == new_to_old(M, selected)
  IN  [rows    |-> [s \in DOMAIN kept |-> [i \in DOMAIN kept[s] |-> M.rows[s][kept[s][i]]]],
       initial |-> M.initial]

(* The chain that a memoryless deterministic scheduler leaves.             *)
Induced(M, scheduler) == buildSubsystem(M, [s \in StatesOf(M) |-> {scheduler[s]}])

-----------------------------------------------------------------------------
(* States from which psi is reached through phi, for some or all           *)
(* schedulers (E, A), with a positive probability or almost surely.        *)

performProbGreater0E(M, phi, psi) ==
  Saturate(StatesOf(M), psi,
           LAMBDA X : {s \in phi : \E r \in Rows(M, s) : Meets(M.rows[s][r], X)})

performProb0A(M, phi, psi) == StatesOf(M) \ performProbGreater0E(M, phi, psi)

performProbGreater0A(M, phi, psi) ==
  Saturate(StatesOf(M), psi,
           LAMBDA X : {s \in phi : \A r \in Rows(M, s) : Meets(M.rows[s][r], X)})

performProb0E(M, phi, psi) == StatesOf(M) \ performProbGreater0A(M, phi, psi)

(* A row that cannot leave current and may enter X.                        *)
Progresses(row, current, X) == row \subseteq current /\ Meets(row, X)

(* Mutant: a single round, which forgets what may be lost on the way.      *)
Prob1EOnce(M, phi, psi) == performProbGreater0E(M, phi, psi)

performProb1E(M, phi, psi) ==
  LET Next1E(current) ==
        Saturate(StatesOf(M), psi,
                 LAMBDA X : {s \in phi : \E r \in Rows(M, s) :
                               Progresses(M.rows[s][r], current, X)})
      shrink[current \in SUBSET StatesOf(M)] ==
        LET next == Next1E(current) IN IF next = current THEN current ELSE shrink[next]
  IN  shrink[StatesOf(M)]

(* The states with probability 0, and with probability 1.                  *)
performProb01Max(M, phi, psi) ==
  [zero |-> performProb0A(M, phi, psi), one |-> performProb1E(M, phi, psi)]

performProb01Min(M, phi, psi) ==
  LET zero == performProb0E(M, phi, psi)
  IN  [zero |-> zero, one |-> performProb0A(M, StatesOf(M) \ psi, zero)]

QualitativeStateSets(M, minimize, phi, psi) ==
  IF minimize THEN performProb01Min(M, phi, psi) ELSE performProb01Max(M, phi, psi)

MaybeStates(M, sets) == StatesOf(M) \ (sets.zero \cup sets.one)

-----------------------------------------------------------------------------
(* Schedulers: a row for each state.                                       *)

FirstRow(M, s, Good(_)) == SelectInSeq(M.rows[s], Good)

(* computeSchedulerProb0E: the first row that stays in the set.            *)
StayingRow(M, s, states) == FirstRow(M, s, LAMBDA row : row \subseteq states)

Predecessors(M, s) == {p \in StatesOf(M) : \E r \in Rows(M, p) : s \in M.rows[p][r]}

(* One predecessor p of computeSchedulerProb1E's search: its first row     *)
(* that progresses becomes its choice, and it is searched from.            *)
VisitPredecessor(M, one, phi, search, p) ==
  LET row == FirstRow(M, p, LAMBDA successors : Progresses(successors, one, search.current))
  IN  IF p \in phi \ search.current /\ row > 0
      THEN [stack   |-> Append(search.stack, p),
            current |-> search.current \cup {p},
            choice  |-> [search.choice EXCEPT ![p] = row]]
      ELSE search

VisitPredecessors(M, one, phi, search) ==
  FoldLeft(LAMBDA acc, p : VisitPredecessor(M, one, phi, acc, p),
           [search EXCEPT !.stack = Front(@)],
           Ascending(Predecessors(M, Last(search.stack))))

(* The search from the states of psi; the source's stack ends with the     *)
(* state searched next.  Each state is pushed once.                        *)
computeSchedulerProb1E(M, one, phi, psi) ==
  FoldLeft(LAMBDA search, n :
             IF search.stack = << >> THEN search ELSE VisitPredecessors(M, one, phi, search),
           [stack   |-> Ascending(psi),
            current |-> psi,
            choice  |-> [s \in StatesOf(M) |-> 1]],
           SetToSeq(StatesOf(M))).choice

(* Mutant: any row is as good where the probability is 1.                  *)
ExtendAnyRow(M, minimize, sets, phi, psi) ==
  [s \in StatesOf(M) |-> IF minimize /\ s \in sets.zero THEN StayingRow(M, s, sets.zero) ELSE 1]

(* extendScheduler: the first row where the value does not depend on it.   *)
extendScheduler(M, minimize, sets, phi, psi) ==
  IF minimize
  THEN [s \in StatesOf(M) |-> IF s \in sets.zero THEN StayingRow(M, s, sets.zero) ELSE 1]
  ELSE computeSchedulerProb1E(M, sets.one, phi, psi)

(* computeUntilProbabilities for F psi, when no state is a maybe state     *)
(* (their values are the numeric solver's).                                *)
computeUntilProbabilities(M, minimize, psi) ==
  LET sets == QualitativeStateSets(M, minimize, StatesOf(M), psi)
  IN  [zero |-> sets.zero, one |-> sets.one,
       scheduler |-> extendScheduler(M, minimize, sets, StatesOf(M), psi)]

-----------------------------------------------------------------------------
(* Visits of the states of a chain from one state.                         *)

AllRows(M) == [s \in StatesOf(M) |-> Rows(M, s)]

ReachableFrom(M, s) == getReachableStates(M, {s}, AllRows(M))

(* The states of bottom strongly connected components.                     *)
Recurrent(M, s) == \A t \in ReachableFrom(M, s) : s \in ReachableFrom(M, t)

computeExpectedVisitingTimes(M, initial) ==
  LET reached == ReachableFrom(M, initial)
  IN  [finite   |-> {s \in reached : ~ Recurrent(M, s)},
       infinite |-> {s \in reached : Recurrent(M, s)}]

=============================================================================
