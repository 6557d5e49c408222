---------------------------- MODULE Counterexample ----------------------------
(***************************************************************************)
(* The counterexample generator                                            *)
(* (storm-synthesis/synthesis/Counterexample.cpp).  The chain of an        *)
(* assignment is explored wave by wave, a wave being all the states that   *)
(* can be expanded once one more hole is registered (prepareDtmc,          *)
(* prepareReplicatedDtmc).  Then the waves are expanded one after the      *)
(* other, the rest of the chain being replaced by bounds, until what is    *)
(* expanded violates the property whatever the rest is (constructConflict, *)
(* constructHyperConflict).  The holes registered by then are critical.    *)
(*                                                                         *)
(* Probabilities are integers out of Scale.  The successors of a state are *)
(* equally likely and have a greater number, so that a value is a finite   *)
(* sum; Scale is a multiple of all the products of branchings.             *)
(***************************************************************************)
EXTENDS DesignSpace, FiniteSetsExt

CONSTANTS
  State,           (* the states of the quotient                           *)
  InitialStates,   (* its initial states                                   *)
  state_to_holes,  (* the hole of each state, if it has one                *)
  Row,             (* the successors of each state under each assignment   *)
  Targets,         (* the states that satisfy each of two target formulas   *)
  Scale,           (* the integer that stands for probability one          *)
  tolerance,       (* exp(-5): closer values are not told apart            *)
  Requests         (* the conflicts that are asked for                     *)

ASSUME QuotientAssumption ==
  /\ State \subseteq Nat /\ IsFiniteSet(State)
  /\ InitialStates \subseteq State
  /\ state_to_holes \in [State -> SUBSET Hole]
  /\ \A s \in State : Cardinality(state_to_holes[s]) <= 1
  /\ Row \in [State -> [Assignment -> SUBSET State]]
  /\ \A s \in State : \A a, b \in Assignment :
       (\A h \in state_to_holes[s] : a[h] = b[h]) => Row[s][a] = Row[s][b]
  /\ \A s \in State : \A a \in Assignment : \A t \in Row[s][a] : s < t
  /\ Targets \in [1..2 -> SUBSET State]
  /\ Scale \in Nat
  /\ tolerance \in Nat

(* A request: the property, and the family whose analysis gave the bounds. *)
(* A hyperproperty compares the value of state with that of other_state,   *)
(* of another target if it is multitarget; other properties compare it     *)
(* with a threshold.                                                       *)
Request ==
  [hyper : BOOLEAN, multitarget : BOOLEAN, safety : BOOLEAN, strict : BOOLEAN,
   state : InitialStates, other_state : InitialStates, threshold : Int,
   min_bound : Int, bounds : BOOLEAN, family : Family]

ASSUME RequestsAssumption == Requests \subseteq Request

VARIABLES
  request,      (* what is asked for                                       *)
  assignment,   (* the assignment of the chain                             *)
  hole_wave,    (* the wave that registered each hole, or 0                *)
  wave_states,  (* the states expanded in wave 0, 1, ...                   *)
  horizon,      (* states reached that can be expanded                     *)
  blocking,     (* states reached whose hole is not registered             *)
  wave,         (* the wave to check next                                  *)
  conflict      (* the critical holes, or None                             *)

vars == <<request, assignment, hole_wave, wave_states, horizon, blocking, wave, conflict>>

exploration == <<hole_wave, wave_states, horizon, blocking>>

-----------------------------------------------------------------------------
(***************************************************************************)
(* Values.  Storm's results on the chain, on the family's MDP and on a     *)
(* sub-chain: the states that are not expanded have the given values.      *)
(***************************************************************************)
Average(v, S) ==
  IF S = {} THEN 0 ELSE MapThenSumSet(LAMBDA s : v[s], S) \div Cardinality(S)

SubValues(a, target, expanded, given) ==
  LET v[s \in State] ==
        IF s \in Targets[target] THEN Scale
        ELSE IF s \in expanded THEN Average(v, Row[s][a])
        ELSE given[s]
  IN  v

Values ==
  [a \in Assignment |-> [target \in DOMAIN Targets |-> SubValues(a, target, State, << >>)]]

MdpBounds ==
  [F \in Family |-> [target \in DOMAIN Targets |-> [minimize \in BOOLEAN |->
    LET v[s \in State] ==
          LET averages == {Average(v, S) : S \in {Row[s][a] : a \in Members(F)}}
          IN  IF s \in Targets[target] THEN Scale
              ELSE IF minimize THEN Min(averages) ELSE Max(averages)
    IN  v]]]

(* prepareSubdtmc: the bounds of the family's MDP or the default ones.     *)
DefaultBounds(minimize) == [s \in State |-> IF minimize THEN 0 ELSE Scale]

Bounds ==
  IF request.bounds
  THEN MdpBounds[request.family][1][request.safety]
  ELSE DefaultBounds(request.safety)

OtherTarget(r) == IF r.multitarget THEN 2 ELSE 1

(* The secondary result, which for two targets is one of the first target. *)
OtherBounds ==
  IF request.bounds
  THEN MdpBounds[request.family][1][~ request.safety]
  ELSE DefaultBounds(~ request.safety)

(* The two sides of the comparison, the second one a threshold or a value. *)
Left(r, values) == values[r.state] + r.min_bound
Right(r, values) == IF r.hyper THEN values[r.other_state] ELSE r.threshold

Distance(left, right) == IF left < right THEN right - left ELSE left - right

Compares(r, left, right) ==
  \/ r.safety /\ left < right
  \/ ~ r.safety /\ left > right

(* The model checkers' verdict, without tolerance.                         *)
Satisfies(r, left, right) == Compares(r, left, right) \/ (~ r.strict /\ left = right)

(* sat, of constructConflict and constructHyperConflict.                   *)
Sat(r, left, right) ==
  IF r.strict
  THEN Compares(r, left, right) /\ Distance(left, right) > tolerance
  ELSE Compares(r, left, right) \/ left = right \/ Distance(left, right) < tolerance

-----------------------------------------------------------------------------
(* The chain of an assignment: the states it reaches from any initial one. *)
ChainStates(a) ==
  LET reached[s \in State] ==
        s \in InitialStates \/ \E p \in State : p < s /\ reached[p] /\ s \in Row[p][a]
  IN  {s \in State : reached[s]}

(* How many states of the chain of each assignment have each hole.         *)
mapped_states_count ==
  [a \in Assignment |-> LET chain == ChainStates(a)
                        IN  [h \in Hole |-> Cardinality({s \in chain : h \in state_to_holes[s]})]]

Blocked(registered, s) == \E h \in state_to_holes[s] : registered[h] = 0

Starts == {request.state} \cup (IF request.hyper THEN {request.other_state} ELSE {})

(* Hyperproperties are constraints: a conflict is asked for when the       *)
(* assignment violates one, and a family that gives bounds is undecided.   *)
Violates(r, a) == ~ Satisfies(r, Left(r, Values[a][1]), Right(r, Values[a][OtherTarget(r)]))

Undecided(r) ==
  LET bounds == MdpBounds[r.family]
      Best == Satisfies(r, Left(r, bounds[1][r.safety]),
                           Right(r, bounds[OtherTarget(r)][~ r.safety]))
      Worst == Satisfies(r, Left(r, bounds[1][~ r.safety]),
                            Right(r, bounds[OtherTarget(r)][r.safety]))
  IN  Best /\ ~ Worst

Init ==
  /\ request \in Requests
  /\ assignment \in Members(request.family)
  /\ request.hyper => Violates(request, assignment)
  /\ (request.hyper /\ request.bounds) => Undecided(request)
  /\ hole_wave = [h \in Hole |-> 0]
  /\ wave_states = << {} >>
  /\ horizon = {s \in Starts : ~ Blocked(hole_wave, s)}
  /\ blocking = {s \in Starts : Blocked(hole_wave, s)}
  /\ wave = 0
  /\ conflict = None

(* The states expanded in the waves up to w.                               *)
Expanded(w) == UNION {wave_states[i] : i \in 1..(w + 1)}

Current == Len(wave_states) - 1

(* Mutant: states that were reached before are reached again.              *)
ReachedNone == {}

Reached == Expanded(Current) \cup horizon \cup blocking

(* A state of the horizon is expanded in the current wave.                 *)
Expand ==
  /\ conflict = None
  /\ \E s \in horizon :
       LET new == Row[s][assignment] \ Reached
       IN  /\ wave_states' = [wave_states EXCEPT ![Len(wave_states)] = @ \cup {s}]
           /\ horizon' = (horizon \ {s}) \cup {t \in new : ~ Blocked(hole_wave, t)}
           /\ blocking' = blocking \cup {t \in new : Blocked(hole_wave, t)}
  /\ UNCHANGED <<request, assignment, hole_wave, wave, conflict>>

(* The blocking states whose hole is mapped to the fewest states.          *)
BlockingCandidates ==
  {s \in blocking : \A t \in blocking : \A h \in state_to_holes[s], k \in state_to_holes[t] :
     mapped_states_count[assignment][h] <= mapped_states_count[assignment][k]}

(* The next wave registers the holes of a candidate.                       *)
(* Mutants: the wave does not register the hole; all the blocking states   *)
(* are unblocked.                                                          *)
RegisterNone(s) == hole_wave

Register(s) ==
  [h \in Hole |-> IF h \in state_to_holes[s] /\ hole_wave[h] = 0
                  THEN Current + 1 ELSE hole_wave[h]]

UnblockedAll(registered) == blocking

Unblocked(registered) == {s \in blocking : ~ Blocked(registered, s)}

(* Mutant: the states that are still blocking are forgotten.               *)
ForgottenBlocking(registered) == {}

StillBlocking(registered) == blocking \ Unblocked(registered)

StartWave ==
  /\ conflict = None
  /\ horizon = {}
  /\ \E s \in BlockingCandidates :
       /\ hole_wave' = Register(s)
       /\ horizon' = Unblocked(hole_wave')
       /\ blocking' = StillBlocking(hole_wave')
  /\ wave_states' = Append(wave_states, {})
  /\ UNCHANGED <<request, assignment, wave, conflict>>

(* expandAndCheck for the chain, and for a hyperproperty for its other side. *)
SatUpTo(w) ==
  Sat(request,
      Left(request, SubValues(assignment, 1, Expanded(w), Bounds)),
      Right(request, SubValues(assignment, OtherTarget(request), Expanded(w), OtherBounds)))

(* Mutant: the holes of the last wave are left out.                        *)
CriticalHolesBefore(w) == {h \in Hole : hole_wave[h] > 0 /\ hole_wave[h] < w}

CriticalHoles(w) == {h \in Hole : hole_wave[h] > 0 /\ hole_wave[h] <= w}

(* One more wave of the sub-chain is expanded and checked.                 *)
Check ==
  /\ conflict = None
  /\ horizon = {} /\ blocking = {}
  /\ IF ~ SatUpTo(wave) \/ wave = Current
     THEN conflict' = CriticalHoles(wave) /\ UNCHANGED wave
     ELSE wave' = wave + 1 /\ UNCHANGED conflict
  /\ UNCHANGED <<request, assignment, exploration>>

(* The conflict has been returned.                                         *)
Terminated == conflict # None /\ UNCHANGED vars

Next == Expand \/ StartWave \/ Check \/ Terminated

Spec == Init /\ [][Next]_vars

-----------------------------------------------------------------------------
(***************************************************************************)
(* Properties.                                                             *)
(***************************************************************************)

(* The variables have their types, and a state that was reached is in one  *)
(* place only: in the wave that expanded it, or on one of the horizons     *)
(* (reachable_flag, the two horizons).                                     *)
TypeOK ==
  /\ request \in Request
  /\ assignment \in Assignment
  /\ hole_wave \in [Hole -> 0..Current]
  /\ wave_states \in Seq(SUBSET State) /\ wave_states # << >>
  /\ horizon \subseteq State /\ blocking \subseteq State
  /\ wave \in 0..Current
  /\ conflict \in (SUBSET Hole) \cup {None}
  /\ horizon \cap blocking = {}
  /\ Expanded(Current) \cap (horizon \cup blocking) = {}
  /\ \A i, j \in DOMAIN wave_states : i # j => wave_states[i] \cap wave_states[j] = {}

(* What is expanded up to a wave is the same chain for every assignment    *)
(* with the same options in the holes registered up to that wave: the hole *)
(* of an expanded state is registered no later (prepareDtmc's rounds).     *)
WavesRegistered ==
  \A i \in DOMAIN wave_states : \A s \in wave_states[i] : \A h \in state_to_holes[s] :
    hole_wave[h] > 0 /\ hole_wave[h] <= i - 1

(* Each wave but the first registers a hole that was not registered: the   *)
(* exploration has no more waves than there are holes, and ends.           *)
EachWaveRegisters ==
  \A w \in 1..Current : \E h \in Hole : hole_wave[h] = w

(* Nothing reachable is overlooked: a successor of an expanded state is    *)
(* expanded or waits on a horizon, so the last wave is the whole chain.    *)
ExplorationClosed ==
  \A s \in Expanded(Current) :
    Row[s][assignment] \subseteq Expanded(Current) \cup horizon \cup blocking

(* The members of the family with the same options in the critical holes.  *)
Completions ==
  {b \in Members(request.family) : \A h \in conflict : b[h] = assignment[h]}

LeftOf(b) == Left(request, Values[b][1])
RightOf(b) == Right(request, Values[b][OtherTarget(request)])

(* What exclude_assignment removes for the conflict, the completions of    *)
(* the critical holes in the family, violates the property (up to the      *)
(* tolerance if it is strict) or has the very values of the assignment.    *)
ConflictSound ==
  conflict # None =>
    \A b \in Completions :
      \/ ~ Compares(request, LeftOf(b), RightOf(b))
           /\ (LeftOf(b) = RightOf(b) => request.strict)
      \/ request.strict /\ Distance(LeftOf(b), RightOf(b)) <= tolerance
      \/ LeftOf(b) = LeftOf(assignment) /\ RightOf(b) = RightOf(assignment)

=============================================================================
