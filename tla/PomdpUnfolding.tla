---------------------------- MODULE PomdpUnfolding ----------------------------
(***************************************************************************)
(* Policies with memory for a POMDP as assignments of holes: the manager   *)
(* that unfolds memory into the POMDP (storm-synthesis/pomdp/              *)
(* PomdpManager.cpp), the container that gives the rows of the unfolded    *)
(* MDP their hole and option (POMDPQuotientContainer in                    *)
(* synthesizers/quotient.py), and the strategies that grow the memory      *)
(* (synthesizers/pomdp.py).  The command line does not reach them.         *)
(*                                                                         *)
(* States and rows are counted from 1 here, memory, actions, updates and   *)
(* holes from 0.  A row keeps its successors, not their probabilities.     *)
(***************************************************************************)
EXTENDS Integers, Sequences, FiniteSets, SequencesExt, Functions

CONSTANTS
  Pomdps,      (* the POMDPs to start from                                 *)
  MaxMemory,   (* bound on the memory of an observation                    *)
  None

(* A canonic POMDP: states with the same observation have the same number  *)
(* of actions (MakePOMDPCanonic).                                          *)
ASSUME PomdpsAssumption ==
  /\ MaxMemory \in Nat \ {0}
  /\ \A q \in Pomdps :
       /\ q.rows \in Seq(Seq(SUBSET Nat)) /\ q.observations \in Nat
       /\ q.observation \in [DOMAIN q.rows -> 1..q.observations]
       /\ Range(q.observation) = 1..q.observations
       /\ q.initial # {} /\ q.initial \cup q.target \subseteq DOMAIN q.rows
       /\ \A s \in DOMAIN q.rows :
            /\ q.rows[s] # << >> /\ {} \notin Range(q.rows[s])
            /\ UNION Range(q.rows[s]) \subseteq DOMAIN q.rows
            /\ \A t \in DOMAIN q.rows :
                 q.observation[s] = q.observation[t] => Len(q.rows[s]) = Len(q.rows[t])

VARIABLES
  pomdp,
  observation_memory_size,  (* the memory states of each observation       *)
  unfolded,                 (* the tables after the last construct_mdp     *)
  family,                   (* the options that are left of each hole      *)
  inconsistencies,          (* the actions and updates of each observation *)
                            (* that a scheduler used in the same hole      *)
  strategy,                 (* "iterative" or "expected"                   *)
  pc

vars == <<pomdp, observation_memory_size, unfolded, family, inconsistencies, strategy, pc>>

Prototypes(q) == DOMAIN q.rows
Observations(q) == 1..q.observations

(* f[1] + ... + f[n] *)
Sum(f, n) == LET sum[k \in 0..n] == IF k = 0 THEN 0 ELSE sum[k - 1] + f[k] IN sum[n]

(* A set of numbers in ascending order.                                    *)
Ascending(S) ==
  [i \in 1..Cardinality(S) |-> CHOOSE n \in S : Cardinality({m \in S : m < n}) = i - 1]

IndexOf(seq, x) == CHOOSE i \in DOMAIN seq : seq[i] = x

-----------------------------------------------------------------------------
(* The state space and the rows of a POMDP q, for memory sizes size.       *)

(* Mutant: the duplicates with the same memory follow each other.          *)
StateSpaceByMemory(q, size) ==
  FlattenSeq([m \in 1..MaxMemory |->
    SelectSeq([p \in Prototypes(q) |-> [prototype |-> p, memory |-> m - 1]],
              LAMBDA s : s.memory < size[q.observation[s.prototype]])])

buildStateSpace(q, size) ==
  FlattenSeq([p \in Prototypes(q) |->
    [m \in 1..size[q.observation[p]] |-> [prototype |-> p, memory |-> m - 1]]])

(* Mutant: memory that a state does not have becomes its last one.         *)
TranslateToLast(q, size, p, memory) ==
  LET last == size[q.observation[p]] - 1
  IN  [prototype |-> p, memory |-> IF memory > last THEN last ELSE memory]

(* translateState: the states are found by prototype and memory.           *)
translateState(q, size, p, memory) ==
  [prototype |-> p, memory |-> IF memory >= size[q.observation[p]] THEN 0 ELSE memory]

Greatest(S) == CHOOSE x \in S : \A y \in S : y <= x

maxSuccessorMemorySize(q, size, row) == Greatest({size[q.observation[d]] : d \in row})

observation_actions(q, z) ==
  LET s == CHOOSE s \in DOMAIN q.rows : q.observation[s] = z IN Len(q.rows[s])

RowsOfObservation(q, z) ==
  UNION {Range(q.rows[p]) : p \in {s \in Prototypes(q) : q.observation[s] = z}}

max_successor_memory_size(q, size) ==
  [z \in Observations(q) |->
     Greatest({maxSuccessorMemorySize(q, size, row) : row \in RowsOfObservation(q, z)})]

(* The places of a row's successors in the matrix, for a memory update.    *)
Columns(q, size, states, row, memory) ==
  LET successors == Ascending(row)
  IN  [k \in DOMAIN successors |->
         IndexOf(states, translateState(q, size, successors[k], memory))]

(* buildTransitionMatrixSpurious and constructTransitionMatrix: the rows   *)
(* of a state, one for each action and memory update.                      *)
RowsOfState(q, size, states, updates, i) ==
  LET p == states[i].prototype
  IN  FlattenSeq([r \in DOMAIN q.rows[p] |->
        [m \in 1..updates[q.observation[p]] |->
           [action |-> r - 1, memory |-> m - 1,
            columns |-> Columns(q, size, states, q.rows[p][r], m - 1)]]])

(* The rows before those of each state.                                    *)
row_groups(rows) ==
  [i \in DOMAIN rows |-> Sum([j \in DOMAIN rows |-> Len(rows[j])], i - 1)]

-----------------------------------------------------------------------------
(* The holes of an observation and memory.                                 *)

HasActionHole(q, z) == observation_actions(q, z) > 1

HasMemoryHole(updates, z) == updates[z] > 1

(* buildDesignSpaceSpurious: action and memory holes are counted together, *)
(* observation by observation.                                             *)
HolesBefore(q, size, updates, z) ==
  Sum([y \in Observations(q) |->
         size[y] * ((IF HasActionHole(q, y) THEN 1 ELSE 0)
                     + (IF HasMemoryHole(updates, y) THEN 1 ELSE 0))], z - 1)

action_holes(q, size, updates, z) ==
  IF ~ HasActionHole(q, z) THEN << >>
  ELSE [m \in 1..size[z] |-> HolesBefore(q, size, updates, z) + m - 1]

(* Mutant: the memory holes are counted from where the action holes are.   *)
MemoryHolesFromFirst(q, size, updates, z) ==
  IF ~ HasMemoryHole(updates, z) THEN << >>
  ELSE [m \in 1..size[z] |-> HolesBefore(q, size, updates, z) + m - 1]

memory_holes(q, size, updates, z) ==
  IF ~ HasMemoryHole(updates, z) THEN << >>
  ELSE [m \in 1..size[z] |->
          HolesBefore(q, size, updates, z) + Len(action_holes(q, size, updates, z)) + m - 1]

(* unfold_memory: the holes are counted anew, an action and a memory hole  *)
(* become one.                                                             *)
HasHole(q, updates, z) == HasActionHole(q, z) \/ HasMemoryHole(updates, z)

obs_to_holes(q, size, updates) ==
  [z \in Observations(q) |->
     IF ~ HasHole(q, updates, z) THEN << >>
     ELSE [m \in 1..size[z] |->
             Sum([y \in Observations(q) |-> IF HasHole(q, updates, y) THEN size[y] ELSE 0], z - 1)
               + m - 1]]

(* The numbers of options of a merged hole.                                *)
NumOptions(q, updates, z) ==
  (IF HasActionHole(q, z) THEN observation_actions(q, z) ELSE 1)
    * (IF HasMemoryHole(updates, z) THEN updates[z] ELSE 1)

(* Mutant: a state without a hole adds no entry.                           *)
EntriesOfHoles(q, states, rows, obs_holes) ==
  FlattenSeq([i \in DOMAIN states |->
    LET holes == obs_holes[q.observation[states[i].prototype]]
    IN  IF holes = << >> THEN << >>
        ELSE [o \in DOMAIN rows[i] |->
                {[hole |-> holes[states[i].memory + 1], option |-> o - 1]}]])

(* An entry for each action: a state without a hole adds a single one.     *)
action_to_hole_options(q, states, rows, obs_holes) ==
  FlattenSeq([i \in DOMAIN states |->
    LET holes == obs_holes[q.observation[states[i].prototype]]
    IN  IF holes = << >> THEN << {} >>
        ELSE [o \in DOMAIN rows[i] |->
                {[hole |-> holes[states[i].memory + 1], option |-> o - 1]}]])

(* construct_mdp and the container's tables, for the manager's sizes.      *)
Unfold(q, size) ==
  LET states    == buildStateSpace(q, size)
      updates   == max_successor_memory_size(q, size)
      rows      == [i \in DOMAIN states |-> RowsOfState(q, size, states, updates, i)]
      obs_holes == obs_to_holes(q, size, updates)
  IN  [size |-> size, states |-> states, updates |-> updates, rows |-> rows,
       row_groups |-> row_groups(rows),
       initial |-> {IndexOf(states, translateState(q, size, p, 0)) : p \in q.initial},
       target  |-> {i \in DOMAIN states : states[i].prototype \in q.target},
       action_holes |-> [z \in Observations(q) |-> action_holes(q, size, updates, z)],
       memory_holes |-> [z \in Observations(q) |-> memory_holes(q, size, updates, z)],
       obs_to_holes |-> obs_holes,
       action_to_hole_options |-> action_to_hole_options(q, states, rows, obs_holes)]

(* The tables are there once the memory is unfolded.                       *)
ASSUME UnfoldedAssumption ==
  \A q \in Pomdps : \A size \in [Observations(q) -> 1..MaxMemory] : Unfold(q, size) # None

(* The observation of a hole.                                              *)
ObservationOf(q, U, h) == CHOOSE z \in Observations(q) : h \in Range(U.obs_to_holes[z])

(* The whole design space: each hole's options.                            *)
AllOptions(q, U) ==
  [h \in UNION {Range(U.obs_to_holes[z]) : z \in Observations(q)} |->
     0..(NumOptions(q, U.updates, ObservationOf(q, U, h)) - 1)]

-----------------------------------------------------------------------------
(* The strategies.                                                         *)

(* setMemorySize: the sketch and strategy_iterative, with one more each    *)
(* time.                                                                   *)
SetMemorySize ==
  /\ pc = "set"
  /\ \E n \in 1..MaxMemory :
       /\ unfolded = None => n = 1
       /\ unfolded # None => n = unfolded.size[1] + 1
       /\ observation_memory_size' = [z \in Observations(pomdp) |-> n]
  /\ pc' = "unfold"
  /\ UNCHANGED <<pomdp, unfolded, family, inconsistencies, strategy>>

UnfoldMemory ==
  /\ pc = "unfold"
  /\ unfolded' = Unfold(pomdp, observation_memory_size)
  /\ family' = AllOptions(pomdp, unfolded')
  /\ pc' = IF strategy = "iterative" THEN "set" ELSE "restrict"
  /\ UNCHANGED <<pomdp, observation_memory_size, inconsistencies, strategy>>

(* Mutant: as many elements are distributed as there are holes.            *)
DistributeToHoles(items, holes, ignored) ==
  LET sequence == Ascending(items)
  IN  [h \in 1..holes |-> ignored \cup {sequence[((h - 1) % Cardinality(items)) + 1]}]

(* Mutant: the inconsistent ones stay among those of every hole.           *)
DistributeAll(items, holes, ignored) == [h \in 1..holes |-> ignored \cup items]

(* Element i of items goes to hole i, both modulo their number.            *)
Distribute(items, holes, ignored) ==
  LET sequence == Ascending(items)
      rounds   == Greatest({Cardinality(items), holes})
  IN  [h \in 1..holes |->
         ignored \cup {sequence[(i % Cardinality(items)) + 1] :
                         i \in {j \in 0..(rounds - 1) : j % holes = h - 1}}]

(* break_symmetry_3: inconsistent actions are distributed over the holes   *)
(* of an observation, or else inconsistent updates.                        *)
BreakSymmetryAt(q, U, inconsistent, z) ==
  LET holes   == U.obs_to_holes[z]
      updates == U.updates[z]
      all_actions == 0..(observation_actions(q, z) - 1)
      all_updates == 0..(updates - 1)
      actions == inconsistent.actions
      ups     == inconsistent.updates
      selected_actions ==
        IF Cardinality(actions) > 1
        THEN Distribute(actions, Len(holes), all_actions \ actions)
        ELSE [h \in DOMAIN holes |-> all_actions]
      selected_updates ==
        IF Cardinality(actions) <= 1 /\ Cardinality(ups) > 1
        THEN Distribute(ups, Len(holes), all_updates \ ups)
        ELSE [h \in DOMAIN holes |-> all_updates]
  IN  [h \in DOMAIN holes |->
         {a * updates + u : a \in selected_actions[h], u \in selected_updates[h]}]

(* The design space that is left.                                          *)
OptionsLeft(q, U, inconsistent) ==
  [h \in DOMAIN AllOptions(q, U) |->
     LET z == ObservationOf(q, U, h)
     IN  BreakSymmetryAt(q, U, inconsistent[z], z)[IndexOf(U.obs_to_holes[z], h)]]

BreakSymmetry ==
  /\ pc = "restrict"
  /\ family' = OptionsLeft(pomdp, unfolded, inconsistencies)
  /\ pc' = "solve"
  /\ UNCHANGED <<pomdp, observation_memory_size, unfolded, inconsistencies, strategy>>

(* The optimum matches the bound of the restricted family.                 *)
Stop ==
  /\ pc = "solve"
  /\ pc' = "done"
  /\ UNCHANGED <<pomdp, observation_memory_size, unfolded, family, inconsistencies, strategy>>

(* Mutant: the remainder is taken for the action.                          *)
ActionsOfRemainder(options, updates) == {o % updates : o \in options}

(* sift_actions_and_updates *)
ActionsOf(options, updates) == {o \div updates : o \in options}

UpdatesOf(options, updates) == {o % updates : o \in options}

(* The hole with the greatest score and the options a scheduler uses there *)
(* are any of the family's; what is inconsistent about it is recorded and  *)
(* its observation gets one more memory state.                             *)
InjectMemory ==
  /\ pc = "solve"
  /\ \E z \in Observations(pomdp) : \E h \in Range(unfolded.obs_to_holes[z]) :
       \E selected \in SUBSET family[h] :
         LET actions == ActionsOf(selected, unfolded.updates[z])
             updates == UpdatesOf(selected, unfolded.updates[z])
         IN  /\ observation_memory_size[z] < MaxMemory
             /\ observation_memory_size' = [observation_memory_size EXCEPT ![z] = @ + 1]
             /\ inconsistencies' =
                  IF Cardinality(selected) <= 1 THEN inconsistencies
                  ELSE IF Cardinality(actions) > 1
                  THEN [inconsistencies EXCEPT ![z].actions = @ \cup actions]
                  ELSE [inconsistencies EXCEPT ![z].updates = @ \cup updates]
  /\ pc' = "unfold"
  /\ UNCHANGED <<pomdp, unfolded, family, strategy>>

Init ==
  /\ pomdp \in Pomdps
  /\ observation_memory_size = [z \in Observations(pomdp) |-> 1]
  /\ unfolded = None
  /\ family = << >>
  /\ inconsistencies = [z \in Observations(pomdp) |-> [actions |-> {}, updates |-> {}]]
  /\ strategy \in {"iterative", "expected"}
  /\ pc = "set"

Next == SetMemorySize \/ UnfoldMemory \/ BreakSymmetry \/ Stop \/ InjectMemory

Spec == Init /\ [][Next]_vars

-----------------------------------------------------------------------------
(* The variables have the shape they should have.                          *)
TypeOK ==
  /\ observation_memory_size \in [Observations(pomdp) -> 1..MaxMemory]
  /\ \A z \in Observations(pomdp) :
       /\ inconsistencies[z].actions \subseteq 0..(observation_actions(pomdp, z) - 1)
       /\ inconsistencies[z].updates \subseteq 0..(MaxMemory - 1)
  /\ pc \in {"set", "unfold", "restrict", "solve", "done"}
  /\ unfolded # None =>
       /\ DOMAIN family = DOMAIN AllOptions(pomdp, unfolded)
       /\ \A h \in DOMAIN family : family[h] \subseteq AllOptions(pomdp, unfolded)[h]

HoleOf(q, U, i) ==
  LET holes == U.obs_to_holes[q.observation[U.states[i].prototype]]
  IN  IF holes = << >> THEN {} ELSE {holes[U.states[i].memory + 1]}

(* The rows of state i for an option of its hole, by the table of actions. *)
RowsFor(U, i, color) ==
  {r \in DOMAIN U.rows[i] : U.action_to_hole_options[U.row_groups[i] + r] = color}

Colors(q, U, i) ==
  IF HoleOf(q, U, i) = {} THEN {{}}
  ELSE LET h == CHOOSE h \in HoleOf(q, U, i) : TRUE
       IN  {{[hole |-> h, option |-> o]} : o \in AllOptions(q, U)[h]}

(* What an option means: an action, and an update of the memory that a     *)
(* successor takes if it has that memory.                                  *)
PolicyStep(q, U, i, color) ==
  LET s == U.states[i]
      option == IF color = {} THEN 0 ELSE (CHOOSE c \in color : TRUE).option
      update == option % U.updates[q.observation[s.prototype]]
      action == option \div U.updates[q.observation[s.prototype]]
  IN  {[prototype |-> d,
        memory |-> IF update < U.size[q.observation[d]] THEN update ELSE 0] :
         d \in q.rows[s.prototype][action + 1]}

StepOf(U, i, r) == {U.states[c] : c \in Range(U.rows[i][r].columns)}

(* An observation's action and memory holes pair up (the assertion of      *)
(* unfold_memory), and the manager's holes do not overlap.                 *)
HolesPairUp(q, U) ==
  /\ \A z \in Observations(q) :
       LET a == U.action_holes[z]
           m == U.memory_holes[z]
       IN  /\ a = << >> \/ m = << >> \/ Len(a) = Len(m)
           /\ Len(U.obs_to_holes[z]) = Greatest({Len(a), Len(m)})
  /\ LET all == FlattenSeq([z \in Observations(q) |->
                  U.action_holes[z] \o U.memory_holes[z]])
     IN  Range(all) = 0..(Len(all) - 1)

(* The assignments are the policies with memory: the container's holes are *)
(* the manager's, merged in pairs; each option of a state's hole is one    *)
(* row, and the row does what the option's number encodes                  *)
(* (action_to_hole_options against row_prototype and row_memory, which the *)
(* container does not read).                                               *)
AssignmentsArePolicies ==
  unfolded # None =>
    /\ HolesPairUp(pomdp, unfolded)
    /\ \A i \in DOMAIN unfolded.states : \A color \in Colors(pomdp, unfolded, i) :
         /\ Cardinality(RowsFor(unfolded, i, color)) = 1
         /\ \A r \in RowsFor(unfolded, i, color) :
              StepOf(unfolded, i, r) = PolicyStep(pomdp, unfolded, i, color)

(* The matrix builder gets the entries of a row in order and once: it adds *)
(* what comes twice in order, and drops what comes twice out of order.     *)
EntriesInOrder ==
  unfolded # None =>
    \A i \in DOMAIN unfolded.rows : \A r \in DOMAIN unfolded.rows[i] :
      LET columns == unfolded.rows[i][r].columns
      IN  \A k \in 2..Len(columns) : columns[k - 1] < columns[k]

(* Every action and every update is left to some hole of the observation.  *)
NothingForbidden(z) ==
  LET left == UNION {family[h] : h \in Range(unfolded.obs_to_holes[z])}
  IN  /\ ActionsOf(left, unfolded.updates[z]) = 0..(observation_actions(pomdp, z) - 1)
      /\ UpdatesOf(left, unfolded.updates[z]) = 0..(unfolded.updates[z] - 1)

(* Breaking the symmetry forbids no action or update altogether, and yet   *)
(* no hole is left with all the actions that a scheduler used in one hole: *)
(* the inconsistency that memory was injected for cannot come back         *)
(* (break_symmetry_3).                                                     *)
SymmetryBroken ==
  pc = "solve" =>
    \A z \in Observations(pomdp) : unfolded.obs_to_holes[z] # << >> =>
      /\ NothingForbidden(z)
      /\ Cardinality(inconsistencies[z].actions) > 1 =>
           \A h \in Range(unfolded.obs_to_holes[z]) :
             ~ inconsistencies[z].actions \subseteq ActionsOf(family[h], unfolded.updates[z])

(* More memory never loses a policy: for each option of an old state's     *)
(* hole, the hole of each of its new copies has one that takes all states  *)
(* it is the hole of to the same places, up to the memory that is new.     *)
Before(q, U, s) ==
  IF s.memory < U.size[q.observation[s.prototype]] THEN s ELSE [s EXCEPT !.memory = 0]

Simulates(q, new, old) ==
  \A i \in DOMAIN new.states :
    LET Old(j) == IndexOf(old.states, Before(q, old, new.states[j]))
        same   == {j \in DOMAIN new.states :
                     j = i \/ (HoleOf(q, new, i) # {} /\ HoleOf(q, new, j) = HoleOf(q, new, i))}
    IN  \A color \in Colors(q, old, Old(i)) : \E c \in Colors(q, new, i) : \A j \in same :
          \A r \in RowsFor(old, Old(j), color) : \E o \in RowsFor(new, j, c) :
            {Before(q, old, s) : s \in StepOf(new, j, o)} = StepOf(old, Old(j), r)

MemoryOnlyHelps ==
  [][unfolded # None => Simulates(pomdp, unfolded', unfolded)]_unfolded

=============================================================================
