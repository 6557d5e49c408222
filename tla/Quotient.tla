------------------------------- MODULE Quotient -------------------------------
(***************************************************************************)
(* The quotient MDP, its holes and the actions of its families             *)
(* (HyperPropertyQuotientContainer.__init__, QuotientContainer.build and   *)
(* build_chain).  Each state with several actions has a hole with an       *)
(* option for each action; states related by a structural equality share   *)
(* one, their actions being matched by their labels.  The MDP of a family, *)
(* or the chain of an assignment, keeps the actions whose options the      *)
(* family includes, filtered from those of the parent family.              *)
(***************************************************************************)
EXTENDS Naturals, Sequences, FiniteSets, SequencesExt

CONSTANTS
  Label,           (* the labels of choices                                *)
  Scheduler,       (* the scheduler variables                              *)
  Name,            (* the texts of structural equalities                   *)
  Sketches         (* the quotient MDPs to start from                      *)

(* The labels of the actions of each state, its scheduler, and the         *)
(* structural equalities: a text, the states that satisfy it, schedulers.  *)
(* What satisfies an equality is up to its text.                           *)
Equality == [name : Name, states : SUBSET Nat, schedulers : SUBSET Scheduler]

ASSUME SketchesAssumption ==
  \A q \in Sketches :
    /\ q.labels \in Seq(Seq(Label) \ {<< >>})
    /\ q.scheduler \in [DOMAIN q.labels -> Scheduler]
    /\ q.equalities \in Seq(Equality)
    /\ \A c, d \in DOMAIN q.equalities :
         q.equalities[c].name = q.equalities[d].name
           => q.equalities[c].states = q.equalities[d].states

VARIABLES
  sketch,          (* the quotient MDP and its structural equalities       *)
  holes,           (* the holes created so far                             *)
  action_to_hole_options,  (* the hole and option of each action           *)
  family,          (* the options of each hole                             *)
  selected_actions,        (* the actions with a hole the family's MDP has *)
  quotient         (* "building", "built" or "failed"                      *)

quotient_vars == <<sketch, holes, action_to_hole_options, family, selected_actions, quotient>>

States == DOMAIN sketch.labels

Actions(s) == DOMAIN sketch.labels[s]

QuotientInit ==
  /\ sketch \in Sketches
  /\ holes = << >>
  /\ action_to_hole_options = << >>
  /\ family = << >>
  /\ selected_actions = {}
  /\ quotient = "building"

-----------------------------------------------------------------------------
(* The equalities that constrain a state (check_constraint_inclusion).     *)
Constraining(s) ==
  {c \in DOMAIN sketch.equalities :
     /\ s \in sketch.equalities[c].states
     /\ sketch.scheduler[s] \in sketch.equalities[c].schedulers}

(* Mutant: any hole with the name is taken.                                *)
LookupByName(name, schedulers) == {h \in DOMAIN holes : holes[h].name = <<name>>}

lookup_hole_index(name, schedulers) ==
  {h \in DOMAIN holes :
     holes[h].name = <<name>> /\ holes[h].associated_schedulers = schedulers}

(* The hole a state shares, if one of its equalities has created it.       *)
SharedHoles(s) ==
  UNION {lookup_hole_index(sketch.equalities[c].name, sketch.equalities[c].schedulers) :
           c \in Constraining(s)}

(* The first option of a hole with each label of a state, or none.         *)
OptionIndex(h, label) == SelectInSeq(holes[h].option_labels, LAMBDA l : l = label)

Matched(s, h) == [j \in Actions(s) |-> OptionIndex(h, sketch.labels[s][j])]

(* Mutant: a label that the hole does not have goes unnoticed.             *)
DistinctMatches(s, h) ==
  \A i, j \in Actions(s) : i # j => Matched(s, h)[i] # Matched(s, h)[j]

MatchingHolds(s, h) ==
  /\ \A j \in Actions(s) : Matched(s, h)[j] > 0
  /\ \A i, j \in Actions(s) : i # j => Matched(s, h)[i] # Matched(s, h)[j]

(* The hole of an action: a dictionary with at most one entry.             *)
Entry(h, option) == {[hole |-> h, option |-> option]}

NextState == Len(action_to_hole_options) + 1

Processing(s) == quotient = "building" /\ s = NextState /\ s \in States

(* States without nondeterminism have no hole.                             *)
SkipState(s) ==
  /\ Processing(s)
  /\ Len(sketch.labels[s]) = 1
  /\ action_to_hole_options' = Append(action_to_hole_options, <<{}>>)
  /\ UNCHANGED <<sketch, holes, family, selected_actions, quotient>>

JoinHole(s) ==
  /\ Processing(s)
  /\ Len(sketch.labels[s]) > 1
  /\ Cardinality(Constraining(s)) = 1
  /\ \E h \in SharedHoles(s) :
       /\ \A k \in SharedHoles(s) : h <= k
       /\ MatchingHolds(s, h)
       /\ action_to_hole_options' =
            Append(action_to_hole_options, [j \in Actions(s) |-> Entry(h, Matched(s, h)[j])])
  /\ UNCHANGED <<sketch, holes, family, selected_actions, quotient>>

(* A hole is named after its equality, or after its state.                 *)
NewHole(s) ==
  [name |-> IF Constraining(s) = {} THEN <<s, s>>
            ELSE <<sketch.equalities[CHOOSE c \in Constraining(s) : TRUE].name>>,
   associated_schedulers |->
     IF Constraining(s) = {} THEN {sketch.scheduler[s]}
     ELSE sketch.equalities[CHOOSE c \in Constraining(s) : TRUE].schedulers,
   option_labels |-> sketch.labels[s]]

CreateHole(s) ==
  /\ Processing(s)
  /\ Len(sketch.labels[s]) > 1
  /\ Cardinality(Constraining(s)) <= 1
  /\ SharedHoles(s) = {}
  /\ holes' = Append(holes, NewHole(s))
  /\ action_to_hole_options' =
       Append(action_to_hole_options, [j \in Actions(s) |-> Entry(Len(holes) + 1, j)])
  /\ UNCHANGED <<sketch, family, selected_actions, quotient>>

(* A state is under two equalities, or its labels are not among those of   *)
(* the hole it shares: an assertion fails.                                 *)
Inconsistent(s) ==
  \/ Cardinality(Constraining(s)) > 1
  \/ \E h \in SharedHoles(s) : (\A k \in SharedHoles(s) : h <= k) /\ ~ MatchingHolds(s, h)

FailEqualities(s) ==
  /\ Processing(s)
  /\ Len(sketch.labels[s]) > 1
  /\ Inconsistent(s)
  /\ quotient' = "failed"
  /\ UNCHANGED <<sketch, holes, action_to_hole_options, family, selected_actions>>

-----------------------------------------------------------------------------
AllActions == UNION {{s} \X Actions(s) : s \in States}

Entries(a) == action_to_hole_options[a[1]][a[2]]

(* compute_default_actions: actions without a hole are in every family.    *)
default_actions == {a \in AllActions : Entries(a) = {}}

Includes(F, entries) == \A e \in entries : e.option \in F[e.hole]

(* select_actions: from the super-quotient, or from the parent's actions.  *)
select_actions(F) == {a \in AllActions \ default_actions : Includes(F, Entries(a))}

(* Mutant: the parent's actions are taken over as they are.                *)
inherit_actions(F, parent_actions) == parent_actions

filter_actions(F, parent_actions) == {a \in parent_actions : Includes(F, Entries(a))}

DesignSpaceOf(hs) == [h \in DOMAIN hs |-> DOMAIN hs[h].option_labels]

(* The design space and its MDP, once all states have been processed.      *)
BuildQuotient ==
  /\ quotient = "building"
  /\ NextState \notin States
  /\ family' = DesignSpaceOf(holes)
  /\ selected_actions' = select_actions(family')
  /\ quotient' = "built"
  /\ UNCHANGED <<sketch, holes, action_to_hole_options>>

(* A family is split, and one of its subfamilies built from its MDP.       *)
BuildSubfamily ==
  /\ quotient = "built"
  /\ \E h \in DOMAIN holes : \E options \in SUBSET family[h] :
       /\ options # {} /\ options # family[h]
       /\ family' = [family EXCEPT ![h] = options]
       /\ selected_actions' = filter_actions(family', selected_actions)
  /\ UNCHANGED <<sketch, holes, action_to_hole_options, quotient>>

ProcessState(s) == SkipState(s) \/ JoinHole(s) \/ CreateHole(s) \/ FailEqualities(s)

QuotientNext == (\E s \in States : ProcessState(s)) \/ BuildQuotient \/ BuildSubfamily

-----------------------------------------------------------------------------
QuotientTypeOK ==
  /\ sketch \in Sketches
  /\ \A h \in DOMAIN holes : holes[h].option_labels \in Seq(Label)
  /\ Len(action_to_hole_options) <= Len(sketch.labels)
  /\ \A s \in DOMAIN action_to_hole_options : \A j \in Actions(s) :
       \A e \in action_to_hole_options[s][j] :
         e.hole \in DOMAIN holes /\ e.option \in DOMAIN holes[e.hole].option_labels
  /\ quotient \in {"building", "built", "failed"}
  /\ quotient = "built" => /\ family \in [DOMAIN holes -> SUBSET Nat]
                           /\ \A h \in DOMAIN holes : family[h] # {}
                           /\ selected_actions \subseteq AllActions

(* The assignments of a family.                                            *)
FamilyMembers(F) ==
  {a \in [DOMAIN F -> UNION {F[h] : h \in DOMAIN F}] : \A h \in DOMAIN F : a[h] \in F[h]}

Singletons(a) == [h \in DOMAIN a |-> {a[h]}]

(* build_chain: an assignment's actions, selected from the whole quotient. *)
ChainActions(a) == default_actions \cup select_actions(Singletons(a))

(* The states with a choice that an equality constrains.                   *)
Related(c) == {s \in States : c \in Constraining(s) /\ Len(sketch.labels[s]) > 1}

(* The policies a sketch stands for: a choice for each state, with the     *)
(* same label in related states.                                           *)
Policies ==
  {f \in [States -> UNION {Actions(s) : s \in States}] :
     /\ \A s \in States : f[s] \in Actions(s)
     /\ \A c \in DOMAIN sketch.equalities : \A s, t \in Related(c) :
          sketch.labels[s][f[s]] = sketch.labels[t][f[t]]}

(* Related states have the same labels and as many choices: otherwise an   *)
(* option of their hole is no action of some state.                        *)
SameChoices ==
  \A c \in DOMAIN sketch.equalities : \A s, t \in Related(c) :
    /\ ToSet(sketch.labels[s]) = ToSet(sketch.labels[t])
    /\ Len(sketch.labels[s]) = Len(sketch.labels[t])

(* The assignments are exactly the policies: each keeps one action in each *)
(* state, related states choose the same label, and all other choices are  *)
(* independent (the holes of __init__, select_actions).                    *)
HolesArePolicies ==
  SameChoices =>
    LET assignments == FamilyMembers(DesignSpaceOf(holes))
        Chosen(a, s) == {j \in Actions(s) : <<s, j>> \in ChainActions(a)}
    IN  /\ \A a \in assignments : \A s \in States : Cardinality(Chosen(a, s)) = 1
        /\ {[s \in States |-> CHOOSE j \in Chosen(a, s) : TRUE] : a \in assignments} = Policies

(* However a family was reached, its MDP has just the actions of its       *)
(* members' chains: what is concluded from it holds for them, and what     *)
(* none of them does is gone (the filter of select_actions).               *)
FamilyHasChains ==
  quotient = "built" =>
    selected_actions \cup default_actions
      = (UNION {ChainActions(a) : a \in FamilyMembers(family)}) \cup default_actions

=============================================================================
