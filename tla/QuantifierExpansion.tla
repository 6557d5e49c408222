------------------------- MODULE QuantifierExpansion -------------------------
(***************************************************************************)
(* The instantiation of quantified properties (HyperParser.spread_pro-     *)
(* perties).  A formula quantifies state variables over the initial states *)
(* of their schedulers and has a line for each conjunct; a line is a       *)
(* disjunction of properties.  One variable after the other is replaced    *)
(* by the states: existential ones make a line longer, universal ones make *)
(* more lines.                                                             *)
(*                                                                         *)
(* A property is the sequence of the states it is about, or of the state   *)
(* variables that stand for them; a line is a sequence of properties, and  *)
(* the lines are a set.  State variables are not numbers, nor part of      *)
(* another's name.                                                         *)
(***************************************************************************)
EXTENDS Naturals, Sequences, FiniteSets, SequencesExt

CONSTANTS
  StateVariable,   (* the names of state variables                         *)
  InitialState,    (* the initial states of the model                      *)
  Formulas         (* the formulas to instantiate                          *)

(* A formula: the quantifiers in their order, each over the initial states *)
(* of its scheduler that satisfy the restriction, and the lines.           *)
Property == Seq(StateVariable \cup InitialState)

Quantifier == [quant : {"E", "A"}, name : StateVariable, states : SUBSET InitialState]

(* Two variables do not have the same name, and no quantifier over all     *)
(* states follows one over some (parse_state_quants).                      *)
ASSUME FormulasAssumption ==
  /\ IsFiniteSet(InitialState) /\ StateVariable \cap InitialState = {}
  /\ \A f \in Formulas :
       /\ f.quants \in Seq(Quantifier)
       /\ \A i, j \in DOMAIN f.quants :
            /\ f.quants[i].name = f.quants[j].name => i = j
            /\ i < j /\ f.quants[i].quant = "E" => f.quants[j].quant = "E"
       /\ \A l \in f.lines : l \in Seq(Seq(StateVariable) \ {<< >>})

VARIABLES
  formula,         (* what the properties file says                        *)
  lines,           (* the lines, instantiated so far                       *)
  quantified,      (* how many quantifiers have been instantiated          *)
  expansion        (* "running", "done" or "failed"                        *)

spread_vars == <<formula, lines, quantified, expansion>>

SpreadInit ==
  /\ formula \in Formulas
  /\ lines = formula.lines
  /\ quantified = 0
  /\ expansion = "running"

-----------------------------------------------------------------------------
Mentions(prop, x) == \E i \in DOMAIN prop : prop[i] = x

Instantiate(prop, x, s) == [i \in DOMAIN prop |-> IF prop[i] = x THEN s ELSE prop[i]]

(* What is left of a property that has no instance: an empty text.         *)
NoProperty == << >>

(* The states not yet mentioned: instances are about distinct states.      *)
(* Mutant: all the states.                                                 *)
FreshAll(props, S) == S

Fresh(props, S) == {s \in S : \A p \in props : ~ Mentions(p, s)}

(* An empty property is lost when nothing precedes it in its line, as an   *)
(* empty text is taken for no text.                                        *)
Spread(props) ==
  LET first == SelectInSeq(props, LAMBDA p : p # NoProperty)
  IN  IF first = 0 THEN <<NoProperty>> ELSE SubSeq(props, first, Len(props))

grow_horizontally(line, x, S) ==
  LET Instances(p) == {Instantiate(p, x, s) : s \in Fresh({p}, S)}
      Replaced(p) == IF ~ Mentions(p, x) THEN <<p>>
                     ELSE IF Instances(p) = {} THEN <<NoProperty>> ELSE SetToSeq(Instances(p))
  IN  Spread(FlattenSeq([k \in DOMAIN line |-> Replaced(line[k])]))

grow_vertically(line, x, S) ==
  IF \E p \in ToSet(line) : Mentions(p, x)
  THEN {[k \in DOMAIN line |-> Instantiate(line[k], x, s)] : s \in Fresh(ToSet(line), S)}
  ELSE {line}

(* The states of a scheduler are told apart by sched_quant: a program      *)
(* without that variable shows none.                                       *)
VisibleStates(q, told_apart) == IF told_apart THEN q.states ELSE {}

SpreadQuantifier(told_apart) ==
  /\ expansion = "running"
  /\ quantified < Len(formula.quants)
  /\ LET q == formula.quants[quantified + 1]
         S == VisibleStates(q, told_apart)
     IN  IF q.quant = "E"
         THEN IF S = {} /\ lines # {}
              THEN expansion' = "failed" /\ UNCHANGED lines
              ELSE lines' = {grow_horizontally(l, q.name, S) : l \in lines} /\ UNCHANGED expansion
         ELSE /\ lines' = UNION {grow_vertically(l, q.name, S) : l \in lines}
              /\ UNCHANGED expansion
  /\ quantified' = quantified + 1
  /\ UNCHANGED formula

(* parse_instantiated_properties: an empty property cannot be parsed, nor  *)
(* one with a variable that is not quantified.                             *)
ParseProperties ==
  /\ expansion = "running"
  /\ quantified = Len(formula.quants)
  /\ expansion' = IF \A l \in lines : \A p \in ToSet(l) :
                        p # NoProperty /\ \A i \in DOMAIN p : p[i] \in InitialState
                   THEN "done" ELSE "failed"
  /\ UNCHANGED <<formula, lines, quantified>>

-----------------------------------------------------------------------------
SpreadTypeOK ==
  /\ formula \in Formulas
  /\ \A l \in lines : l \in Seq(Property)
  /\ quantified \in 0..Len(formula.quants)
  /\ expansion \in {"running", "done", "failed"}

Universal(f) == {i \in DOMAIN f.quants : f.quants[i].quant = "A"}

(* The variables, by the place of their quantifiers, of some properties.   *)
Variables(f, props) == {i \in DOMAIN f.quants : \E p \in props : Mentions(p, f.quants[i].name)}

(* Distinct states for some variables.                                     *)
Valuations(f, vs) ==
  {v \in [vs -> InitialState] :
     /\ \A i \in vs : v[i] \in f.quants[i].states
     /\ \A i, j \in vs : i # j => v[i] # v[j]}

(* A property under a valuation of variables.                              *)
Ground(f, prop, v) ==
  [k \in DOMAIN prop |->
     IF \E i \in DOMAIN v : f.quants[i].name = prop[k]
     THEN v[CHOOSE i \in DOMAIN v : f.quants[i].name = prop[k]]
     ELSE prop[k]]

(* What a line says when the properties of truth are those that hold: for  *)
(* all distinct states of its universal variables, one of its properties   *)
(* holds for some other states, distinct too, of the existential ones.     *)
LineHolds(f, line, truth) ==
  LET props == ToSet(line)
      universal == Variables(f, props) \cap Universal(f)
  IN  \A u \in Valuations(f, universal) :
        \E p \in props : \E v \in Valuations(f, universal \cup Variables(f, {p})) :
          (\A i \in universal : v[i] = u[i]) /\ Ground(f, p, v) \in truth

Meaning(f, truth) == \A l \in f.lines : LineHolds(f, l, truth)

GroundProperties(f) ==
  UNION {{Ground(f, p, v) : v \in Valuations(f, Variables(f, {p}))} :
           p \in UNION {ToSet(l) : l \in f.lines}}

(* The code keeps the states of a property apart, not those of a line: a   *)
(* property with an existential variable mentions the universal ones of    *)
(* its line.                                                               *)
Separable(f) ==
  \A l \in f.lines : \A p \in ToSet(l) :
    \/ Variables(f, {p}) \subseteq Universal(f)
    \/ Variables(f, ToSet(l)) \cap Universal(f) \subseteq Variables(f, {p})

(* The instantiated lines, a conjunction of disjunctions, say what the     *)
(* quantified formula says about distinct initial states, whichever        *)
(* properties hold (spread_properties).  Each line is read by itself: an   *)
(* existential variable of two lines may stand for two states.             *)
ExpansionCorrect ==
  Separable(formula) =>
    \A truth \in SUBSET (GroundProperties(formula) \cup UNION {ToSet(l) : l \in lines}) :
      Meaning(formula, truth) <=> \A l \in lines : \E p \in ToSet(l) : p \in truth

=============================================================================
