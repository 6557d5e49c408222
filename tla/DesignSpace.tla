----------------------------- MODULE DesignSpace -----------------------------
(***************************************************************************)
(* Holes, families and hole assignments (sketch/holes.py).  A family is a  *)
(* design (sub)space: it gives every hole a nonempty set of options.  The  *)
(* order of a hole's option list only decides which option options[0] is,  *)
(* so a family keeps a set, and options[0] becomes "some option".          *)
(***************************************************************************)
EXTENDS Integers, FiniteSets, Sequences

CONSTANTS
  Hole,      (* the holes, one per nondeterministic state of the quotient  *)
  Option,    (* all options of all holes                                   *)
  Options,   (* the options of each hole in the whole design space         *)
  None       (* the absent value: no assignment, no optimum                *)

ASSUME OptionsAssumption ==
  /\ IsFiniteSet(Hole)
  /\ IsFiniteSet(Option)
  /\ Options \in [Hole -> SUBSET Option]
  /\ \A h \in Hole : Options[h] # {}
  /\ None \notin [Hole -> Option] \cup Int

Assignment == {a \in [Hole -> Option] : \A h \in Hole : a[h] \in Options[h]}

Family == {F \in [Hole -> SUBSET Option] :
             \A h \in Hole : F[h] # {} /\ F[h] \subseteq Options[h]}

(* all_combinations and construct_assignment: the members of a family.     *)
Members(F) == {a \in [Hole -> Option] : \A h \in Hole : a[h] \in F[h]}

(* Hole.is_trivial *)
Trivial(F, h) == Cardinality(F[h]) = 1

(* Holes.size = 1 *)
Singleton(F) == \A h \in Hole : Trivial(F, h)

(* Holes.size: the product of the numbers of options.                      *)
Size(F) == Cardinality(Members(F))

(* subholes followed by assume_hole_options: hole h keeps only opts.       *)
Subholes(F, h, opts) == [F EXCEPT ![h] = opts]

=============================================================================
