--------------------------- MODULE Analysis_proofs ---------------------------
(***************************************************************************)
(* Lemmas about the analysis of one family (module FamilyAnalysis): the    *)
(* combined result of the constraints is sound, a split partitions the     *)
(* members of a family, and an outcome neither adopts a wrong assignment   *)
(* nor overlooks a better one.                                             *)
(*                                                                         *)
(* Lemmas about the analysis of one assignment (module AssignmentAnalysis):*)
(* every clause it adds to the solver excludes a subfamily that holds the  *)
(* assignment, and no assignment that would be a better result by more     *)
(* than the tolerances with which the program compares values.             *)
(***************************************************************************)
EXTENDS AssignmentAnalysis, TLAPS, FiniteSetTheorems, SequenceTheorems

-----------------------------------------------------------------------------
(***************************************************************************)
(* Extremal elements of sets of naturals.                                  *)
(***************************************************************************)

LEMMA LeastNatural ==
  ASSUME NEW S \in SUBSET Nat, S # {}
  PROVE  \E n \in S : \A k \in S : n <= k
<1>1. \E n \in S : \A k \in S : ~ (<<k, n>> \in OpToRel(<, Nat))
  BY WFMin, NatLessThanWellFounded
<1>2. PICK n \in S : \A k \in S : ~ (<<k, n>> \in OpToRel(<, Nat))
  BY <1>1
<1>3. \A k \in S : ~ (k < n)
  BY <1>2 DEF OpToRel
<1> QED
  BY <1>3

LEMMA GreatestNatural ==
  ASSUME NEW m \in Nat, NEW S \in SUBSET (1..m), S # {}
  PROVE  \E n \in S : \A k \in S : k <= n
<1> DEFINE T == {j \in Nat : m - j \in S}
<1>1. T # {}
  <2>1. PICK k \in S : TRUE
    OBVIOUS
  <2>2. m - k \in Nat /\ m - (m - k) = k
    OBVIOUS
  <2> QED
    BY <2>1, <2>2
<1>2. PICK j \in T : \A k \in T : j <= k
  BY <1>1, LeastNatural
<1>3. ASSUME NEW k \in S
      PROVE  k <= m - j
  <2>1. m - k \in Nat /\ m - (m - k) = k
    OBVIOUS
  <2>2. m - k \in T
    BY <2>1
  <2>3. j <= m - k
    BY <1>2, <2>2
  <2> QED
    BY <2>3
<1> QED
  BY <1>3

-----------------------------------------------------------------------------
(***************************************************************************)
(* The specification of a family's pending constraints.                    *)
(***************************************************************************)

(* The members of F satisfy the specification exactly when they satisfy    *)
(* the groups of the given indices.                                        *)
Suffices(t, F, indices) ==
  \A a \in Members(F) :
    SatisfiesSpec(t.sat, a) <=>
      \A g \in Group : OrGroup(g, indices) # {} =>
        \E c \in OrGroup(g, indices) : a \in t.sat[c]

(* A constraint dropped from a group that is still investigated holds of   *)
(* no member of F.                                                         *)
NothingDropped(t, F, indices) ==
  \A a \in Members(F), g \in Group : OrGroup(g, indices) # {} =>
    \A c \in disjoint_indexes[g] : a \in t.sat[c] => c \in indices

(* What is left to investigate decides the specification, and any stricter *)
(* reading of the constraints too.                                         *)
Investigated(t, F, indices) ==
  Suffices(t, F, indices) /\ NothingDropped(t, F, indices)

LEMMA GroupType ==
  /\ Group = 1..Len(disjoint_indexes)
  /\ Len(disjoint_indexes) \in Nat
  /\ \A g \in Group : disjoint_indexes[g] \subseteq Constraint
BY GroupsAssumption DEF Group

(* The whole design space is investigated for all the constraints.         *)
LEMMA RootSuffices ==
  ASSUME NEW t
  PROVE  /\ Options \in Family
         /\ Suffices(t, Options, Constraint)
         /\ Investigated(t, Options, Constraint)
         /\ Members(Options) = Assignment
<1>1. \A g \in Group : OrGroup(g, Constraint) = disjoint_indexes[g] /\ disjoint_indexes[g] # {}
  BY GroupType, GroupsAssumption DEF OrGroup, Group
<1>2. Suffices(t, Options, Constraint)
  BY <1>1 DEF Suffices, SatisfiesSpec, SatisfiesGroup
<1>3. NothingDropped(t, Options, Constraint)
  BY GroupType DEF NothingDropped
<1>4. Options \in Family
  BY OptionsAssumption DEF Family
<1>5. Members(Options) = Assignment
  BY DEF Assignment, Members
<1> QED
  BY <1>2, <1>4, <1>5, <1>3 DEF Investigated

LEMMA FirstInfeasibleGroup ==
  ASSUME NEW indices \in SUBSET Constraint,
         NEW f \in [indices -> Feasibility],
         \E g \in Group : AllInfeasible(g, indices, f)
  PROVE  \E g \in Group : /\ AllInfeasible(g, indices, f)
                          /\ \A k \in Group : k < g => ~ AllInfeasible(k, indices, f)
<1> DEFINE S == {g \in Group : AllInfeasible(g, indices, f)}
<1>1. S \in SUBSET Nat /\ S # {}
  BY GroupType
<1>2. PICK g \in S : \A k \in S : g <= k
  BY <1>1, LeastNatural
<1>3. \A k \in Group : k < g => ~ AllInfeasible(k, indices, f)
  BY <1>1, <1>2, GroupType
<1> QED
  BY <1>3

(* A group without feasible members makes the whole result infeasible:     *)
(* short_evaluation leaves the later groups unevaluated, so the loop of    *)
(* the result assigns nothing after it.                                    *)
LEMMA InfeasibleGroupDecides ==
  ASSUME NEW indices \in SUBSET Constraint,
         NEW f \in [indices -> Feasibility],
         \E g \in Group : AllInfeasible(g, indices, f)
  PROVE  OverallFeasibility(CheckHyperConstraints(indices, f)) = "False"
<1> DEFINE r == CheckHyperConstraints(indices, f)
<1>1. PICK g \in Group : /\ AllInfeasible(g, indices, f)
                         /\ \A k \in Group : k < g => ~ AllInfeasible(k, indices, f)
  BY FirstInfeasibleGroup
<1>2. ASSUME NEW c \in disjoint_indexes[g]
      PROVE  r[c] = IF c \in indices THEN "False" ELSE "unchecked"
  <2>1. c \in Constraint
    BY GroupType
  <2>2. c \in indices => c \in Evaluated(indices, f) /\ f[c] = "False"
    BY <1>1 DEF Evaluated, AllInfeasible, OrGroup
  <2>3. c \notin indices => c \notin Evaluated(indices, f)
    BY DEF Evaluated
  <2> QED
    BY <2>1, <2>2, <2>3 DEF CheckHyperConstraints
<1>3. \E c \in disjoint_indexes[g] : c \in indices
  BY <1>1 DEF AllInfeasible, OrGroup
<1>4. GroupFeasibility(g, r) = "False"
  BY <1>2, <1>3 DEF GroupFeasibility, HasTrue, HasNone
<1>5. ASSUME NEW k \in Group, k > g
      PROVE  GroupFeasibility(k, r) = "True"
  <2>1. ASSUME NEW c \in disjoint_indexes[k]
        PROVE  r[c] = "unchecked"
    <3>1. c \in Constraint
      BY GroupType
    <3>2. \A j \in Group : c \in disjoint_indexes[j] => j = k
      BY GroupsAssumption DEF Group
    <3>3. c \notin Evaluated(indices, f)
      BY <1>1, <1>5, <3>2 DEF Evaluated
    <3> QED
      BY <3>1, <3>3 DEF CheckHyperConstraints
  <2> QED
    BY <2>1 DEF GroupFeasibility
<1> QED
  BY <1>4, <1>5 DEF OverallFeasibility, LastAssigned

(* With no such group every index was evaluated, and the result is not     *)
(* infeasible.                                                             *)
LEMMA NoInfeasibleGroup ==
  ASSUME NEW indices \in SUBSET Constraint,
         NEW f \in [indices -> Feasibility],
         \A g \in Group : ~ AllInfeasible(g, indices, f)
  PROVE  /\ \A c \in Constraint : CheckHyperConstraints(indices, f)[c]
              = IF c \in indices THEN f[c] ELSE "unchecked"
         /\ OverallFeasibility(CheckHyperConstraints(indices, f)) # "False"
<1> DEFINE r == CheckHyperConstraints(indices, f)
<1>1. Evaluated(indices, f) = indices
  <2>1. \A c \in indices : \E g \in Group : c \in disjoint_indexes[g]
    BY GroupsAssumption DEF Group
  <2> QED
    BY <2>1 DEF Evaluated
<1>2. \A c \in Constraint : r[c] = IF c \in indices THEN f[c] ELSE "unchecked"
  BY <1>1 DEF CheckHyperConstraints
<1>3. ASSUME NEW g \in Group
      PROVE  GroupFeasibility(g, r) # "False"
  <2>1. CASE OrGroup(g, indices) = {}
    <3>1. \A c \in disjoint_indexes[g] : r[c] = "unchecked"
      BY <2>1, <1>2, GroupType DEF OrGroup
    <3> QED
      BY <3>1 DEF GroupFeasibility
  <2>2. CASE OrGroup(g, indices) # {}
    <3>1. PICK c \in OrGroup(g, indices) : f[c] # "False"
      BY <2>2 DEF AllInfeasible
    <3>2. c \in disjoint_indexes[g] /\ r[c] \in {"True", "None"}
      BY <3>1, <1>2 DEF OrGroup, Feasibility
    <3> QED
      BY <3>2 DEF GroupFeasibility, HasTrue, HasNone
  <2> QED
    BY <2>1, <2>2
<1>4. ~ LastAssigned("False", r)
  BY <1>3 DEF LastAssigned
<1> QED
  BY <1>2, <1>4 DEF OverallFeasibility

(* An infeasible result rules every member of the family out.              *)
LEMMA InfeasibleSound ==
  ASSUME NEW t \in Task, NEW F \in Family, NEW indices \in SUBSET Constraint,
         NEW f \in Feasibilities(t, F, indices),
         Suffices(t, F, indices),
         OverallFeasibility(CheckHyperConstraints(indices, f)) = "False",
         NEW a \in Members(F)
  PROVE  ~ SatisfiesSpec(t.sat, a)
<1>1. f \in [indices -> Feasibility] /\ \A c \in indices : f[c] \in CheckConstraint(t, F, c)
  BY DEF Feasibilities
<1>2. PICK g \in Group : AllInfeasible(g, indices, f)
  BY <1>1, NoInfeasibleGroup
<1>3. \A c \in OrGroup(g, indices) : a \notin t.sat[c]
  BY <1>1, <1>2 DEF AllInfeasible, CheckConstraint, OrGroup
<1> QED
  BY <1>2, <1>3 DEF Suffices, AllInfeasible

(* A feasible result accepts every member of the family.                   *)
LEMMA FeasibleSound ==
  ASSUME NEW t \in Task, NEW F \in Family, NEW indices \in SUBSET Constraint,
         NEW f \in Feasibilities(t, F, indices),
         Suffices(t, F, indices),
         OverallFeasibility(CheckHyperConstraints(indices, f)) = "True",
         NEW a \in Members(F)
  PROVE  SatisfiesSpec(t.sat, a)
<1> DEFINE r == CheckHyperConstraints(indices, f)
<1>1. f \in [indices -> Feasibility] /\ \A c \in indices : f[c] \in CheckConstraint(t, F, c)
  BY DEF Feasibilities
<1>2. \A g \in Group : ~ AllInfeasible(g, indices, f)
  BY <1>1, InfeasibleGroupDecides
<1>3. \A c \in Constraint : r[c] = IF c \in indices THEN f[c] ELSE "unchecked"
  BY <1>1, <1>2, NoInfeasibleGroup
<1>4. \A g \in Group : GroupFeasibility(g, r) \in {"True", "False", "None"}
  BY DEF GroupFeasibility
<1>5. ~ LastAssigned("False", r) /\ ~ LastAssigned("None", r)
  BY DEF OverallFeasibility
<1>6. ASSUME NEW g \in Group
      PROVE  GroupFeasibility(g, r) = "True"
  <2> DEFINE S == {k \in Group : GroupFeasibility(k, r) # "True"}
  <2>1. SUFFICES ASSUME S # {}
                 PROVE  FALSE
    OBVIOUS
  <2>2. S \in SUBSET (1..Len(disjoint_indexes)) /\ Len(disjoint_indexes) \in Nat
    BY GroupType
  <2>3. PICK k \in S : \A j \in S : j <= k
    BY <2>1, <2>2, GreatestNatural
  <2>4. \A j \in Group : j > k => GroupFeasibility(j, r) = "True"
    BY <2>2, <2>3, GroupType
  <2>5. GroupFeasibility(k, r) \in {"False", "None"}
    BY <1>4
  <2> QED
    BY <1>5, <2>4, <2>5 DEF LastAssigned
<1>7. ASSUME NEW g \in Group, OrGroup(g, indices) # {}
      PROVE  \E c \in OrGroup(g, indices) : a \in t.sat[c]
  <2>1. PICK d \in disjoint_indexes[g] : d \in indices
    BY <1>7 DEF OrGroup
  <2>2. r[d] # "unchecked"
    BY <1>1, <1>3, <2>1 DEF Feasibility
  <2>3. PICK c \in disjoint_indexes[g] : r[c] = "True"
    BY <1>6, <1>4, <2>1, <2>2 DEF GroupFeasibility, HasTrue
  <2>4. c \in indices /\ f[c] = "True"
    BY <1>3, <2>3, GroupType
  <2> QED
    BY <1>1, <2>3, <2>4 DEF OrGroup, CheckConstraint
<1> QED
  BY <1>7 DEF Suffices

(* The undecided constraints are all that is left to investigate.          *)
LEMMA UndecidedSuffice ==
  ASSUME NEW t \in Task, NEW F \in Family, NEW indices \in SUBSET Constraint,
         NEW f \in Feasibilities(t, F, indices),
         Suffices(t, F, indices),
         OverallFeasibility(CheckHyperConstraints(indices, f)) # "False"
  PROVE  Suffices(t, F, UndecidedConstraints(CheckHyperConstraints(indices, f)))
<1> DEFINE r == CheckHyperConstraints(indices, f)
           U == UndecidedConstraints(r)
<1>1. f \in [indices -> Feasibility] /\ \A c \in indices : f[c] \in CheckConstraint(t, F, c)
  BY DEF Feasibilities
<1>2. \A g \in Group : ~ AllInfeasible(g, indices, f)
  BY <1>1, InfeasibleGroupDecides
<1>3. \A c \in Constraint : r[c] = IF c \in indices THEN f[c] ELSE "unchecked"
  BY <1>1, <1>2, NoInfeasibleGroup
<1>4. ASSUME NEW a \in Members(F), NEW g \in Group
      PROVE  (OrGroup(g, indices) # {} => \E c \in OrGroup(g, indices) : a \in t.sat[c])
               <=> (OrGroup(g, U) # {} => \E c \in OrGroup(g, U) : a \in t.sat[c])
  <2>0. \A c \in disjoint_indexes[g] :
          c \in Constraint /\ \A k \in Group : c \in disjoint_indexes[k] => k = g
    BY GroupType, GroupsAssumption DEF Group
  <2>1. CASE HasTrue(g, r)
    <3>1. PICK c \in disjoint_indexes[g] : r[c] = "True"
      BY <2>1 DEF HasTrue
    <3>2. c \in indices /\ f[c] = "True"
      BY <1>3, <2>0, <3>1
    <3>3. c \in OrGroup(g, indices) /\ a \in t.sat[c]
      BY <1>1, <3>1, <3>2 DEF OrGroup, CheckConstraint
    <3>4. OrGroup(g, U) = {}
      BY <2>1 DEF OrGroup, UndecidedConstraints
    <3> QED
      BY <3>3, <3>4
  <2>2. CASE ~ HasTrue(g, r)
    <3>1. OrGroup(g, U) = {c \in OrGroup(g, indices) : f[c] = "None"}
      BY <1>3, <2>0, <2>2 DEF OrGroup, UndecidedConstraints
    <3>2. \A c \in OrGroup(g, indices) : f[c] = "None" \/ (f[c] = "False" /\ a \notin t.sat[c])
      <4> SUFFICES ASSUME NEW c \in OrGroup(g, indices)
                   PROVE  f[c] = "None" \/ (f[c] = "False" /\ a \notin t.sat[c])
        OBVIOUS
      <4>1. c \in indices /\ c \in disjoint_indexes[g] /\ c \in Constraint
        BY <2>0 DEF OrGroup
      <4>2. f[c] # "True"
        BY <1>3, <2>2, <4>1 DEF HasTrue
      <4>3. f[c] = "False" => a \notin t.sat[c]
        BY <1>1, <4>1 DEF CheckConstraint
      <4> QED
        BY <1>1, <4>1, <4>2, <4>3 DEF Feasibility
    <3>3. OrGroup(g, indices) # {} => OrGroup(g, U) # {}
      BY <1>2, <3>1, <3>2 DEF AllInfeasible
    <3> QED
      BY <3>1, <3>2, <3>3
  <2> QED
    BY <2>1, <2>2
<1> QED
  BY <1>4 DEF Suffices

(* The disjuncts dropped from an undecided group are the infeasible ones.  *)
LEMMA UndecidedInvestigated ==
  ASSUME NEW t \in Task, NEW F \in Family, NEW indices \in SUBSET Constraint,
         NEW f \in Feasibilities(t, F, indices),
         Investigated(t, F, indices),
         OverallFeasibility(CheckHyperConstraints(indices, f)) # "False"
  PROVE  Investigated(t, F, UndecidedConstraints(CheckHyperConstraints(indices, f)))
<1> DEFINE r == CheckHyperConstraints(indices, f)
           U == UndecidedConstraints(r)
<1>1. f \in [indices -> Feasibility] /\ \A c \in indices : f[c] \in CheckConstraint(t, F, c)
  BY DEF Feasibilities
<1>2. \A c \in Constraint : r[c] = IF c \in indices THEN f[c] ELSE "unchecked"
  BY <1>1, InfeasibleGroupDecides, NoInfeasibleGroup
<1>3. ASSUME NEW a \in Members(F), NEW g \in Group, OrGroup(g, U) # {},
             NEW c \in disjoint_indexes[g], a \in t.sat[c]
      PROVE  c \in U
  <2>1. \A d \in disjoint_indexes[g] :
          d \in Constraint /\ \A k \in Group : d \in disjoint_indexes[k] => k = g
    BY GroupType, GroupsAssumption DEF Group
  <2>2. PICK d \in disjoint_indexes[g] : d \in U
    BY <1>3 DEF OrGroup
  <2>3. r[d] = "None" /\ ~ HasTrue(g, r)
    BY <2>1, <2>2 DEF UndecidedConstraints
  <2>4. d \in OrGroup(g, indices)
    BY <1>2, <2>1, <2>2, <2>3 DEF OrGroup
  <2>5. c \in indices
    BY <1>3, <2>4 DEF Investigated, NothingDropped
  <2>6. f[c] # "False"
    BY <1>1, <1>3, <2>5 DEF CheckConstraint
  <2>7. f[c] # "True"
    BY <1>2, <2>1, <2>3, <2>5 DEF HasTrue
  <2>8. f[c] = "None"
    BY <1>1, <2>5, <2>6, <2>7 DEF Feasibility
  <2> QED
    BY <1>2, <2>1, <2>3, <2>5, <2>8 DEF UndecidedConstraints
<1>4. NothingDropped(t, F, U)
  BY <1>3 DEF NothingDropped
<1>5. Suffices(t, F, U)
  BY UndecidedSuffice DEF Investigated
<1> QED
  BY <1>4, <1>5 DEF Investigated

(* Less is to be investigated for fewer members.                           *)
LEMMA InvestigatedSubfamily ==
  ASSUME NEW t, NEW F, NEW G, NEW indices,
         Investigated(t, F, indices), \A a \in Members(G) : a \in Members(F)
  PROVE  Investigated(t, G, indices)
BY DEF Investigated, Suffices, NothingDropped

(* A member that fills a merged selection satisfies the specification.     *)
LEMMA SelectedSatisfies ==
  ASSUME NEW t \in Task, NEW F \in Family, NEW indices \in SUBSET Constraint,
         NEW f \in Feasibilities(t, F, indices),
         Suffices(t, F, indices),
         OverallFeasibility(CheckHyperConstraints(indices, f)) # "False",
         NEW a \in SatSelected(t, F, CheckHyperConstraints(indices, f))
  PROVE  a \in Members(F) /\ SatisfiesSpec(t.sat, a)
<1> DEFINE r == CheckHyperConstraints(indices, f)
<1>1. f \in [indices -> Feasibility] /\ \A c \in indices : f[c] \in CheckConstraint(t, F, c)
  BY DEF Feasibilities
<1>2. \A c \in Constraint : r[c] = IF c \in indices THEN f[c] ELSE "unchecked"
  BY <1>1, InfeasibleGroupDecides, NoInfeasibleGroup
<1>3. a \in Members(F)
  BY DEF SatSelected
<1>4. ASSUME NEW g \in Group, OrGroup(g, indices) # {}
      PROVE  \E c \in OrGroup(g, indices) : a \in t.sat[c]
  <2>1. PICK d \in disjoint_indexes[g] : d \in indices
    BY <1>4 DEF OrGroup
  <2>2. r[d] # "unchecked"
    BY <1>1, <1>2, <2>1 DEF Feasibility
  <2>3. PICK c \in disjoint_indexes[g] :
                r[c] = "True" \/ (r[c] = "None" /\ a \in t.sat[c])
    BY <2>1, <2>2 DEF SatSelected
  <2>4. c \in indices /\ f[c] = r[c]
    BY <1>2, <2>3, GroupType
  <2> QED
    BY <1>1, <1>3, <2>3, <2>4 DEF OrGroup, CheckConstraint
<1> QED
  BY <1>3, <1>4 DEF Suffices

-----------------------------------------------------------------------------
(***************************************************************************)
(* Splitting a family.                                                     *)
(***************************************************************************)

LEMMA SubholesProperties ==
  ASSUME NEW F \in Family, NEW h \in Hole, NEW opts \in SUBSET F[h], opts # {}
  PROVE  /\ Subholes(F, h, opts) \in Family
         /\ Subholes(F, h, opts)[h] = opts
         /\ \A k \in Hole \ {h} : Subholes(F, h, opts)[k] = F[k]
         /\ Members(Subholes(F, h, opts)) = {a \in Members(F) : a[h] \in opts}
<1>1. F \in [Hole -> SUBSET Option] /\ \A k \in Hole : F[k] # {} /\ F[k] \subseteq Options[k]
  BY DEF Family
<1>2. /\ Subholes(F, h, opts) \in [Hole -> SUBSET Option]
      /\ \A k \in Hole : Subholes(F, h, opts)[k] = IF k = h THEN opts ELSE F[k]
  BY <1>1 DEF Subholes
<1> QED
  BY <1>1, <1>2 DEF Family, Members

(* What a split promises: disjoint subfamilies that cover the family.      *)
Partitions(s, F) ==
  /\ s \in Seq(Family)
  /\ \A a : a \in Members(F) <=> \E i \in 1..Len(s) : a \in Members(s[i])
  /\ \A i, j \in 1..Len(s) : i # j => Members(s[i]) \cap Members(s[j]) = {}

LEMMA FunctionIsSeq ==
  ASSUME NEW n \in Nat, NEW S, NEW c \in [1..n -> S]
  PROVE  c \in Seq(S) /\ Len(c) = n
<1>1. c \in Seq(S)
  BY SeqDef
<1>2. DOMAIN c = 1..n /\ DOMAIN c = 1..Len(c) /\ Len(c) \in Nat
  BY <1>1, LenProperties
<1> QED
  BY <1>1, <1>2

LEMMA SplitAtPartitions ==
  ASSUME NEW F \in Family, NEW h \in Hole, NEW core \in SUBSET F[h], core # {},
         NEW s \in SplitAt(F, h, core)
  PROVE  Partitions(s, F)
<1>1. PICK n \in Nat : n = Cardinality(core)
  <2>1. core \subseteq Option
    BY DEF Family
  <2> QED
    BY <2>1, OptionsAssumption, FS_Subset, FS_CardinalityType
<1>2. PICK q \in Bijection(1..n, core) :
        s = Others(F, h, core) \o [i \in 1..n |-> Subholes(F, h, {q[i]})]
  BY <1>1 DEF SplitAt
<1>3. /\ q \in [1..n -> core]
      /\ \A o \in core : \E i \in 1..n : q[i] = o
      /\ \A i, j \in 1..n : i # j => q[i] # q[j]
  BY <1>2 DEF Bijection, Injection, IsInjective, Surjection
<1>4. PICK c : c = [i \in 1..n |-> Subholes(F, h, {q[i]})]
  OBVIOUS
<1>5. ASSUME NEW i \in 1..n
      PROVE  /\ c[i] \in Family
             /\ Members(c[i]) = {a \in Members(F) : a[h] = q[i]}
  <2>1. q[i] \in core /\ {q[i]} \in SUBSET F[h] /\ {q[i]} # {}
    BY <1>3
  <2>2. PICK opts \in SUBSET F[h] : opts = {q[i]} /\ opts # {}
    BY <2>1
  <2>3. c[i] = Subholes(F, h, opts)
    BY <1>4, <2>2
  <2>4. /\ c[i] \in Family
        /\ Members(c[i]) = {a \in Members(F) : a[h] \in opts}
    BY <2>2, <2>3, SubholesProperties
  <2> QED
    BY <2>2, <2>4
<1>6. c \in Seq(Family) /\ Len(c) = n
  <2>1. c \in [1..n -> Family]
    BY <1>4, <1>5
  <2> QED
    BY <2>1, FunctionIsSeq
<1>7. \A a \in Members(F) : a[h] \in F[h]
  BY DEF Members
<1>8. ASSUME NEW i \in 1..n, NEW j \in 1..n, i # j
      PROVE  Members(c[i]) \cap Members(c[j]) = {}
  BY <1>3, <1>5, <1>8
<1>9. CASE F[h] = core
  <2>1. s = c
    BY <1>2, <1>4, <1>6, <1>9, ConcatEmptySeq DEF Others
  <2>2. ASSUME NEW a \in Members(F)
        PROVE  \E i \in 1..n : a \in Members(c[i])
    <3>1. PICK i \in 1..n : q[i] = a[h]
      BY <1>3, <1>7, <1>9
    <3> QED
      BY <1>5, <3>1
  <2>3. \A i \in 1..n : Members(c[i]) \subseteq Members(F)
    BY <1>5
  <2> QED
    BY <1>6, <2>1, <2>2, <2>3, <1>8 DEF Partitions
<1>10. CASE F[h] # core
  <2>1. PICK rest : rest = Subholes(F, h, F[h] \ core)
    OBVIOUS
  <2>2. /\ Others(F, h, core) = <<rest>>
        /\ rest \in Family
        /\ Members(rest) = {a \in Members(F) : a[h] \in F[h] \ core}
    <3>1. F[h] \ core \in SUBSET F[h] /\ F[h] \ core # {}
      BY <1>10
    <3> QED
      BY <1>10, <2>1, <3>1, SubholesProperties DEF Others
  <2>3. <<rest>> \in Seq(Family) /\ Len(<<rest>>) = 1 /\ <<rest>>[1] = rest
    BY <2>2
  <2>4. s = <<rest>> \o c
    BY <1>2, <1>4, <2>2
  <2>5. /\ s \in Seq(Family)
        /\ Len(s) = 1 + n
        /\ \A i \in 1..(1 + n) : s[i] = IF i <= 1 THEN <<rest>>[i] ELSE c[i - 1]
    BY <1>6, <2>3, <2>4, ConcatProperties
  <2>6. 1 \in 1..Len(s) /\ s[1] = rest
    BY <2>3, <2>5
  <2>7. \A i \in 1..n : i + 1 \in 1..Len(s) /\ s[i + 1] = c[i]
    BY <2>5
  <2>8. ASSUME NEW a \in Members(F)
        PROVE  \E i \in 1..Len(s) : a \in Members(s[i])
    <3>1. CASE a[h] \in core
      <4>1. PICK i \in 1..n : q[i] = a[h]
        BY <1>3, <3>1
      <4>2. a \in Members(s[i + 1]) /\ i + 1 \in 1..Len(s)
        BY <1>5, <2>7, <4>1
      <4> QED
        BY <4>2
    <3>2. CASE a[h] \notin core
      BY <1>7, <2>2, <2>6, <3>2
    <3> QED
      BY <3>1, <3>2
  <2>9. ASSUME NEW i \in 1..Len(s), NEW a \in Members(s[i])
        PROVE  a \in Members(F)
    <3>1. CASE i = 1
      BY <2>2, <2>6, <3>1
    <3>2. CASE i # 1
      <4>1. i - 1 \in 1..n /\ s[i] = c[i - 1]
        BY <2>5, <3>2
      <4> QED
        BY <1>5, <4>1
    <3> QED
      BY <3>1, <3>2
  <2>10. ASSUME NEW i \in 1..n
         PROVE  Members(rest) \cap Members(c[i]) = {}
    BY <1>3, <1>5, <2>2
  <2>11. ASSUME NEW i \in 1..Len(s)
         PROVE  (i = 1 /\ s[i] = rest) \/ (i - 1 \in 1..n /\ s[i] = c[i - 1])
    BY <2>3, <2>5
  <2>12. ASSUME NEW i \in 1..Len(s), NEW j \in 1..Len(s), i # j
         PROVE  Members(s[i]) \cap Members(s[j]) = {}
    <3>1. CASE i = 1
      BY <2>10, <2>11, <2>12, <3>1
    <3>2. CASE j = 1
      BY <2>10, <2>11, <2>12, <3>2
    <3>3. CASE i # 1 /\ j # 1
      <4>1. i - 1 \in 1..n /\ s[i] = c[i - 1] /\ j - 1 \in 1..n /\ s[j] = c[j - 1]
        BY <2>11, <3>3
      <4>2. i - 1 # j - 1
        BY <2>5, <2>12
      <4> QED
        BY <1>8, <4>1, <4>2
    <3> QED
      BY <3>1, <3>2, <3>3
  <2> QED
    BY <2>5, <2>8, <2>9, <2>12 DEF Partitions
<1> QED
  BY <1>9, <1>10

LEMMA NontrivialHole ==
  ASSUME NEW F \in Family, NEW h \in Splitters(F), NEW o \in F[h]
  PROVE  F[h] \ {o} # {}
<1>1. ~ (F[h] = {o})
  BY FS_Singleton DEF Splitters, Trivial
<1> QED
  BY <1>1

LEMMA FourIsSeq ==
  ASSUME NEW S, NEW a \in S, NEW b \in S, NEW c \in S, NEW d \in S
  PROVE  /\ << a, b, c, d >> \in Seq(S)
         /\ Len(<< a, b, c, d >>) = 4
         /\ << a, b, c, d >>[1] = a
         /\ << a, b, c, d >>[2] = b
         /\ << a, b, c, d >>[3] = c
         /\ << a, b, c, d >>[4] = d
OBVIOUS

LEMMA SplitAtBothPartitions ==
  ASSUME NEW F \in Family, NEW h \in Splitters(F), NEW k \in Splitters(F) \ {h},
         NEW s \in SplitAtBoth(F, h, k)
  PROVE  Partitions(s, F)
<1>1. PICK o \in F[h], u \in F[k] : s = Quarters(F, h, o, k, u)
  BY DEF SplitAtBoth
<1>2. h \in Hole /\ k \in Hole /\ h # k
  BY DEF Splitters
<1>3. /\ F[h] \ {o} \in SUBSET F[h] /\ F[h] \ {o} # {}
      /\ F[k] \ {u} \in SUBSET F[k] /\ F[k] \ {u} # {}
      /\ {o} \in SUBSET F[h] /\ {o} # {}
      /\ {u} \in SUBSET F[k] /\ {u} # {}
  BY NontrivialHole
<1>4. ASSUME NEW A \in SUBSET F[h], A # {}, NEW B \in SUBSET F[k], B # {}
      PROVE  /\ SubholesBoth(F, h, A, k, B) \in Family
             /\ Members(SubholesBoth(F, h, A, k, B))
                  = {a \in Members(F) : a[h] \in A /\ a[k] \in B}
  <2>1. /\ Subholes(F, h, A) \in Family
        /\ Subholes(F, h, A)[k] = F[k]
        /\ Members(Subholes(F, h, A)) = {a \in Members(F) : a[h] \in A}
    BY <1>2, <1>4, SubholesProperties
  <2>2. /\ SubholesBoth(F, h, A, k, B) \in Family
        /\ Members(SubholesBoth(F, h, A, k, B))
             = {a \in Members(Subholes(F, h, A)) : a[k] \in B}
    BY <1>2, <1>4, <2>1, SubholesProperties DEF SubholesBoth
  <2> QED
    BY <2>1, <2>2
<1>5. PICK p, q, r, v :
        /\ p = SubholesBoth(F, h, F[h] \ {o}, k, F[k] \ {u})
        /\ q = SubholesBoth(F, h, F[h] \ {o}, k, {u})
        /\ r = SubholesBoth(F, h, {o}, k, F[k] \ {u})
        /\ v = SubholesBoth(F, h, {o}, k, {u})
  OBVIOUS
<1>6. /\ p \in Family
      /\ Members(p) = {a \in Members(F) : a[h] \in F[h] \ {o} /\ a[k] \in F[k] \ {u}}
  BY <1>3, <1>4, <1>5
<1>7. q \in Family /\ Members(q) = {a \in Members(F) : a[h] \in F[h] \ {o} /\ a[k] \in {u}}
  BY <1>3, <1>4, <1>5
<1>8. r \in Family /\ Members(r) = {a \in Members(F) : a[h] \in {o} /\ a[k] \in F[k] \ {u}}
  BY <1>3, <1>4, <1>5
<1>9. v \in Family /\ Members(v) = {a \in Members(F) : a[h] \in {o} /\ a[k] \in {u}}
  BY <1>3, <1>4, <1>5
<1>10. s = << p, q, r, v >>
  BY <1>1, <1>5 DEF Quarters
<1>11. /\ s \in Seq(Family)
       /\ Len(s) = 4
       /\ s[1] = p /\ s[2] = q /\ s[3] = r /\ s[4] = v
  BY <1>6, <1>7, <1>8, <1>9, <1>10, FourIsSeq
<1>12. \A a \in Members(F) : a[h] \in F[h] /\ a[k] \in F[k]
  BY <1>2 DEF Members
<1>13. ASSUME NEW a \in Members(F)
       PROVE  \E i \in 1..4 : a \in Members(s[i])
  <2>1. a \in Members(p) \/ a \in Members(q) \/ a \in Members(r) \/ a \in Members(v)
    BY <1>6, <1>7, <1>8, <1>9, <1>12
  <2> QED
    BY <1>11, <2>1
<1>14. ASSUME NEW i \in 1..4, NEW a \in Members(s[i])
       PROVE  a \in Members(F)
  <2>1. i = 1 \/ i = 2 \/ i = 3 \/ i = 4
    OBVIOUS
  <2> QED
    BY <1>6, <1>7, <1>8, <1>9, <1>11, <2>1
<1>15. ASSUME NEW i \in 1..4, NEW j \in 1..4, i # j
       PROVE  Members(s[i]) \cap Members(s[j]) = {}
  <2>1. /\ Members(p) \cap Members(q) = {} /\ Members(p) \cap Members(r) = {}
        /\ Members(p) \cap Members(v) = {} /\ Members(q) \cap Members(r) = {}
        /\ Members(q) \cap Members(v) = {} /\ Members(r) \cap Members(v) = {}
    BY <1>6, <1>7, <1>8, <1>9
  <2>2. i = 1 \/ i = 2 \/ i = 3 \/ i = 4
    OBVIOUS
  <2>3. j = 1 \/ j = 2 \/ j = 3 \/ j = 4
    OBVIOUS
  <2> QED
    BY <1>11, <1>15, <2>1, <2>2, <2>3
<1> QED
  BY <1>11, <1>13, <1>14, <1>15 DEF Partitions

LEMMA SplitPartitions ==
  ASSUME NEW F \in Family, NEW U \in SUBSET Constraint, NEW s \in Split(F, U)
  PROVE  Partitions(s, F)
<1>1. s \in SplitOne(F) \/ s \in SplitTwo(F)
  BY DEF Split
<1>2. CASE s \in SplitOne(F)
  <2>1. PICK h \in Splitters(F) : \E core \in (SUBSET F[h]) \ {{}} : s \in SplitAt(F, h, core)
    BY <1>2 DEF SplitOne
  <2>2. PICK core \in SUBSET F[h] : core # {} /\ s \in SplitAt(F, h, core)
    BY <2>1
  <2>3. h \in Hole
    BY DEF Splitters
  <2> QED
    BY <2>2, <2>3, SplitAtPartitions
<1>3. CASE s \in SplitTwo(F)
  <2>1. PICK h \in Splitters(F) : \E k \in Splitters(F) \ {h} : s \in SplitAtBoth(F, h, k)
    BY <1>3 DEF SplitTwo
  <2> QED
    BY <2>1, SplitAtBothPartitions
<1> QED
  BY <1>1, <1>2, <1>3

-----------------------------------------------------------------------------
(***************************************************************************)
(* Sizes, and worklists whose entries have a family each.                  *)
(***************************************************************************)

LEMMA FiniteMembers ==
  ASSUME NEW F \in Family
  PROVE  IsFiniteSet(Members(F)) /\ Size(F) \in Nat
<1> DEFINE graph == [a \in [Hole -> Option] |-> {p \in Hole \X Option : p[2] = a[p[1]]}]
<1>1. IsFiniteSet(SUBSET (Hole \X Option))
  BY OptionsAssumption, FS_Product, FS_SUBSET
<1>2. graph \in [[Hole -> Option] -> SUBSET (Hole \X Option)]
  OBVIOUS
<1>3. ASSUME NEW a \in [Hole -> Option], NEW b \in [Hole -> Option], graph[a] = graph[b]
      PROVE  a = b
  <2>1. ASSUME NEW h \in Hole
        PROVE  a[h] = b[h]
    <3>1. << h, a[h] >> \in graph[a]
      OBVIOUS
    <3>2. << h, a[h] >> \in graph[b]
      BY <1>3, <3>1
    <3> QED
      BY <3>2
  <2> QED
    BY <2>1
<1>4. graph \in Injection([Hole -> Option], SUBSET (Hole \X Option))
  BY <1>2, <1>3 DEF Injection, IsInjective
<1>5. IsFiniteSet([Hole -> Option])
  BY <1>1, <1>4, FS_Injection
<1>6. Members(F) \in SUBSET [Hole -> Option]
  BY DEF Members
<1> QED
  BY <1>5, <1>6, FS_Subset, FS_CardinalityType DEF Size

(* rest holds the entries of q but the one at index k.                     *)
WithoutIndex(q, k, rest) ==
  \E m \in [DOMAIN rest -> DOMAIN q \ {k}] :
    /\ \A i \in DOMAIN rest : rest[i] = q[m[i]]
    /\ \A i, j \in DOMAIN rest : i # j => m[i] # m[j]
    /\ \A j \in DOMAIN q \ {k} : \E i \in DOMAIN rest : m[i] = j

(* families.pop(-1) and families.pop(0)                                    *)
LEMMA PopFromWorklist ==
  ASSUME NEW S, NEW q \in Seq(S), q # << >>, NEW k, NEW rest,
         \/ k = Len(q) /\ rest = SubSeq(q, 1, Len(q) - 1)
         \/ k = 1 /\ rest = Tail(q)
  PROVE  /\ k \in DOMAIN q
         /\ q[k] \in S
         /\ rest \in Seq(S)
         /\ Len(rest) = Len(q) - 1
         /\ WithoutIndex(q, k, rest)
<1>1. PICK n \in Nat \ {0} : n = Len(q)
  BY EmptySeq, LenProperties
<1>2. DOMAIN q = 1..n /\ \A j \in 1..n : q[j] \in S
  BY <1>1, LenProperties, ElementOfSeq
<1>3. CASE k = Len(q) /\ rest = SubSeq(q, 1, Len(q) - 1)
  <2>1. k = n /\ rest = SubSeq(q, 1, n - 1)
    BY <1>1, <1>3
  <2>2. /\ rest \in Seq(S)
        /\ Len(rest) = n - 1
        /\ \A i \in 1..(n - 1) : rest[i] = q[i]
    <3>1. \A i \in 1..(n - 1) : q[i] \in S
      BY <1>2
    <3>2. /\ SubSeq(q, 1, n - 1) \in Seq(S)
          /\ Len(SubSeq(q, 1, n - 1)) = IF 1 <= n - 1 THEN n - 1 - 1 + 1 ELSE 0
          /\ \A i \in 1..(n - 1 - 1 + 1) : SubSeq(q, 1, n - 1)[i] = q[1 + i - 1]
      BY <3>1, SubSeqProperties
    <3> QED
      BY <2>1, <3>2
  <2>3. DOMAIN rest = 1..(n - 1)
    BY <2>2, LenProperties
  <2>4. PICK m : m = [i \in 1..(n - 1) |-> i]
    OBVIOUS
  <2>5. m \in [DOMAIN rest -> DOMAIN q \ {k}]
    BY <1>2, <2>1, <2>3, <2>4
  <2>6. \A j \in 1..n : j # n => j \in 1..(n - 1)
    OBVIOUS
  <2>7. WithoutIndex(q, k, rest)
    BY <1>2, <2>1, <2>2, <2>3, <2>4, <2>5, <2>6 DEF WithoutIndex
  <2> QED
    BY <1>1, <1>2, <2>1, <2>2, <2>7
<1>4. CASE k = 1 /\ rest = Tail(q)
  <2>1. /\ rest \in Seq(S)
        /\ Len(rest) = n - 1
        /\ \A i \in 1..(n - 1) : rest[i] = q[i + 1]
    BY <1>1, <1>4, HeadTailProperties
  <2>2. DOMAIN rest = 1..(n - 1)
    BY <2>1, LenProperties
  <2>3. PICK m : m = [i \in 1..(n - 1) |-> i + 1]
    OBVIOUS
  <2>4. m \in [DOMAIN rest -> DOMAIN q \ {k}]
    BY <1>2, <1>4, <2>2, <2>3
  <2>5. \A j \in 1..n : j # 1 => j - 1 \in 1..(n - 1) /\ (j - 1) + 1 = j
    OBVIOUS
  <2>6. ASSUME NEW j \in DOMAIN q \ {k}
        PROVE  \E i \in DOMAIN rest : m[i] = j
    BY <1>2, <1>4, <2>2, <2>3, <2>5
  <2>7. \A i \in DOMAIN rest : rest[i] = q[m[i]]
    BY <2>1, <2>2, <2>3
  <2>8. \A i, j \in DOMAIN rest : i # j => m[i] # m[j]
    BY <2>2, <2>3
  <2>9. WithoutIndex(q, k, rest)
    BY <2>4, <2>6, <2>7, <2>8 DEF WithoutIndex
  <2> QED
    BY <1>1, <1>2, <1>4, <2>1, <2>9
<1> QED
  BY <1>3, <1>4

LEMMA WithoutIndexEntries ==
  ASSUME NEW q, NEW k, NEW rest, WithoutIndex(q, k, rest)
  PROVE  /\ \A i \in DOMAIN rest : \E j \in DOMAIN q \ {k} : rest[i] = q[j]
         /\ \A j \in DOMAIN q \ {k} : \E i \in DOMAIN rest : rest[i] = q[j]
BY DEF WithoutIndex

(* new is old followed by the entries of sub.                              *)
Appended(old, sub, new) ==
  /\ \A i \in DOMAIN new :
       \/ i \in DOMAIN old /\ new[i] = old[i]
       \/ i \notin DOMAIN old /\ i - Len(old) \in DOMAIN sub /\ new[i] = sub[i - Len(old)]
  /\ \A i \in DOMAIN old : i \in DOMAIN new /\ new[i] = old[i]
  /\ \A j \in DOMAIN sub : j + Len(old) \in DOMAIN new /\ new[j + Len(old)] = sub[j]
  /\ Len(old) \in Nat /\ DOMAIN new \subseteq Nat

LEMMA AppendToWorklist ==
  ASSUME NEW S, NEW old \in Seq(S), NEW sub \in Seq(S), NEW new, new = old \o sub
  PROVE  new \in Seq(S) /\ Appended(old, sub, new)
<1>1. PICK n \in Nat : n = Len(old)
  BY LenProperties
<1>2. PICK m \in Nat : m = Len(sub)
  BY LenProperties
<1>3. /\ new \in Seq(S)
      /\ Len(new) = n + m
      /\ \A i \in 1..(n + m) : new[i] = IF i <= n THEN old[i] ELSE sub[i - n]
  BY <1>1, <1>2, ConcatProperties
<1>4. DOMAIN new = 1..(n + m) /\ DOMAIN old = 1..n /\ DOMAIN sub = 1..m
  BY <1>1, <1>2, <1>3, LenProperties
<1>5. \A i \in 1..(n + m) : \/ i \in 1..n /\ new[i] = old[i]
                            \/ i \notin 1..n /\ i - n \in 1..m /\ new[i] = sub[i - n]
  BY <1>3
<1>6. \A i \in 1..n : i \in 1..(n + m) /\ new[i] = old[i]
  BY <1>3
<1>7. \A j \in 1..m : j + n \in 1..(n + m) /\ new[j + n] = sub[j]
  BY <1>3
<1> QED
  BY <1>1, <1>3, <1>4, <1>5, <1>6, <1>7 DEF Appended

(* The pending families are disjoint.  Together they hold Pool(q).         *)
Disjoint(q) ==
  \A i, j \in DOMAIN q : i # j => Members(q[i].family) \cap Members(q[j].family) = {}

Pool(q) == UNION {Members(q[i].family) : i \in DOMAIN q}

LEMMA PoolOfRest ==
  ASSUME NEW q, NEW k \in DOMAIN q, NEW rest, WithoutIndex(q, k, rest)
  PROVE  /\ Pool(q) = Members(q[k].family) \cup Pool(rest)
         /\ Disjoint(q) => Disjoint(rest) /\ Members(q[k].family) \cap Pool(rest) = {}
<1>1. Pool(q) = Members(q[k].family) \cup Pool(rest)
  BY WithoutIndexEntries DEF Pool
<1>2. ASSUME Disjoint(q)
      PROVE  Disjoint(rest) /\ Members(q[k].family) \cap Pool(rest) = {}
  <2>1. PICK m \in [DOMAIN rest -> DOMAIN q \ {k}] :
          /\ \A i \in DOMAIN rest : rest[i] = q[m[i]]
          /\ \A i, j \in DOMAIN rest : i # j => m[i] # m[j]
    BY DEF WithoutIndex
  <2>2. Disjoint(rest)
    BY <1>2, <2>1 DEF Disjoint
  <2>3. ASSUME NEW i \in DOMAIN rest
        PROVE  Members(q[k].family) \cap Members(rest[i].family) = {}
    BY <1>2, <2>1 DEF Disjoint
  <2> QED
    BY <2>2, <2>3 DEF Pool
<1> QED
  BY <1>1, <1>2

(* The entries of sub have the families s.                                 *)
HaveFamilies(sub, s) ==
  /\ DOMAIN sub = 1..Len(s)
  /\ \A j \in 1..Len(s) : sub[j].family = s[j]

(* The subfamilies of a split replace their family.                        *)
LEMMA PoolOfAppended ==
  ASSUME NEW old, NEW sub, NEW new, Appended(old, sub, new),
         NEW F, NEW s, Partitions(s, F), HaveFamilies(sub, s)
  PROVE  /\ Pool(new) = Pool(old) \cup Members(F)
         /\ Disjoint(old) /\ Members(F) \cap Pool(old) = {} => Disjoint(new)
<1>1. /\ \A i \in DOMAIN new :
              \/ i \in DOMAIN old /\ new[i] = old[i]
              \/ i \notin DOMAIN old /\ i - Len(old) \in DOMAIN sub /\ new[i] = sub[i - Len(old)]
      /\ \A i \in DOMAIN old : i \in DOMAIN new /\ new[i] = old[i]
      /\ \A j \in DOMAIN sub : j + Len(old) \in DOMAIN new /\ new[j + Len(old)] = sub[j]
      /\ Len(old) \in Nat /\ DOMAIN new \subseteq Nat
  BY DEF Appended
<1>2. Pool(sub) = Members(F)
  BY DEF Pool, Partitions, HaveFamilies
<1>3. Pool(new) = Pool(old) \cup Pool(sub)
  <2>1. Pool(new) \subseteq Pool(old) \cup Pool(sub)
    BY <1>1 DEF Pool
  <2>2. Pool(old) \subseteq Pool(new)
    BY <1>1 DEF Pool
  <2>3. ASSUME NEW a \in Pool(sub)
        PROVE  a \in Pool(new)
    <3>1. PICK j \in DOMAIN sub : a \in Members(sub[j].family)
      BY DEF Pool
    <3>2. PICK i \in DOMAIN new : new[i] = sub[j]
      BY <1>1
    <3> QED
      BY <3>1, <3>2 DEF Pool
  <2> QED
    BY <2>1, <2>2, <2>3
<1>4. ASSUME Disjoint(old), Pool(sub) \cap Pool(old) = {},
             NEW i \in DOMAIN new, NEW j \in DOMAIN new, i # j
      PROVE  Members(new[i].family) \cap Members(new[j].family) = {}
  <2>1. ASSUME NEW p \in DOMAIN new
        PROVE  IF p \in DOMAIN old THEN Members(new[p].family) \subseteq Pool(old)
                                   ELSE Members(new[p].family) \subseteq Pool(sub)
    BY <1>1 DEF Pool
  <2>2. CASE i \in DOMAIN old /\ j \in DOMAIN old
    <3>1. new[i] = old[i] /\ new[j] = old[j]
      BY <1>1, <2>2
    <3> QED
      BY <1>4, <2>2, <3>1 DEF Disjoint
  <2>3. CASE i \notin DOMAIN old /\ j \notin DOMAIN old
    <3>1. PICK p \in DOMAIN sub : p = i - Len(old) /\ new[i] = sub[p]
      BY <1>1, <2>3
    <3>2. PICK r \in DOMAIN sub : r = j - Len(old) /\ new[j] = sub[r]
      BY <1>1, <2>3
    <3>3. p # r
      <4>1. i \in Nat /\ j \in Nat /\ Len(old) \in Nat
        BY <1>1
      <4> QED
        BY <1>4, <3>1, <3>2, <4>1
    <3>4. Members(s[p]) \cap Members(s[r]) = {}
      BY <3>3 DEF Partitions, HaveFamilies
    <3>5. new[i].family = s[p] /\ new[j].family = s[r]
      BY <3>1, <3>2 DEF HaveFamilies
    <3> QED
      BY <3>4, <3>5
  <2>4. CASE i \in DOMAIN old /\ j \notin DOMAIN old
    BY <1>4, <2>1, <2>4
  <2>5. CASE i \notin DOMAIN old /\ j \in DOMAIN old
    BY <1>4, <2>1, <2>5
  <2> QED
    BY <2>2, <2>3, <2>4, <2>5
<1> QED
  BY <1>2, <1>3, <1>4 DEF Disjoint

-----------------------------------------------------------------------------
(***************************************************************************)
(* The scheduler difference of a family bounds that of its members.        *)
(***************************************************************************)

LEMMA PairOfHoles ==
  ASSUME NEW m \in Matching
  PROVE  \E h, k \in Hole : h # k /\ m = {h, k}
<1>1. m \subseteq Hole /\ IsFiniteSet(m) /\ Cardinality(m) = 2
  BY OptionsAssumption, MatchingAssumption, FS_Subset
<1>2. PICK h \in m : TRUE
  BY <1>1, FS_EmptySet
<1>3. IsFiniteSet(m \ {h}) /\ Cardinality(m \ {h}) = 1
  BY <1>1, <1>2, FS_RemoveElement
<1>4. PICK k : m \ {h} = {k}
  BY <1>3, FS_Singleton
<1>5. k \in m /\ k # h /\ m = {h, k}
  BY <1>2, <1>4
<1> QED
  BY <1>1, <1>2, <1>5

LEMMA SeveralElements ==
  ASSUME NEW S, IsFiniteSet(S)
  PROVE  Cardinality(S) > 1 <=> \E x, y \in S : x # y
<1>1. Cardinality(S) \in Nat
  BY FS_CardinalityType
<1>2. Cardinality(S) = 0 <=> S = {}
  BY FS_EmptySet
<1>3. Cardinality(S) = 1 <=> \E x : S = {x}
  BY FS_Singleton
<1>4. Cardinality(S) > 1 <=> Cardinality(S) # 0 /\ Cardinality(S) # 1
  BY <1>1
<1>5. (\E x, y \in S : x # y) <=> S # {} /\ ~ \E x : S = {x}
  OBVIOUS
<1> QED
  BY <1>2, <1>3, <1>4, <1>5

(* What Differing means for the two holes of a pair.                       *)
LEMMA DifferingPair ==
  ASSUME NEW G \in [Hole -> SUBSET Option], NEW m \in Matching,
         NEW h \in Hole, NEW k \in Hole, h # k, m = {h, k}
  PROVE  /\ Differing(G, m, TRUE) <=> G[h] \cap G[k] = {}
         /\ Differing(G, m, FALSE) <=> \E x, y \in G[h] \cup G[k] : x # y
<1>1. Differing(G, m, TRUE) <=> G[h] \cap G[k] = {}
  BY DEF Differing
<1>2. UNION {G[j] : j \in m} = G[h] \cup G[k]
  OBVIOUS
<1>3. IsFiniteSet(G[h] \cup G[k])
  <2>1. G[h] \cup G[k] \in SUBSET Option
    OBVIOUS
  <2> QED
    BY <2>1, OptionsAssumption, FS_Subset
<1>4. Differing(G, m, FALSE) <=> Cardinality(G[h] \cup G[k]) > 1
  BY <1>2 DEF Differing
<1> QED
  BY <1>1, <1>3, <1>4, SeveralElements

LEMMA AsFamilyType ==
  ASSUME NEW F \in Family, NEW a \in Members(F)
  PROVE  /\ AsFamily(a) \in [Hole -> SUBSET Option]
         /\ \A h \in Hole : AsFamily(a)[h] = {a[h]} /\ a[h] \in F[h]
         /\ F \in [Hole -> SUBSET Option]
BY DEF AsFamily, Members, Family

(* A pair that must differ in the family differs in every member; a pair   *)
(* that differs in a member may differ in the family.                      *)
LEMMA DifferingBound ==
  ASSUME NEW F \in Family, NEW a \in Members(F), NEW m \in Matching
  PROVE  /\ Differing(F, m, TRUE) => Differing(AsFamily(a), m, TRUE)
         /\ Differing(AsFamily(a), m, FALSE) => Differing(F, m, FALSE)
<1>1. PICK h \in Hole, k \in Hole : h # k /\ m = {h, k}
  BY PairOfHoles
<1>2. PICK G \in [Hole -> SUBSET Option] : G = AsFamily(a)
  BY AsFamilyType
<1>3. G[h] = {a[h]} /\ G[k] = {a[k]} /\ a[h] \in F[h] /\ a[k] \in F[k]
  BY <1>2, AsFamilyType
<1>4. /\ Differing(G, m, TRUE) <=> G[h] \cap G[k] = {}
      /\ Differing(G, m, FALSE) <=> \E x, y \in G[h] \cup G[k] : x # y
  BY <1>1, DifferingPair
<1>5. /\ Differing(F, m, TRUE) <=> F[h] \cap F[k] = {}
      /\ Differing(F, m, FALSE) <=> \E x, y \in F[h] \cup F[k] : x # y
  BY <1>1, AsFamilyType, DifferingPair
<1> QED
  BY <1>2, <1>3, <1>4, <1>5

(* An optimizing assignment differs in the pairs the family counts only.   *)
LEMMA DifferingAttained ==
  ASSUME NEW F \in Family, NEW minimizing \in BOOLEAN,
         NEW a \in OptimizingAssignments(F, minimizing), NEW m \in Matching
  PROVE  /\ a \in Members(F)
         /\ Differing(F, m, minimizing) <=> Differing(AsFamily(a), m, minimizing)
<1>1. a \in Members(F)
  BY DEF OptimizingAssignments, MinimizingAssignments, MaximizingAssignments
<1>2. PICK h \in Hole, k \in Hole : h # k /\ m = {h, k}
  BY PairOfHoles
<1>3. PICK G \in [Hole -> SUBSET Option] : G = AsFamily(a)
  BY <1>1, AsFamilyType
<1>4. G[h] = {a[h]} /\ G[k] = {a[k]} /\ a[h] \in F[h] /\ a[k] \in F[k]
  BY <1>1, <1>3, AsFamilyType
<1>5. /\ Differing(G, m, TRUE) <=> G[h] \cap G[k] = {}
      /\ Differing(G, m, FALSE) <=> \E x, y \in G[h] \cup G[k] : x # y
  BY <1>2, DifferingPair
<1>6. /\ Differing(F, m, TRUE) <=> F[h] \cap F[k] = {}
      /\ Differing(F, m, FALSE) <=> \E x, y \in F[h] \cup F[k] : x # y
  BY <1>1, <1>2, AsFamilyType, DifferingPair
<1>7. CASE minimizing = TRUE
  <2>1. (\E o \in Option : \A j \in m : o \in F[j]) => \A i, j \in m : a[i] = a[j]
    BY <1>7 DEF OptimizingAssignments, MinimizingAssignments
  <2>2. Differing(G, m, TRUE) => Differing(F, m, TRUE)
    <3>1. SUFFICES ASSUME F[h] \cap F[k] # {}
                   PROVE  a[h] = a[k]
      BY <1>4, <1>5, <1>6
    <3>2. PICK o \in F[h] \cap F[k] : TRUE
      BY <3>1
    <3>3. o \in Option /\ \A j \in m : o \in F[j]
      BY <1>1, <1>2, <3>2, AsFamilyType
    <3> QED
      BY <1>2, <2>1, <3>3
  <2> QED
    BY <1>1, <1>3, <1>7, <2>2, DifferingBound
<1>8. CASE minimizing = FALSE
  <2>1. \E i \in m : \A j \in m \ {i} :
          Cardinality(F[i]) <= Cardinality(F[j]) /\ (F[j] # {a[i]} => a[j] # a[i])
    BY <1>8 DEF OptimizingAssignments, MaximizingAssignments
  <2>2. PICK i \in m : \A j \in m \ {i} :
          Cardinality(F[i]) <= Cardinality(F[j]) /\ (F[j] # {a[i]} => a[j] # a[i])
    BY <2>1
  <2>3. PICK j \in m \ {i} : m = {i, j} /\ i \in Hole /\ j \in Hole
    BY <1>2
  <2>4. Cardinality(F[i]) <= Cardinality(F[j]) /\ (F[j] # {a[i]} => a[j] # a[i])
    BY <2>2, <2>3
  <2>5. ASSUME Differing(F, m, FALSE)
        PROVE  a[i] # a[j]
    <3>1. SUFFICES ASSUME F[j] = {a[i]}
                   PROVE  FALSE
      BY <2>4
    <3>2. IsFiniteSet(F[i]) /\ F[i] # {} /\ a[i] \in F[i]
      BY <1>1, <2>3, AsFamilyType, OptionsAssumption, FS_Subset
    <3>3. Cardinality(F[j]) = 1
      BY <3>1, FS_Singleton
    <3>4. ~ (Cardinality(F[i]) > 1)
      <4>1. Cardinality(F[i]) \in Nat
        BY <3>2, FS_CardinalityType
      <4> QED
        BY <2>4, <3>3, <4>1
    <3>5. ~ \E x, y \in F[i] : x # y
      BY <3>2, <3>4, SeveralElements
    <3>6. F[i] = {a[i]}
      BY <3>2, <3>5
    <3>7. F[h] \cup F[k] = {a[i]}
      BY <1>2, <2>3, <3>1, <3>6
    <3> QED
      BY <1>6, <2>5, <3>7
  <2>6. Differing(F, m, FALSE) => Differing(G, m, FALSE)
    <3>1. SUFFICES ASSUME Differing(F, m, FALSE)
                   PROVE  a[h] # a[k]
      BY <1>4, <1>5
    <3> QED
      BY <1>2, <2>3, <2>5, <3>1
  <2> QED
    BY <1>1, <1>3, <1>8, <2>6, DifferingBound
<1> QED
  BY <1>7, <1>8

(* The numbers of such pairs, for the subset order.                        *)
LEMMA CountOfPairs ==
  ASSUME NEW S \in SUBSET Matching, NEW T \in SUBSET S
  PROVE  /\ AtLeastOne(Cardinality(S)) \in Nat
         /\ AtLeastOne(Cardinality(T)) \in Nat
         /\ AtLeastOne(Cardinality(T)) <= AtLeastOne(Cardinality(S))
<1>1. IsFiniteSet(Matching)
  BY OptionsAssumption, MatchingAssumption, FS_SUBSET, FS_Subset
<1>2. IsFiniteSet(S) /\ IsFiniteSet(T) /\ Cardinality(T) <= Cardinality(S)
  BY <1>1, FS_Subset
<1>3. Cardinality(S) \in Nat /\ Cardinality(T) \in Nat
  BY <1>2, FS_CardinalityType
<1> QED
  BY <1>2, <1>3 DEF AtLeastOne

LEMMA DifferenceBound ==
  ASSUME NEW F \in Family, NEW a \in Members(F)
  PROVE  /\ SchedulerDifference(F, TRUE) \in Nat /\ SchedulerDifference(F, FALSE) \in Nat
         /\ DifferenceOf(a, TRUE) \in Nat /\ DifferenceOf(a, FALSE) \in Nat
         /\ SchedulerDifference(F, TRUE) <= DifferenceOf(a, TRUE)
         /\ DifferenceOf(a, FALSE) <= SchedulerDifference(F, FALSE)
<1>1. {m \in Matching : Differing(F, m, TRUE)}
        \in SUBSET {m \in Matching : Differing(AsFamily(a), m, TRUE)}
  BY DifferingBound
<1>2. {m \in Matching : Differing(AsFamily(a), m, FALSE)}
        \in SUBSET {m \in Matching : Differing(F, m, FALSE)}
  BY DifferingBound
<1>3. {m \in Matching : Differing(AsFamily(a), m, TRUE)} \in SUBSET Matching
  OBVIOUS
<1>4. {m \in Matching : Differing(F, m, FALSE)} \in SUBSET Matching
  OBVIOUS
<1>5. /\ SchedulerDifference(F, TRUE) \in Nat
      /\ DifferenceOf(a, TRUE) \in Nat
      /\ SchedulerDifference(F, TRUE) <= DifferenceOf(a, TRUE)
  BY <1>1, <1>3, CountOfPairs DEF SchedulerDifference, DifferenceOf
<1>6. /\ SchedulerDifference(F, FALSE) \in Nat
      /\ DifferenceOf(a, FALSE) \in Nat
      /\ DifferenceOf(a, FALSE) <= SchedulerDifference(F, FALSE)
  BY <1>2, <1>4, CountOfPairs DEF SchedulerDifference, DifferenceOf
<1> QED
  BY <1>5, <1>6

(* assume_optimizing_options attains the bound of the family.              *)
LEMMA DifferenceAttained ==
  ASSUME NEW F \in Family, NEW minimizing \in BOOLEAN,
         NEW a \in OptimizingAssignments(F, minimizing)
  PROVE  DifferenceOf(a, minimizing) = SchedulerDifference(F, minimizing)
<1>1. {m \in Matching : Differing(F, m, minimizing)}
        = {m \in Matching : Differing(AsFamily(a), m, minimizing)}
  BY DifferingAttained
<1> QED
  BY <1>1 DEF SchedulerDifference, DifferenceOf

-----------------------------------------------------------------------------
(***************************************************************************)
(* Values, and the outcome of the analysis of a family.                    *)
(***************************************************************************)

LEMMA TaskType ==
  ASSUME NEW t \in Task
  PROVE  /\ t.objective \in Objective
         /\ t.minimizing \in BOOLEAN
         /\ t.explore_all \in BOOLEAN
         /\ t.exploration_order_dfs \in BOOLEAN
         /\ \A a \in Assignment : t.val[a] \in Nat
         /\ t.objective # "none" => t.explore_all
         /\ t.objective = "sched_hyperoptimality" =>
              \A a \in Assignment : t.val[a] = DifferenceOf(a, t.minimizing)
         /\ Precision(t) \in Nat
         /\ t.objective = "sched_hyperoptimality" => Precision(t) = 0
BY AnalysisAssumption DEF Task, Precision

LEMMA MembersAreAssignments ==
  ASSUME NEW F \in Family, NEW a \in Members(F)
  PROVE  a \in Assignment /\ a # None
BY OptionsAssumption DEF Family, Members, Assignment

LEMMA NoneIsNoAssignment ==
  None \notin Assignment /\ None \notin Nat
BY OptionsAssumption DEF Assignment

(* The optimum is the value of the result.                                 *)
OptimumOf(t, optimum, result) ==
  /\ optimum \in Nat \cup {None}
  /\ result \in Assignment \cup {None}
  /\ result = None => optimum = None
  /\ result # None /\ t.objective # "none" => optimum = t.val[result]

LEMMA ImprovesResultOptimum ==
  ASSUME NEW t \in Task, NEW optimum, NEW result, OptimumOf(t, optimum, result),
         NEW a \in Assignment
  PROVE  /\ ImprovesResult(t, a, result) =>
              SatisfiesSpec(t.sat, a) /\ ImprovesOptimum(t, t.val[a], optimum)
         /\ t.objective # "none" => (ImprovesResult(t, a, result) <=>
              SatisfiesSpec(t.sat, a) /\ ImprovesOptimum(t, t.val[a], optimum))
<1>1. CASE result = None
  BY <1>1 DEF OptimumOf, ImprovesResult, ImprovesOptimum
<1>2. CASE result # None
  <2>1. CASE t.objective = "none"
    BY <1>2, <2>1 DEF ImprovesResult
  <2>2. CASE t.objective # "none"
    <3>1. optimum = t.val[result] /\ optimum # None
      BY <1>2, <2>2, TaskType, NoneIsNoAssignment DEF OptimumOf
    <3> QED
      BY <1>2, <2>2, <3>1 DEF ImprovesResult
  <2> QED
    BY <2>1, <2>2
<1> QED
  BY <1>1, <1>2

(* What improves on a better result improves on the worse one.             *)
LEMMA ImprovesTransitive ==
  ASSUME NEW t \in Task, NEW v \in Nat, NEW w \in Nat, NEW optimum \in Nat \cup {None},
         ImprovesOptimum(t, w, optimum), ImprovesOptimum(t, v, w)
  PROVE  ImprovesOptimum(t, v, optimum)
<1>1. Precision(t) \in Nat /\ w # None /\ t.minimizing \in BOOLEAN
  BY TaskType, NoneIsNoAssignment
<1> QED
  BY <1>1 DEF ImprovesOptimum, Better

(* The promise of an outcome o for family F.                               *)
SoundOutcome(t, F, optimum, result, o) ==
  /\ o.assignment \in Assignment \cup {None}
  /\ o.can_improve \in BOOLEAN
  /\ o.assignment # None =>
       /\ o.assignment \in Members(F)
       /\ SatisfiesSpec(t.sat, o.assignment)
       /\ t.objective # "none" => ImprovesOptimum(t, t.val[o.assignment], optimum)
  /\ ~ o.can_improve =>
       \A a \in Members(F) :
         ~ ImprovesResult(t, a, IF o.assignment = None THEN result ELSE o.assignment)

LEMMA OptimalitySound ==
  ASSUME NEW t \in Task, NEW F \in Family, NEW optimum, NEW result,
         OptimumOf(t, optimum, result), t.objective = "optimality",
         NEW o \in CheckOptimality(t, F, optimum)
  PROVE  SoundOutcome(t, F, optimum, result, o)
<1> DEFINE improving == Improving(t, F, optimum)
           tight     == {a \in improving :
                           \A b \in Members(F) : ~ Better(t, t.val[b], t.val[a], 0)}
           accepted  == {a \in tight : SatisfiesSpec(t.sat, a)}
<1>1. \A a \in Members(F) : a \in Assignment /\ a # None /\ t.val[a] \in Nat
  BY MembersAreAssignments, TaskType
<1>2. \/ \E a \in accepted : o = Outcome(a, FALSE)
      \/ improving = {} /\ o = Outcome(None, FALSE)
      \/ o = Outcome(None, TRUE)
  BY DEF CheckOptimality
<1>3. ASSUME NEW x \in accepted, o = Outcome(x, FALSE)
      PROVE  SoundOutcome(t, F, optimum, result, o)
  <2>1. /\ x \in Members(F)
        /\ ImprovesOptimum(t, t.val[x], optimum)
        /\ SatisfiesSpec(t.sat, x)
        /\ \A b \in Members(F) : ~ Better(t, t.val[b], t.val[x], 0)
    BY DEF Improving
  <2>2. ASSUME NEW a \in Members(F)
        PROVE  ~ ImprovesResult(t, a, x)
    <3>1. t.val[a] \in Nat /\ t.val[x] \in Nat /\ x # None /\ t.val[x] # None
      BY <1>1, <2>1, NoneIsNoAssignment
    <3>2. ~ Better(t, t.val[a], t.val[x], Precision(t))
      <4>1. Precision(t) \in Nat /\ t.minimizing \in BOOLEAN
        BY TaskType
      <4>2. ~ Better(t, t.val[a], t.val[x], 0)
        BY <2>1
      <4> QED
        BY <3>1, <4>1, <4>2 DEF Better
    <3> QED
      BY <3>1, <3>2 DEF ImprovesResult, ImprovesOptimum
  <2> QED
    BY <1>1, <1>3, <2>1, <2>2 DEF SoundOutcome, Outcome
<1>4. ASSUME improving = {}, o = Outcome(None, FALSE)
      PROVE  SoundOutcome(t, F, optimum, result, o)
  <2>1. ASSUME NEW a \in Members(F)
        PROVE  ~ ImprovesResult(t, a, result)
    BY <1>1, <1>4, ImprovesResultOptimum DEF Improving
  <2> QED
    BY <1>4, <2>1 DEF SoundOutcome, Outcome
<1>5. ASSUME o = Outcome(None, TRUE)
      PROVE  SoundOutcome(t, F, optimum, result, o)
  BY <1>5 DEF SoundOutcome, Outcome
<1> QED
  BY <1>2, <1>3, <1>4, <1>5

(* No member of F beats the family's scheduler difference.                 *)
LEMMA DifferenceNotBetter ==
  ASSUME NEW t \in Task, NEW F \in Family, NEW a \in Members(F),
         t.objective = "sched_hyperoptimality",
         NEW w \in Nat,
         ~ Better(t, SchedulerDifference(F, t.minimizing), w, 0)
  PROVE  ~ Better(t, t.val[a], w, 0)
<1>0. PICK v \in Nat : v = t.val[a]
  BY TaskType, MembersAreAssignments
<1>1. /\ v = DifferenceOf(a, t.minimizing)
      /\ t.minimizing \in BOOLEAN
  BY <1>0, TaskType, MembersAreAssignments
<1>2. ASSUME t.minimizing = TRUE
      PROVE  ~ Better(t, v, w, 0)
  <2>1. v = DifferenceOf(a, TRUE)
    BY <1>1, <1>2
  <2>2. PICK d \in Nat : d = SchedulerDifference(F, TRUE) /\ d <= v
    BY <2>1, DifferenceBound, Zenon
  <2>3. ~ (d + 0 < w)
    <3>1. ~ Better(t, d, w, 0)
      BY <1>2, <2>2
    <3> QED
      BY <1>2, <3>1 DEF Better
  <2>4. d <= v
    BY <2>2
  <2>5. ~ (v + 0 < w)
    BY <2>3, <2>4
  <2> QED
    BY <1>2, <2>5 DEF Better
<1>3. ASSUME t.minimizing = FALSE
      PROVE  ~ Better(t, v, w, 0)
  <2>1. v = DifferenceOf(a, FALSE)
    BY <1>1, <1>3
  <2>2. PICK d \in Nat : d = SchedulerDifference(F, FALSE) /\ v <= d
    BY <2>1, DifferenceBound, Zenon
  <2>3. ~ (d > w + 0)
    <3>1. ~ Better(t, d, w, 0)
      BY <1>3, <2>2
    <3> QED
      BY <1>3, <3>1 DEF Better
  <2>4. v <= d
    BY <2>2
  <2>5. ~ (v > w + 0)
    BY <2>3, <2>4
  <2> QED
    BY <1>3, <2>5 DEF Better
<1> QED
  BY <1>0, <1>1, <1>2, <1>3

LEMMA SchedulerHyperOptimalitySound ==
  ASSUME NEW t \in Task, NEW F \in Family, NEW optimum, NEW result,
         OptimumOf(t, optimum, result), t.objective = "sched_hyperoptimality",
         NEW o \in CheckSchedulerHyperOptimality(t, F, optimum)
  PROVE  SoundOutcome(t, F, optimum, result, o)
<1>1. \A a \in Members(F) : a \in Assignment /\ a # None /\ t.val[a] \in Nat
  BY MembersAreAssignments, TaskType
<1>2. /\ t.minimizing \in BOOLEAN
      /\ Precision(t) = 0
      /\ \A a \in Assignment : t.val[a] = DifferenceOf(a, t.minimizing)
  BY TaskType
<1>3. CASE ~ ImprovesOptimum(t, SchedulerDifference(F, t.minimizing), optimum)
  <2>1. o = Outcome(None, FALSE)
    BY <1>3 DEF CheckSchedulerHyperOptimality
  <2>2. /\ optimum \in Nat
        /\ ~ Better(t, SchedulerDifference(F, t.minimizing), optimum, 0)
    BY <1>2, <1>3 DEF ImprovesOptimum, OptimumOf
  <2>3. ASSUME NEW a \in Members(F)
        PROVE  ~ ImprovesResult(t, a, result)
    <3>1. ~ Better(t, t.val[a], optimum, 0)
      BY <2>2, DifferenceNotBetter
    <3>2. ~ ImprovesOptimum(t, t.val[a], optimum)
      BY <1>2, <2>2, <3>1, NoneIsNoAssignment DEF ImprovesOptimum
    <3> QED
      BY <1>1, <3>2, ImprovesResultOptimum
  <2> QED
    BY <2>1, <2>3 DEF SoundOutcome, Outcome
<1>4. CASE ImprovesOptimum(t, SchedulerDifference(F, t.minimizing), optimum)
  <2>1. PICK x \in OptimizingAssignments(F, t.minimizing) :
          o = IF /\ SatisfiesSpec(t.sat, x)
                 /\ ImprovesOptimum(t, DifferenceOf(x, t.minimizing), optimum)
              THEN Outcome(x, FALSE) ELSE Outcome(None, TRUE)
    BY <1>4 DEF CheckSchedulerHyperOptimality
  <2>2. x \in Members(F)
    BY DEF OptimizingAssignments, MinimizingAssignments, MaximizingAssignments
  <2>3. t.val[x] = SchedulerDifference(F, t.minimizing)
    BY <1>1, <1>2, <2>2, DifferenceAttained
  <2>4. ASSUME SatisfiesSpec(t.sat, x), o = Outcome(x, FALSE)
        PROVE  SoundOutcome(t, F, optimum, result, o)
    <3>1. ~ Better(t, t.val[x], t.val[x], 0) /\ t.val[x] \in Nat /\ x # None
      BY <1>1, <1>2, <2>2 DEF Better
    <3>2. ASSUME NEW a \in Members(F)
          PROVE  ~ ImprovesResult(t, a, x)
      <4>1. ~ Better(t, t.val[a], t.val[x], 0)
        BY <2>3, <3>1, DifferenceNotBetter
      <4>2. t.val[x] # None
        BY <3>1, NoneIsNoAssignment
      <4> QED
        BY <1>2, <3>1, <4>1, <4>2 DEF ImprovesResult, ImprovesOptimum
    <3>3. ImprovesOptimum(t, t.val[x], optimum)
      BY <1>4, <2>3
    <3> QED
      BY <1>1, <2>2, <2>4, <3>1, <3>2, <3>3 DEF SoundOutcome, Outcome
  <2>5. ASSUME o = Outcome(None, TRUE)
        PROVE  SoundOutcome(t, F, optimum, result, o)
    BY <2>5 DEF SoundOutcome, Outcome
  <2> QED
    BY <2>1, <2>4, <2>5
<1> QED
  BY <1>3, <1>4

(* Every outcome of a family whose pending constraints suffice is sound.   *)
LEMMA OutcomeSound ==
  ASSUME NEW t \in Task, NEW F \in Family, NEW indices \in SUBSET Constraint,
         NEW f \in Feasibilities(t, F, indices), Suffices(t, F, indices),
         NEW optimum, NEW result, OptimumOf(t, optimum, result),
         NEW o \in Outcomes(t, F, CheckHyperConstraints(indices, f), optimum)
  PROVE  /\ SoundOutcome(t, F, optimum, result, o)
         /\ o.can_improve => OverallFeasibility(CheckHyperConstraints(indices, f)) # "False"
<1> DEFINE r == CheckHyperConstraints(indices, f)
<1>1. CASE OverallFeasibility(r) = "False"
  <2>1. o = Outcome(None, FALSE)
    BY <1>1 DEF Outcomes
  <2>2. ASSUME NEW a \in Members(F)
        PROVE  ~ ImprovesResult(t, a, result)
    BY <1>1, InfeasibleSound DEF ImprovesResult
  <2> QED
    BY <2>1, <2>2 DEF SoundOutcome, Outcome
<1>2. CASE OverallFeasibility(r) # "False"
  <2>1. CASE t.objective = "optimality"
    <3>1. o \in CheckOptimality(t, F, optimum)
      BY <1>2, <2>1 DEF Outcomes
    <3> QED
      BY <1>2, <2>1, <3>1, OptimalitySound
  <2>2. CASE t.objective = "sched_hyperoptimality"
    <3>1. o \in CheckSchedulerHyperOptimality(t, F, optimum)
      BY <1>2, <2>2 DEF Outcomes
    <3> QED
      BY <1>2, <2>2, <3>1, SchedulerHyperOptimalitySound
  <2>3. CASE t.objective = "none" /\ OverallFeasibility(r) = "True"
    <3>1. PICK x \in Members(F) : o = Outcome(x, FALSE)
      BY <1>2, <2>3 DEF Outcomes
    <3>2. SatisfiesSpec(t.sat, x) /\ x \in Assignment /\ x # None
      BY <2>3, FeasibleSound, MembersAreAssignments
    <3>3. \A a \in Members(F) : ~ ImprovesResult(t, a, x)
      BY <2>3, <3>2 DEF ImprovesResult
    <3> QED
      BY <1>2, <2>3, <3>1, <3>2, <3>3 DEF SoundOutcome, Outcome
  <2>4. CASE t.objective = "none" /\ OverallFeasibility(r) # "True"
    <3>1. o \in Consistent(t, F, r)
      BY <1>2, <2>4 DEF Outcomes
    <3>2. CASE o = Outcome(None, TRUE)
      BY <1>2, <3>2 DEF SoundOutcome, Outcome
    <3>3. ASSUME NEW x \in SatSelected(t, F, r), o = Outcome(x, TRUE)
          PROVE  SoundOutcome(t, F, optimum, result, o)
      <4>1. x \in Members(F) /\ SatisfiesSpec(t.sat, x)
        BY <1>2, <3>3, SelectedSatisfies
      <4>2. x \in Assignment /\ x # None
        BY <4>1, MembersAreAssignments
      <4> QED
        BY <2>4, <3>3, <4>1, <4>2 DEF SoundOutcome, Outcome
    <3> QED
      BY <1>2, <3>1, <3>2, <3>3 DEF Consistent
  <2> QED
    BY <2>1, <2>2, <2>3, <2>4, TaskType DEF Objective
<1> QED
  BY <1>1, <1>2

-----------------------------------------------------------------------------
(***************************************************************************)
(* Tolerances.                                                             *)
(***************************************************************************)

LEMMA ToleranceType ==
  ASSUME NEW t \in Task
  PROVE  /\ Tolerance(t) \in Nat
         /\ Precision(t) \in Nat
         /\ Precision(t) <= Tolerance(t)
         /\ t.objective = "optimality" => conflict_precision <= Tolerance(t)
         /\ (t.objective = "optimality" => conflict_precision <= float_precision)
              => Tolerance(t) = Precision(t)
BY AnalysisAssumption, ConflictAssumption DEF Tolerance, Precision

LEMMA BetterAntitone ==
  ASSUME NEW t \in Task, NEW v \in Nat, NEW w \in Nat, NEW m \in Nat, NEW n \in Nat,
         m <= n, Better(t, v, w, n)
  PROVE  Better(t, v, w, m)
BY TaskType DEF Better

LEMMA BetterTransitive ==
  ASSUME NEW t \in Task, NEW u \in Nat, NEW v \in Nat, NEW w \in Nat,
         NEW m \in Nat, NEW n \in Nat,
         Better(t, u, v, m), Better(t, v, w, n)
  PROVE  Better(t, u, w, m)
BY TaskType DEF Better

LEMMA NotBetterThanItself ==
  ASSUME NEW t \in Task, NEW v \in Nat, NEW m \in Nat
  PROVE  ~ Better(t, v, v, m)
BY TaskType DEF Better

(* With the specification's own comparison of the constraints and the      *)
(* optimum's own precision as the margin, this is an improvement.          *)
LEMMA ImprovesBeyondPrecision ==
  ASSUME NEW t \in Task, NEW a, NEW result \in Assignment \cup {None}
  PROVE  ImprovesResult(t, a, result) <=> ImprovesBeyond(t, t.sat, a, result, Precision(t))
<1>1. result # None => t.val[result] # None
  BY TaskType, NoneIsNoAssignment
<1> QED
  BY <1>1 DEF ImprovesResult, ImprovesBeyond, ImprovesOptimum

(* Clear satisfaction is satisfaction, and the same if no strict           *)
(* constraint holds narrowly.                                              *)
LEMMA ClearlySatProperties ==
  ASSUME NEW t \in Task, NEW b
  PROVE  /\ \A c \in Constraint : b \in ClearlySat(t)[c] => b \in t.sat[c]
         /\ SatisfiesSpec(ClearlySat(t), b) => SatisfiesSpec(t.sat, b)
         /\ ConflictsExact(t) =>
              (SatisfiesSpec(ClearlySat(t), b) <=> SatisfiesSpec(t.sat, b))
<1>1. \A c \in Constraint : b \in ClearlySat(t)[c] => b \in t.sat[c]
  BY DEF ClearlySat
<1>2. SatisfiesSpec(ClearlySat(t), b) => SatisfiesSpec(t.sat, b)
  BY <1>1, GroupType DEF SatisfiesSpec, SatisfiesGroup
<1>3. ASSUME ConflictsExact(t), SatisfiesSpec(t.sat, b)
      PROVE  SatisfiesSpec(ClearlySat(t), b)
  <2>1. \A c \in Constraint : b \in t.sat[c] => b \in ClearlySat(t)[c]
    BY <1>3 DEF ConflictsExact, ClearlySat
  <2> QED
    BY <1>3, <2>1, GroupType DEF SatisfiesSpec, SatisfiesGroup
<1> QED
  BY <1>1, <1>2, <1>3

-----------------------------------------------------------------------------
(***************************************************************************)
(* The families that clauses exclude.                                      *)
(***************************************************************************)

LEMMA GeneralizationProperties ==
  ASSUME NEW F \in Family, NEW a \in Members(F), NEW conflict \in SUBSET Hole
  PROVE  /\ Generalization(F, a, conflict) \in Family
         /\ Members(Generalization(F, a, conflict)) = Completions(F, a, conflict)
         /\ a \in Members(Generalization(F, a, conflict))
<1> DEFINE G == Generalization(F, a, conflict)
<1>1. F \in [Hole -> SUBSET Option] /\ \A h \in Hole : F[h] # {} /\ F[h] \subseteq Options[h]
  BY DEF Family
<1>2. a \in [Hole -> Option] /\ \A h \in Hole : a[h] \in F[h]
  BY DEF Members
<1>3. \A h \in Hole : G[h] = IF h \in conflict THEN {a[h]} ELSE F[h]
  BY DEF Generalization
<1>4. G \in [Hole -> SUBSET Option]
  BY <1>1, <1>2 DEF Generalization
<1>5. \A h \in Hole : G[h] # {} /\ G[h] \subseteq Options[h]
  BY <1>1, <1>2, <1>3
<1>6. G \in Family
  BY <1>4, <1>5 DEF Family
<1>7. ASSUME NEW b
      PROVE  b \in Members(G) <=> b \in Completions(F, a, conflict)
  <2>1. ASSUME b \in Members(G)
        PROVE  b \in Completions(F, a, conflict)
    <3>1. b \in [Hole -> Option] /\ \A h \in Hole : b[h] \in G[h]
      BY <2>1 DEF Members
    <3>2. \A h \in Hole : b[h] \in F[h]
      BY <1>2, <1>3, <3>1
    <3>3. \A h \in conflict : a[h] = b[h]
      BY <1>3, <3>1
    <3> QED
      BY <3>1, <3>2, <3>3 DEF Completions, Members, AgreeOn
  <2>2. ASSUME b \in Completions(F, a, conflict)
        PROVE  b \in Members(G)
    <3>1. /\ b \in [Hole -> Option]
          /\ \A h \in Hole : b[h] \in F[h]
          /\ \A h \in conflict : a[h] = b[h]
      BY <2>2 DEF Completions, Members, AgreeOn
    <3>2. \A h \in Hole : b[h] \in G[h]
      BY <1>3, <3>1
    <3> QED
      BY <3>1, <3>2 DEF Members
  <2> QED
    BY <2>1, <2>2
<1>8. a \in Completions(F, a, conflict)
  BY DEF Completions, AgreeOn
<1> QED
  BY <1>6, <1>7, <1>8

LEMMA SingletonFamily ==
  ASSUME NEW a \in Assignment
  PROVE  AsFamily(a) \in Family /\ Members(AsFamily(a)) = {a}
<1>1. a \in [Hole -> Option] /\ \A h \in Hole : a[h] \in Options[h]
  BY DEF Assignment
<1>2. AsFamily(a) \in Family
  BY <1>1 DEF AsFamily, Family
<1>3. \A h \in Hole : AsFamily(a)[h] = {a[h]}
  BY DEF AsFamily
<1>4. ASSUME NEW b \in [Hole -> Option], \A h \in Hole : b[h] \in AsFamily(a)[h]
      PROVE  b = a
  BY <1>1, <1>3, <1>4
<1> QED
  BY <1>1, <1>2, <1>3, <1>4 DEF Members

(* Every set of clauses excludes subfamilies, and when there is one, one   *)
(* of them excludes the assignment it was drawn from.                      *)
LEMMA ExclusionMembers ==
  ASSUME NEW t \in Task, NEW F \in Family, NEW indices \in SUBSET Constraint,
         NEW a \in Members(F), NEW optimum,
         NEW E \in Exclusions(t, F, indices, a, optimum)
  PROVE  /\ \A G \in E : /\ G \in Family
                         /\ Members(G) \subseteq Members(F)
                         /\ a \in Members(G)
         /\ ~ AllSat(t, indices, a) \/ t.objective = "optimality" => E # {}
<1> DEFINE groups  == UnsatGroups(t, indices, a)
           choices == {f \in [groups -> SUBSET Hole] :
                         \A g \in groups : f[g] \in GroupConflicts(t, F, indices, g, a)}
           ofGroups(f) == {Generalization(F, a, f[g]) : g \in groups}
<1>1. \A conflict \in SUBSET Hole :
        /\ Generalization(F, a, conflict) \in Family
        /\ Members(Generalization(F, a, conflict)) \subseteq Members(F)
        /\ a \in Members(Generalization(F, a, conflict))
  BY GeneralizationProperties DEF Completions
<1>2. PICK f \in choices :
        IF t.objective # "optimality" THEN E = ofGroups(f)
        ELSE \E conflict \in OptimalityConflicts(t, F, a, optimum) :
               E = ofGroups(f) \cup {Generalization(F, a, conflict)}
  BY DEF Exclusions
<1>3. \A g \in groups : f[g] \in SUBSET Hole
  OBVIOUS
<1>4. OptimalityConflicts(t, F, a, optimum) \subseteq SUBSET Hole
  BY AnalysisAssumption DEF OptimalityConflicts, ReachableHoles
<1>5. ofGroups(f) \subseteq E
  BY <1>2
<1>6. \A G \in E : \E conflict \in SUBSET Hole : G = Generalization(F, a, conflict)
  BY <1>2, <1>3, <1>4
<1>7. ~ AllSat(t, indices, a) => E # {}
  <2>1. SUFFICES ASSUME ~ AllSat(t, indices, a)
                 PROVE  ofGroups(f) # {}
    BY <1>5
  <2>2. PICK g \in groups : TRUE
    BY <2>1 DEF AllSat
  <2> QED
    BY <2>2
<1>8. t.objective = "optimality" => E # {}
  BY <1>2
<1> QED
  BY <1>1, <1>6, <1>7, <1>8

-----------------------------------------------------------------------------
(***************************************************************************)
(* No clause excludes a better result.                                     *)
(***************************************************************************)

(* The investigated groups decide the whole specification.                 *)
LEMMA AllSatSound ==
  ASSUME NEW t \in Task, NEW F \in Family, NEW indices \in SUBSET Constraint,
         Suffices(t, F, indices), NEW a \in Members(F)
  PROVE  AllSat(t, indices, a) <=> SatisfiesSpec(t.sat, a)
BY DEF AllSat, UnsatGroups, Suffices

(* A disjunct that b satisfies clearly is among those the conflict is of.  *)
LEMMA GroupConflictSound ==
  ASSUME NEW t \in Task, NEW F \in Family, NEW indices \in SUBSET Constraint,
         Investigated(t, F, indices), NEW a \in Members(F),
         NEW g \in UnsatGroups(t, indices, a),
         NEW conflict \in GroupConflicts(t, F, indices, g, a),
         NEW b \in Completions(F, a, conflict)
  PROVE  ~ SatisfiesSpec(ClearlySat(t), b)
<1>1. b \in Members(F)
  BY DEF Completions
<1>2. g \in Group /\ OrGroup(g, indices) # {}
  BY DEF UnsatGroups
<1>3. \A c \in OrGroup(g, indices) : b \notin ClearlySat(t)[c]
  BY DEF GroupConflicts
<1>4. SUFFICES ASSUME NEW c \in disjoint_indexes[g], b \in ClearlySat(t)[c]
               PROVE  FALSE
  BY <1>2 DEF SatisfiesSpec, SatisfiesGroup
<1>5. b \in t.sat[c]
  BY <1>2, <1>4, GroupType, ClearlySatProperties
<1>6. c \in OrGroup(g, indices)
  BY <1>1, <1>2, <1>5 DEF Investigated, NothingDropped, OrGroup
<1> QED
  BY <1>3, <1>4, <1>6

(* A conflict of the objective, after the assignment was adopted if it is  *)
(* a solution that improves the optimum.                                   *)
LEMMA OptimalityConflictSound ==
  ASSUME NEW t \in Task, t.objective = "optimality", SingleState,
         NEW F \in Family, NEW a \in Members(F),
         NEW optimum, NEW result, OptimumOf(t, optimum, result),
         SatisfiesSpec(t.sat, a) => ~ ImprovesOptimum(t, t.val[a], optimum),
         NEW conflict \in OptimalityConflicts(t, F, a, optimum),
         NEW b \in Completions(F, a, conflict)
  PROVE  ~ ImprovesBeyond(t, ClearlySat(t), b, result, Tolerance(t))
<1>1. /\ a \in Assignment /\ t.val[a] \in Nat
      /\ b \in Assignment /\ t.val[b] \in Nat
      /\ AgreeOn(conflict, a, b)
  BY MembersAreAssignments, TaskType DEF Completions
<1>2. /\ Tolerance(t) \in Nat /\ Precision(t) \in Nat /\ conflict_precision \in Nat
      /\ Precision(t) <= Tolerance(t) /\ conflict_precision <= Tolerance(t)
  BY ToleranceType, ConflictAssumption
<1>3. SUFFICES ASSUME ImprovesBeyond(t, ClearlySat(t), b, result, Tolerance(t))
               PROVE  FALSE
  OBVIOUS
<1>4. SatisfiesSpec(t.sat, b)
  BY <1>3, ClearlySatProperties DEF ImprovesBeyond
<1>5. ASSUME optimum # None
      PROVE  optimum \in Nat /\ Better(t, t.val[b], optimum, Tolerance(t))
  BY <1>3, <1>5 DEF OptimumOf, ImprovesBeyond
<1>6. CASE BeatsOptimum(t, t.val[a], optimum)
  <2>1. /\ conflict \in ReachableHoles(t, a)
    BY <1>6 DEF OptimalityConflicts
  <2>2. /\ t.val[b] = t.val[a]
        /\ \A c \in Constraint : b \in t.sat[c] <=> a \in t.sat[c]
    BY <1>1, <2>1 DEF ReachableHoles
  <2>3. SatisfiesSpec(t.sat, a)
    BY <1>4, <2>2, GroupType DEF SatisfiesSpec, SatisfiesGroup
  <2>4. optimum # None /\ ~ Better(t, t.val[a], optimum, Precision(t))
    BY <2>3 DEF ImprovesOptimum
  <2>5. Better(t, t.val[a], optimum, Tolerance(t)) /\ optimum \in Nat
    BY <1>5, <2>2, <2>4
  <2> QED
    BY <1>1, <1>2, <2>4, <2>5, BetterAntitone
<1>7. CASE ~ BeatsOptimum(t, t.val[a], optimum)
  <2>1. ~ BeatsOptimum(t, t.val[b], optimum)
    BY <1>7 DEF OptimalityConflicts
  <2>2. optimum # None /\ ~ Better(t, t.val[b], optimum, conflict_precision)
    BY <2>1 DEF BeatsOptimum
  <2> QED
    BY <1>1, <1>2, <1>5, <2>2, BetterAntitone
<1> QED
  BY <1>6, <1>7

LEMMA ExclusionSound ==
  ASSUME NEW t \in Task, ConflictsSound(t),
         NEW F \in Family, NEW indices \in SUBSET Constraint, Investigated(t, F, indices),
         NEW a \in Members(F),
         NEW optimum, NEW result, OptimumOf(t, optimum, result),
         AllSat(t, indices, a) /\ t.objective = "optimality" =>
           ~ ImprovesOptimum(t, t.val[a], optimum),
         NEW E \in Exclusions(t, F, indices, a, optimum),
         NEW G \in E, NEW b \in Members(G)
  PROVE  ~ ImprovesBeyond(t, ClearlySat(t), b, result, Tolerance(t))
<1> DEFINE groups  == UnsatGroups(t, indices, a)
           choices == {f \in [groups -> SUBSET Hole] :
                         \A g \in groups : f[g] \in GroupConflicts(t, F, indices, g, a)}
           ofGroups(f) == {Generalization(F, a, f[g]) : g \in groups}
<1>1. PICK f \in choices :
        IF t.objective # "optimality" THEN E = ofGroups(f)
        ELSE \E conflict \in OptimalityConflicts(t, F, a, optimum) :
               E = ofGroups(f) \cup {Generalization(F, a, conflict)}
  BY DEF Exclusions
<1>2. ASSUME NEW g \in groups, G = Generalization(F, a, f[g])
      PROVE  ~ ImprovesBeyond(t, ClearlySat(t), b, result, Tolerance(t))
  <2>1. f[g] \in SUBSET Hole /\ f[g] \in GroupConflicts(t, F, indices, g, a)
    OBVIOUS
  <2>2. b \in Completions(F, a, f[g])
    BY <1>2, <2>1, GeneralizationProperties
  <2>3. ~ SatisfiesSpec(ClearlySat(t), b)
    BY <2>1, <2>2, GroupConflictSound
  <2> QED
    BY <2>3 DEF ImprovesBeyond
<1>3. ASSUME t.objective = "optimality",
             NEW conflict \in OptimalityConflicts(t, F, a, optimum),
             G = Generalization(F, a, conflict)
      PROVE  ~ ImprovesBeyond(t, ClearlySat(t), b, result, Tolerance(t))
  <2>1. conflict \in SUBSET Hole
    BY AnalysisAssumption DEF OptimalityConflicts, ReachableHoles
  <2>2. b \in Completions(F, a, conflict)
    BY <1>3, <2>1, GeneralizationProperties
  <2>3. SingleState
    BY <1>3 DEF ConflictsSound
  <2>4. SatisfiesSpec(t.sat, a) => ~ ImprovesOptimum(t, t.val[a], optimum)
    BY <1>3, AllSatSound DEF Investigated
  <2> QED
    BY <1>3, <2>2, <2>3, <2>4, OptimalityConflictSound
<1>4. CASE t.objective # "optimality"
  BY <1>1, <1>2, <1>4
<1>5. CASE t.objective = "optimality"
  <2>1. PICK conflict \in OptimalityConflicts(t, F, a, optimum) :
          E = ofGroups(f) \cup {Generalization(F, a, conflict)}
    BY <1>1, <1>5
  <2> QED
    BY <1>2, <1>3, <1>5, <2>1
<1> QED
  BY <1>4, <1>5

-----------------------------------------------------------------------------
(***************************************************************************)
(* Adopting a better result.                                               *)
(***************************************************************************)

LEMMA AdoptedResult ==
  ASSUME NEW t \in Task, NEW optimum, NEW result, OptimumOf(t, optimum, result),
         NEW a \in Assignment,
         t.objective # "none" => ImprovesOptimum(t, t.val[a], optimum),
         NEW new, new = UpdatedOptimum(t, a, optimum), NEW sat
  PROVE  /\ OptimumOf(t, new, a)
         /\ t.objective # "none" => ~ ImprovesOptimum(t, t.val[a], new)
         /\ \A b \in Assignment, margin \in Nat :
              ImprovesBeyond(t, sat, b, a, margin) => ImprovesBeyond(t, sat, b, result, margin)
<1>1. /\ t.val[a] \in Nat /\ a # None /\ t.val[a] # None /\ Precision(t) \in Nat
      /\ optimum \in Nat \cup {None} /\ result \in Assignment \cup {None}
  BY TaskType, NoneIsNoAssignment DEF OptimumOf
<1>2. OptimumOf(t, new, a)
  BY <1>1 DEF OptimumOf, UpdatedOptimum
<1>3. t.objective # "none" => ~ ImprovesOptimum(t, t.val[a], new)
  BY <1>1, NotBetterThanItself DEF UpdatedOptimum, ImprovesOptimum
<1>4. ASSUME NEW b \in Assignment, NEW margin \in Nat, ImprovesBeyond(t, sat, b, a, margin)
      PROVE  ImprovesBeyond(t, sat, b, result, margin)
  <2>1. /\ SatisfiesSpec(sat, b)
        /\ t.objective # "none"
        /\ Better(t, t.val[b], t.val[a], margin)
    BY <1>1, <1>4 DEF ImprovesBeyond
  <2>2. ASSUME result # None
        PROVE  Better(t, t.val[b], t.val[result], margin)
    <3>1. optimum = t.val[result] /\ optimum # None /\ optimum \in Nat
      BY <1>1, <2>1, <2>2, TaskType, NoneIsNoAssignment DEF OptimumOf
    <3>2. Better(t, t.val[a], optimum, Precision(t))
      BY <2>1, <3>1 DEF ImprovesOptimum
    <3>3. t.val[b] \in Nat
      BY TaskType
    <3> QED
      BY <1>1, <2>1, <3>1, <3>2, <3>3, BetterTransitive
  <2> QED
    BY <2>1, <2>2 DEF ImprovesBeyond
<1> QED
  BY <1>2, <1>3, <1>4

=============================================================================
