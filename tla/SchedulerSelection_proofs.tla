---------------------- MODULE SchedulerSelection_proofs ----------------------
(***************************************************************************)
(* The analysis of families, for every sketch: the values of bounds are    *)
(* exact, their schedulers attain them, verdicts are right for all members *)
(* and splits are those of FamilyAnalysis; reported selections satisfy the *)
(* specification, and no assertion fails.                                  *)
(*                                                                         *)
(* The algorithms are loops over sets and sequences.  What such a loop     *)
(* ends in is shown once (growing and shrinking sets, folds); then each    *)
(* algorithm is characterised by a least or greatest set, which is         *)
(* compared with the chains of schedulers and of assignments.              *)
(***************************************************************************)
EXTENDS SchedulerSelection, Analysis_proofs

-----------------------------------------------------------------------------
(***************************************************************************)
(* Iterations and folds.                                                   *)
(***************************************************************************)
(* What an iteration ends in, if anything, is a solution of its recursive  *)
(* definition.                                                             *)
LEMMA IterationExists ==
  ASSUME NEW D, NEW nx \in [D -> D]
  PROVE  \E f : f = [x \in D |-> IF nx[x] = x THEN x ELSE f[nx[x]]]
<1> DEFINE Closed(C) == \A z \in C : nx[z] \in C
           Orbit(x) == {y \in D : \A C \in SUBSET D : x \in C /\ Closed(C) => y \in C}
           Ends(x) == {y \in Orbit(x) : nx[y] = y}
           f == [x \in D |-> CHOOSE y : y \in Ends(x)]
<1>1. ASSUME NEW x \in D
      PROVE  /\ x \in Orbit(x) /\ Closed(Orbit(x)) /\ Orbit(x) \in SUBSET D
             /\ \A C \in SUBSET D : x \in C /\ Closed(C) => Orbit(x) \subseteq C
  OBVIOUS
<1>2. ASSUME NEW x \in D
      PROVE  Orbit(x) = {x} \cup Orbit(nx[x])
  <2> HIDE DEF Orbit
  <2>1. nx[x] \in D
    OBVIOUS
  <2>2. Orbit(x) \subseteq {x} \cup Orbit(nx[x])
    <3>1. {x} \cup Orbit(nx[x]) \in SUBSET D /\ Closed({x} \cup Orbit(nx[x]))
      BY <1>1, <2>1
    <3> QED
      BY <1>1, <3>1
  <2>3. Orbit(nx[x]) \subseteq Orbit(x)
    BY <1>1, <2>1
  <2> QED
    BY <1>1, <2>2, <2>3
<1>3. ASSUME NEW x \in D, NEW y \in Ends(x), NEW z \in Ends(x)
      PROVE  y = z
  <2> HIDE DEF Orbit
  <2> DEFINE C == {w \in Orbit(x) : y \in Orbit(w)}
  <2>1. Orbit(x) \subseteq D
    BY <1>1
  <2>2. ASSUME NEW w \in C
        PROVE  nx[w] \in C
    <3>1. w \in D /\ y \in {w} \cup Orbit(nx[w]) /\ nx[w] \in Orbit(x) /\ nx[w] \in D
      BY <1>1, <1>2, <2>1
    <3>2. CASE y = w
      BY <3>1, <3>2
    <3> QED
      BY <3>1, <3>2
  <2>3. x \in C
    BY <1>1
  <2>4. Orbit(x) \subseteq C
    <3>1. C \in SUBSET D
      BY <2>1
    <3> HIDE DEF C
    <3> QED
      BY <1>1, <2>2, <2>3, <3>1
  <2>5. y \in Orbit(z) /\ z \in D
    BY <2>1, <2>4
  <2>6. Orbit(z) \subseteq {z}
    <3>1. {z} \in SUBSET D /\ Closed({z})
      BY <2>5
    <3> QED
      BY <1>1, <2>5, <3>1
  <2> QED
    BY <2>5, <2>6
<1>4. ASSUME NEW x \in D
      PROVE  f[x] = IF nx[x] = x THEN x ELSE f[nx[x]]
  <2> HIDE DEF Orbit
  <2>1. CASE nx[x] = x
    <3>1. x \in Ends(x)
      BY <1>1, <2>1
    <3>2. f[x] \in Ends(x)
      <4> HIDE DEF Ends
      <4> QED
        BY <3>1
    <3> QED
      BY <1>3, <2>1, <3>1, <3>2
  <2>2. CASE nx[x] # x
    <3>1. Ends(x) = Ends(nx[x]) /\ nx[x] \in D
      BY <1>2, <2>2
    <3> HIDE DEF Ends
    <3> QED
      BY <2>2, <3>1
  <2> QED
    BY <2>1, <2>2
<1>5. f = [x \in D |-> IF nx[x] = x THEN x ELSE f[nx[x]]]
  <2>1. f = [x \in D |-> f[x]]
    OBVIOUS
  <2> HIDE DEF f
  <2> QED
    BY <1>4, <2>1
<1> QED
  BY <1>5

(* What a set grows to when step is added until nothing changes.           *)
Grows(grow, S, step) ==
  grow = [Y \in SUBSET S |-> IF Y \cup step[Y] = Y THEN Y ELSE grow[Y \cup step[Y]]]

IsClosure(R, S, X, step) ==
  /\ R \in SUBSET S /\ X \subseteq R /\ step[R] \subseteq R
  /\ \A C \in SUBSET S : X \subseteq C /\ (\A Y \in SUBSET C : step[Y] \subseteq C) => R \subseteq C

(* Growing by steps is defined for every set of states.                    *)
LEMMA GrowthExists ==
  ASSUME NEW S, NEW step \in [SUBSET S -> SUBSET S]
  PROVE  \E grow : Grows(grow, S, step)
<1> DEFINE nx == [Y \in SUBSET S |-> Y \cup step[Y]]
<1>1. nx \in [SUBSET S -> SUBSET S]
  OBVIOUS
<1>2. PICK f : f = [Y \in SUBSET S |-> IF nx[Y] = Y THEN Y ELSE f[nx[Y]]]
  <2> HIDE DEF nx
  <2> QED
    BY <1>1, IterationExists
<1>3. Grows(f, S, step)
  BY <1>2 DEF Grows
<1> QED
  BY <1>3

(* Over finitely many states growing ends, in the least set that is        *)
(* closed under the step.                                                  *)
LEMMA GrowthCloses ==
  ASSUME NEW S, IsFiniteSet(S), NEW step \in [SUBSET S -> SUBSET S],
         NEW grow, Grows(grow, S, step), NEW X \in SUBSET S
  PROVE  IsClosure(grow[X], S, X, step)
<1> DEFINE Rest(Y) == Cardinality(S \ Y)
           B == {Y \in SUBSET S : ~ IsClosure(grow[Y], S, Y, step)}
           C == {Rest(Y) : Y \in B}
<1>1. SUFFICES ASSUME B # {}
               PROVE  FALSE
  OBVIOUS
<1>2. \A Y \in SUBSET S : Rest(Y) \in Nat
  BY FS_Difference, FS_CardinalityType
<1>3. PICK Y \in B : \A Z \in B : Rest(Y) <= Rest(Z)
  <2>1. C \in SUBSET Nat /\ C # {}
    <3> HIDE DEF Rest, B
    <3>1. B \subseteq SUBSET S
      BY DEF B
    <3> QED
      BY <1>1, <1>2, <3>1
  <2>2. PICK n \in C : \A k \in C : n <= k
    <3> HIDE DEF C
    <3> QED
      BY <2>1, LeastNatural
  <2>3. PICK Y \in B : n = Rest(Y)
    BY <2>2
  <2>4. \A Z \in B : Rest(Z) \in C
    OBVIOUS
  <2> HIDE DEF Rest, B, C
  <2> QED
    BY <2>2, <2>3, <2>4
<1>4. grow[Y] = IF Y \cup step[Y] = Y THEN Y ELSE grow[Y \cup step[Y]]
  BY DEF Grows
<1>5. CASE Y \cup step[Y] = Y
  BY <1>4, <1>5 DEF IsClosure
<1>6. CASE Y \cup step[Y] # Y
  <2> DEFINE Z == Y \cup step[Y]
  <2>1. Z \in SUBSET S /\ grow[Y] = grow[Z]
    BY <1>4, <1>6
  <2>2. Rest(Z) < Rest(Y)
    <3>1. PICK s \in step[Y] : s \notin Y
      BY <1>6
    <3>2. s \in S \ Y /\ S \ Z \subseteq (S \ Y) \ {s}
      BY <3>1
    <3>3. IsFiniteSet(S \ Y) /\ IsFiniteSet((S \ Y) \ {s})
      BY FS_Difference, FS_Subset
    <3>4. Cardinality((S \ Y) \ {s}) = Cardinality(S \ Y) - 1
      BY <3>2, <3>3, FS_RemoveElement
    <3>5. Cardinality(S \ Z) <= Cardinality((S \ Y) \ {s})
      BY <3>2, <3>3, FS_Subset
    <3>6. Rest(Y) \in Nat /\ Rest(Z) \in Nat
      BY <1>2, <2>1
    <3>7. Rest(Z) <= Cardinality((S \ Y) \ {s}) /\ Cardinality((S \ Y) \ {s}) = Rest(Y) - 1
      BY <3>4, <3>5
    <3> HIDE DEF Z, Rest
    <3> QED
      BY <3>6, <3>7
  <2>3. Z \notin B
    <3> HIDE DEF Z
    <3>1. Rest(Z) \in Nat /\ Rest(Y) \in Nat
      BY <1>2, <2>1
    <3> HIDE DEF Rest, B
    <3> QED
      BY <1>3, <2>2, <3>1
  <2>4. IsClosure(grow[Z], S, Z, step)
    BY <2>1, <2>3
  <2>5. IsClosure(grow[Y], S, Y, step)
    BY <2>1, <2>4 DEF IsClosure
  <2> QED
    BY <2>5
<1> QED
  BY <1>5, <1>6

-----------------------------------------------------------------------------
(***************************************************************************)
(* What the searches of a graph find, as least sets.                       *)
(***************************************************************************)
(* Every row leads to states of the model.                                 *)
GraphOK(M) ==
  /\ IsFiniteSet(StatesOf(M))
  /\ \A s \in StatesOf(M) : \A r \in Rows(M, s) : M.rows[s][r] \subseteq StatesOf(M)

IsReached(R, M, initial, selected) ==
  /\ R \in SUBSET StatesOf(M) /\ initial \subseteq R
  /\ \A s \in R : \A r \in selected[s] : M.rows[s][r] \subseteq R
  /\ \A C \in SUBSET StatesOf(M) :
       initial \subseteq C /\ (\A s \in C : \A r \in selected[s] : M.rows[s][r] \subseteq C)
         => R \subseteq C

(* getReachableStates finds the least set closed under the selected rows.  *)
LEMMA ReachedStates ==
  ASSUME NEW M, GraphOK(M), NEW initial \in SUBSET StatesOf(M), NEW selected,
         \A s \in StatesOf(M) : selected[s] \subseteq Rows(M, s)
  PROVE  IsReached(getReachableStates(M, initial, selected), M, initial, selected)
<1> DEFINE S == StatesOf(M)
           Step(X) == UNION {UNION {M.rows[s][r] : r \in selected[s]} : s \in X}
           step == [X \in SUBSET S |-> Step(X)]
           Eq(f) == f = [Y \in SUBSET S |-> LET Z == Y \cup Step(Y) IN IF Z = Y THEN Y ELSE f[Z]]
           grow == CHOOSE f : Eq(f)
<1>1. step \in [SUBSET S -> SUBSET S]
  BY DEF GraphOK
<1>2. \A f : Grows(f, S, step) <=> Eq(f)
  <2> HIDE DEF Step
  <2> QED
    BY DEF Grows
<1>3. Grows(grow, S, step)
  <2>1. \E f : Grows(f, S, step)
    <3> HIDE DEF step
    <3> QED
      BY <1>1, GrowthExists
  <2>2. Eq(grow)
    <3> HIDE DEF Eq
    <3> QED
      BY <1>2, <2>1
  <2> HIDE DEF Eq, grow
  <2> QED
    BY <1>2, <2>2
<1>4. IsClosure(grow[initial], S, initial, step)
  <2> HIDE DEF step, grow
  <2> QED
    BY <1>1, <1>3, GrowthCloses DEF GraphOK
<1>5. getReachableStates(M, initial, selected) = grow[initial]
  BY DEF getReachableStates, Saturate
<1> DEFINE R == getReachableStates(M, initial, selected)
<1>6. IsClosure(R, S, initial, step)
  <2> HIDE DEF grow, step
  <2> QED
    BY <1>4, <1>5
<1> HIDE DEF grow, R
<1>7. R \in SUBSET S /\ initial \subseteq R /\ step[R] \subseteq R
  BY <1>6 DEF IsClosure
<1>8. \A s \in R : \A r \in selected[s] : M.rows[s][r] \subseteq R
  BY <1>7
<1>9. ASSUME NEW C \in SUBSET S, initial \subseteq C,
             \A s \in C : \A r \in selected[s] : M.rows[s][r] \subseteq C
      PROVE  R \subseteq C
  <2>1. ASSUME NEW Y \in SUBSET C
        PROVE  step[Y] \subseteq C
    BY <1>9
  <2> HIDE DEF step
  <2> QED
    BY <1>6, <1>9, <2>1 DEF IsClosure
<1>10. IsReached(R, M, initial, selected)
  BY <1>7, <1>8, <1>9 DEF IsReached
<1> QED
  BY <1>10 DEF R

-----------------------------------------------------------------------------
(* The states of phi from which some row may lead to psi, and so on.       *)
IsGreater0E(R, M, phi, psi) ==
  /\ R \in SUBSET StatesOf(M) /\ psi \subseteq R
  /\ \A s \in phi : (\E r \in Rows(M, s) : Meets(M.rows[s][r], R)) => s \in R
  /\ \A C \in SUBSET StatesOf(M) :
       psi \subseteq C /\ (\A s \in phi : (\E r \in Rows(M, s) : Meets(M.rows[s][r], C)) => s \in C)
         => R \subseteq C

(* performProbGreater0E: the least set from which some row leads on.       *)
LEMMA Greater0EIsLeast ==
  ASSUME NEW M, GraphOK(M), NEW phi \in SUBSET StatesOf(M), NEW psi \in SUBSET StatesOf(M)
  PROVE  IsGreater0E(performProbGreater0E(M, phi, psi), M, phi, psi)
<1> DEFINE S == StatesOf(M)
           Step(X) == {s \in phi : \E r \in Rows(M, s) : Meets(M.rows[s][r], X)}
           step == [X \in SUBSET S |-> Step(X)]
           Eq(f) == f = [Y \in SUBSET S |-> LET Z == Y \cup Step(Y) IN IF Z = Y THEN Y ELSE f[Z]]
           grow == CHOOSE f : Eq(f)
           R == grow[psi]
<1>1. step \in [SUBSET S -> SUBSET S]
  OBVIOUS
<1>2. \A f : Grows(f, S, step) <=> Eq(f)
  <2> HIDE DEF Step
  <2> QED
    BY DEF Grows
<1>3. Grows(grow, S, step)
  <2>1. \E f : Grows(f, S, step)
    <3> HIDE DEF step
    <3> QED
      BY <1>1, GrowthExists
  <2>2. Eq(grow)
    <3> HIDE DEF Eq
    <3> QED
      BY <1>2, <2>1
  <2> HIDE DEF Eq, grow
  <2> QED
    BY <1>2, <2>2
<1>4. IsClosure(R, S, psi, step)
  <2> HIDE DEF step, grow
  <2> QED
    BY <1>1, <1>3, GrowthCloses DEF GraphOK
<1>5. performProbGreater0E(M, phi, psi) = R
  BY DEF performProbGreater0E, Saturate
<1> HIDE DEF grow, R
<1>6. R \in SUBSET S /\ psi \subseteq R /\ step[R] \subseteq R
  BY <1>4 DEF IsClosure
<1>7. \A s \in phi : (\E r \in Rows(M, s) : Meets(M.rows[s][r], R)) => s \in R
  BY <1>6
<1>8. ASSUME NEW C \in SUBSET S, psi \subseteq C,
             \A s \in phi : (\E r \in Rows(M, s) : Meets(M.rows[s][r], C)) => s \in C
      PROVE  R \subseteq C
  <2>1. ASSUME NEW Y \in SUBSET C
        PROVE  step[Y] \subseteq C
    BY <1>8 DEF Meets
  <2> HIDE DEF step
  <2> QED
    BY <1>4, <1>8, <2>1 DEF IsClosure
<1>9. IsGreater0E(R, M, phi, psi)
  BY <1>6, <1>7, <1>8 DEF IsGreater0E
<1> QED
  BY <1>5, <1>9

(* The states of phi where every row may lead to psi, and so on.           *)
IsGreater0A(R, M, phi, psi) ==
  /\ R \in SUBSET StatesOf(M) /\ psi \subseteq R
  /\ \A s \in phi : (\A r \in Rows(M, s) : Meets(M.rows[s][r], R)) => s \in R
  /\ \A C \in SUBSET StatesOf(M) :
       psi \subseteq C /\ (\A s \in phi : (\A r \in Rows(M, s) : Meets(M.rows[s][r], C)) => s \in C)
         => R \subseteq C

(* performProbGreater0A: the least set from which every row leads on.      *)
LEMMA Greater0AIsLeast ==
  ASSUME NEW M, GraphOK(M), NEW phi \in SUBSET StatesOf(M), NEW psi \in SUBSET StatesOf(M)
  PROVE  IsGreater0A(performProbGreater0A(M, phi, psi), M, phi, psi)
<1> DEFINE S == StatesOf(M)
           Step(X) == {s \in phi : \A r \in Rows(M, s) : Meets(M.rows[s][r], X)}
           step == [X \in SUBSET S |-> Step(X)]
           Eq(f) == f = [Y \in SUBSET S |-> LET Z == Y \cup Step(Y) IN IF Z = Y THEN Y ELSE f[Z]]
           grow == CHOOSE f : Eq(f)
           R == grow[psi]
<1>1. step \in [SUBSET S -> SUBSET S]
  OBVIOUS
<1>2. \A f : Grows(f, S, step) <=> Eq(f)
  <2> HIDE DEF Step
  <2> QED
    BY DEF Grows
<1>3. Grows(grow, S, step)
  <2>1. \E f : Grows(f, S, step)
    <3> HIDE DEF step
    <3> QED
      BY <1>1, GrowthExists
  <2>2. Eq(grow)
    <3> HIDE DEF Eq
    <3> QED
      BY <1>2, <2>1
  <2> HIDE DEF Eq, grow
  <2> QED
    BY <1>2, <2>2
<1>4. IsClosure(R, S, psi, step)
  <2> HIDE DEF step, grow
  <2> QED
    BY <1>1, <1>3, GrowthCloses DEF GraphOK
<1>5. performProbGreater0A(M, phi, psi) = R
  BY DEF performProbGreater0A, Saturate
<1> HIDE DEF grow, R
<1>6. R \in SUBSET S /\ psi \subseteq R /\ step[R] \subseteq R
  BY <1>4 DEF IsClosure
<1>7. \A s \in phi : (\A r \in Rows(M, s) : Meets(M.rows[s][r], R)) => s \in R
  BY <1>6
<1>8. ASSUME NEW C \in SUBSET S, psi \subseteq C,
             \A s \in phi : (\A r \in Rows(M, s) : Meets(M.rows[s][r], C)) => s \in C
      PROVE  R \subseteq C
  <2>1. ASSUME NEW Y \in SUBSET C
        PROVE  step[Y] \subseteq C
    BY <1>8 DEF Meets
  <2> HIDE DEF step
  <2> QED
    BY <1>4, <1>8, <2>1 DEF IsClosure
<1>9. IsGreater0A(R, M, phi, psi)
  BY <1>6, <1>7, <1>8 DEF IsGreater0A
<1> QED
  BY <1>5, <1>9

(* One round of performProb1E.                                             *)
Next1E(M, phi, psi, current) ==
  Saturate(StatesOf(M), psi,
           LAMBDA X : {s \in phi : \E r \in Rows(M, s) : Progresses(M.rows[s][r], current, X)})

(* The states of phi where some row stays in current and may lead to psi.  *)
IsNext1E(R, M, current, phi, psi) ==
  /\ R \in SUBSET StatesOf(M) /\ psi \subseteq R
  /\ \A s \in phi : (\E r \in Rows(M, s) : Progresses(M.rows[s][r], current, R)) => s \in R
  /\ \A C \in SUBSET StatesOf(M) :
       psi \subseteq C /\ (\A s \in phi : (\E r \in Rows(M, s) : Progresses(M.rows[s][r], current, C)) => s \in C)
         => R \subseteq C

(* One round of performProb1E, which may only use rows within current.     *)
LEMMA Next1EIsLeast ==
  ASSUME NEW M, GraphOK(M), NEW phi \in SUBSET StatesOf(M), NEW psi \in SUBSET StatesOf(M), NEW current
  PROVE  IsNext1E(Next1E(M, phi, psi, current), M, current, phi, psi)
<1> DEFINE S == StatesOf(M)
           Step(X) == {s \in phi : \E r \in Rows(M, s) : Progresses(M.rows[s][r], current, X)}
           step == [X \in SUBSET S |-> Step(X)]
           Eq(f) == f = [Y \in SUBSET S |-> LET Z == Y \cup Step(Y) IN IF Z = Y THEN Y ELSE f[Z]]
           grow == CHOOSE f : Eq(f)
           R == grow[psi]
<1>1. step \in [SUBSET S -> SUBSET S]
  OBVIOUS
<1>2. \A f : Grows(f, S, step) <=> Eq(f)
  <2> HIDE DEF Step
  <2> QED
    BY DEF Grows
<1>3. Grows(grow, S, step)
  <2>1. \E f : Grows(f, S, step)
    <3> HIDE DEF step
    <3> QED
      BY <1>1, GrowthExists
  <2>2. Eq(grow)
    <3> HIDE DEF Eq
    <3> QED
      BY <1>2, <2>1
  <2> HIDE DEF Eq, grow
  <2> QED
    BY <1>2, <2>2
<1>4. IsClosure(R, S, psi, step)
  <2> HIDE DEF step, grow
  <2> QED
    BY <1>1, <1>3, GrowthCloses DEF GraphOK
<1>5. Next1E(M, phi, psi, current) = R
  BY DEF Next1E, Saturate
<1> HIDE DEF grow, R
<1>6. R \in SUBSET S /\ psi \subseteq R /\ step[R] \subseteq R
  BY <1>4 DEF IsClosure
<1>7. \A s \in phi : (\E r \in Rows(M, s) : Progresses(M.rows[s][r], current, R)) => s \in R
  BY <1>6
<1>8. ASSUME NEW C \in SUBSET S, psi \subseteq C,
             \A s \in phi : (\E r \in Rows(M, s) : Progresses(M.rows[s][r], current, C)) => s \in C
      PROVE  R \subseteq C
  <2>1. ASSUME NEW Y \in SUBSET C
        PROVE  step[Y] \subseteq C
    BY <1>8 DEF Progresses, Meets
  <2> HIDE DEF step
  <2> QED
    BY <1>4, <1>8, <2>1 DEF IsClosure
<1>9. IsNext1E(R, M, current, phi, psi)
  BY <1>6, <1>7, <1>8 DEF IsNext1E
<1> QED
  BY <1>5, <1>9

(* A round from fewer states finds fewer.                                  *)
LEMMA Next1EMonotone ==
  ASSUME NEW M, GraphOK(M), NEW phi \in SUBSET StatesOf(M), NEW psi \in SUBSET StatesOf(M),
         NEW larger, NEW smaller \in SUBSET larger
  PROVE  Next1E(M, phi, psi, smaller) \subseteq Next1E(M, phi, psi, larger)
<1> DEFINE C == Next1E(M, phi, psi, larger)
<1>1. IsNext1E(C, M, larger, phi, psi)
  BY Next1EIsLeast
<1>2. \A s \in phi : (\E r \in Rows(M, s) : Progresses(M.rows[s][r], smaller, C)) => s \in C
  <2> HIDE DEF C
  <2> QED
    BY <1>1 DEF IsNext1E, Progresses
<1>3. C \in SUBSET StatesOf(M) /\ psi \subseteq C
  BY <1>1 DEF IsNext1E
<1>4. IsNext1E(Next1E(M, phi, psi, smaller), M, smaller, phi, psi)
  BY Next1EIsLeast
<1> HIDE DEF C
<1>5. Next1E(M, phi, psi, smaller) \subseteq C
  BY <1>2, <1>3, <1>4 DEF IsNext1E
<1> QED
  BY <1>5 DEF C

(* performProb1E is the greatest set that a round leaves as it is.         *)
IsProb1E(U, M, phi, psi) ==
  /\ U \in SUBSET StatesOf(M) /\ Next1E(M, phi, psi, U) = U
  /\ \A D \in SUBSET StatesOf(M) : D \subseteq Next1E(M, phi, psi, D) => D \subseteq U

Shrinks(shrink, S, nx) ==
  shrink = [X \in SUBSET S |-> IF nx[X] = X THEN X ELSE shrink[nx[X]]]

(* Repeating a monotone round from all states ends in its greatest fixed   *)
(* point.                                                                  *)
LEMMA ShrinkingEnds ==
  ASSUME NEW S, IsFiniteSet(S), NEW nx \in [SUBSET S -> SUBSET S],
         \A X, Y \in SUBSET S : X \subseteq Y => nx[X] \subseteq nx[Y],
         NEW shrink, Shrinks(shrink, S, nx)
  PROVE  /\ shrink[S] \in SUBSET S /\ nx[shrink[S]] = shrink[S]
         /\ \A D \in SUBSET S : D \subseteq nx[D] => D \subseteq shrink[S]
<1> DEFINE Good(X) == /\ shrink[X] \in SUBSET S /\ nx[shrink[X]] = shrink[X]
                      /\ \A D \in SUBSET X : D \subseteq nx[D] => D \subseteq shrink[X]
           B == {X \in SUBSET S : nx[X] \subseteq X /\ ~ Good(X)}
           C == {Cardinality(X) : X \in B}
<1>1. B = {}
  <2>1. SUFFICES ASSUME B # {}
                 PROVE  FALSE
    OBVIOUS
  <2>2. \A X \in SUBSET S : Cardinality(X) \in Nat /\ IsFiniteSet(X)
    BY FS_Subset, FS_CardinalityType
  <2>3. PICK X \in B : \A Y \in B : Cardinality(X) <= Cardinality(Y)
    <3>1. B \subseteq SUBSET S
      OBVIOUS
    <3> HIDE DEF B
    <3>2. C \in SUBSET Nat /\ C # {}
      BY <2>1, <2>2, <3>1
    <3>3. PICK n \in C : \A k \in C : n <= k
      <4> HIDE DEF C
      <4> QED
        BY <3>2, LeastNatural
    <3>4. PICK X \in B : n = Cardinality(X)
      BY <3>3
    <3>5. \A Y \in B : Cardinality(Y) \in C
      OBVIOUS
    <3> HIDE DEF C
    <3> QED
      BY <3>3, <3>4, <3>5
  <2>4. X \in SUBSET S /\ nx[X] \subseteq X /\ ~ Good(X)
    BY DEF B
  <2>5. shrink[X] = IF nx[X] = X THEN X ELSE shrink[nx[X]]
    BY <2>4 DEF Shrinks
  <2>6. CASE nx[X] = X
    <3>1. \A D \in SUBSET X : D \subseteq nx[D] => D \subseteq X
      OBVIOUS
    <3> QED
      BY <2>4, <2>5, <2>6, <3>1
  <2>7. CASE nx[X] # X
    <3> DEFINE Y == nx[X]
    <3>1. Y \in SUBSET S /\ nx[Y] \subseteq Y /\ shrink[X] = shrink[Y]
      BY <2>4, <2>5, <2>7
    <3>2. Cardinality(Y) < Cardinality(X)
      <4>1. PICK s \in X : s \notin Y
        BY <2>4, <2>7
      <4>2. Y \subseteq X \ {s}
        BY <2>4, <4>1
      <4>3. IsFiniteSet(X) /\ IsFiniteSet(X \ {s})
        BY <2>2, <2>4
      <4>4. Cardinality(X \ {s}) = Cardinality(X) - 1
        BY <4>1, <4>3, FS_RemoveElement
      <4>5. Cardinality(Y) <= Cardinality(X \ {s})
        BY <4>2, <4>3, FS_Subset
      <4>6. Cardinality(Y) \in Nat /\ Cardinality(X) \in Nat
        BY <2>2, <2>4, <3>1
      <4> HIDE DEF Y
      <4> QED
        BY <4>4, <4>5, <4>6
    <3>3. Y \notin B
      <4>1. Cardinality(Y) \in Nat /\ Cardinality(X) \in Nat
        BY <2>2, <2>4, <3>1
      <4> HIDE DEF Y, B
      <4> QED
        BY <2>3, <3>2, <4>1
    <3>4. Good(Y)
      <4> HIDE DEF Y, Good
      <4> QED
        BY <3>1, <3>3 DEF B
    <3>5. \A D \in SUBSET X : D \subseteq nx[D] => D \in SUBSET Y
      BY <2>4
    <3>6. Good(X)
      <4> HIDE DEF Y
      <4> QED
        BY <3>1, <3>4, <3>5
    <3> QED
      BY <2>4, <3>6
  <2> QED
    BY <2>6, <2>7
<1>2. Good(S)
  <2>1. S \in SUBSET S /\ nx[S] \subseteq S
    OBVIOUS
  <2> HIDE DEF Good
  <2> QED
    BY <1>1, <2>1
<1> QED
  BY <1>2

(* performProb1E: the greatest set in which the target is always ahead.    *)
LEMMA Prob1EIsGreatest ==
  ASSUME NEW M, GraphOK(M), NEW phi \in SUBSET StatesOf(M), NEW psi \in SUBSET StatesOf(M)
  PROVE  IsProb1E(performProb1E(M, phi, psi), M, phi, psi)
<1> DEFINE S == StatesOf(M)
           Round(current) == Next1E(M, phi, psi, current)
           nx == [X \in SUBSET S |-> Round(X)]
           Eq(f) == f = [current \in SUBSET S |->
                           LET next == Round(current) IN IF next = current THEN current ELSE f[next]]
           shrink == CHOOSE f : Eq(f)
<1>1. nx \in [SUBSET S -> SUBSET S]
  BY Next1EIsLeast DEF IsNext1E
<1>2. \A f : Shrinks(f, S, nx) <=> Eq(f)
  <2> HIDE DEF Round
  <2> QED
    BY DEF Shrinks
<1>3. Shrinks(shrink, S, nx)
  <2>1. \E f : Shrinks(f, S, nx)
    <3> HIDE DEF nx
    <3> QED
      BY <1>1, IterationExists DEF Shrinks
  <2>2. Eq(shrink)
    <3> HIDE DEF Eq
    <3> QED
      BY <1>2, <2>1
  <2> HIDE DEF Eq, shrink
  <2> QED
    BY <1>2, <2>2
<1>4. performProb1E(M, phi, psi) = shrink[S]
  BY DEF performProb1E, Next1E, Saturate
<1>5. \A X, Y \in SUBSET S : X \subseteq Y => nx[X] \subseteq nx[Y]
  BY Next1EMonotone
<1>6. /\ shrink[S] \in SUBSET S /\ nx[shrink[S]] = shrink[S]
      /\ \A D \in SUBSET S : D \subseteq nx[D] => D \subseteq shrink[S]
  <2> HIDE DEF nx, shrink
  <2> QED
    BY <1>1, <1>3, <1>5, ShrinkingEnds DEF GraphOK
<1>7. /\ shrink[S] \in SUBSET S /\ Round(shrink[S]) = shrink[S]
      /\ \A D \in SUBSET S : D \subseteq Round(D) => D \subseteq shrink[S]
  <2> HIDE DEF shrink, Round
  <2> QED
    BY <1>6
<1> HIDE DEF shrink
<1> QED
  BY <1>4, <1>7 DEF IsProb1E

-----------------------------------------------------------------------------
(***************************************************************************)
(* Chains: the states from which the target is reached never, or surely.   *)
(***************************************************************************)
IsChain(C) == GraphOK(C) /\ \A s \in StatesOf(C) : Rows(C, s) = {1}

(* In a chain, the states reached from s: the least closed set with s.     *)
LEMMA ReachableInChain ==
  ASSUME NEW C, IsChain(C), NEW s \in StatesOf(C)
  PROVE  /\ ReachableFrom(C, s) \in SUBSET StatesOf(C) /\ s \in ReachableFrom(C, s)
         /\ \A t \in ReachableFrom(C, s) : C.rows[t][1] \subseteq ReachableFrom(C, s)
         /\ \A D \in SUBSET StatesOf(C) :
              s \in D /\ (\A t \in D : C.rows[t][1] \subseteq D) => ReachableFrom(C, s) \subseteq D
<1>1. IsReached(ReachableFrom(C, s), C, {s}, AllRows(C))
  <2>1. \A t \in StatesOf(C) : AllRows(C)[t] \subseteq Rows(C, t)
    BY DEF AllRows
  <2> QED
    BY <2>1, ReachedStates DEF ReachableFrom, IsChain
<1>2. \A t \in StatesOf(C) : AllRows(C)[t] = {1}
  BY DEF AllRows, IsChain
<1> QED
  BY <1>1, <1>2 DEF IsReached

(* The states on the way to the target.                                    *)
Avoiding(C, target, s) ==
  Saturate(StatesOf(C), {s}, LAMBDA X : UNION {C.rows[t][1] : t \in X \ target})

(* In a chain, the states reached before the target is.                    *)
LEMMA AvoidingInChain ==
  ASSUME NEW C, IsChain(C), NEW target, NEW s \in StatesOf(C)
  PROVE  /\ Avoiding(C, target, s) \in SUBSET StatesOf(C) /\ s \in Avoiding(C, target, s)
         /\ \A t \in Avoiding(C, target, s) \ target : C.rows[t][1] \subseteq Avoiding(C, target, s)
         /\ \A D \in SUBSET StatesOf(C) :
              s \in D /\ (\A t \in D \ target : C.rows[t][1] \subseteq D)
                => Avoiding(C, target, s) \subseteq D
<1> DEFINE S == StatesOf(C)
           Step(X) == UNION {C.rows[t][1] : t \in X \ target}
           step == [X \in SUBSET S |-> Step(X)]
           Eq(f) == f = [Y \in SUBSET S |-> LET Z == Y \cup Step(Y) IN IF Z = Y THEN Y ELSE f[Z]]
           grow == CHOOSE f : Eq(f)
           R == grow[{s}]
<1>1. step \in [SUBSET S -> SUBSET S]
  BY DEF IsChain, GraphOK
<1>2. \A f : Grows(f, S, step) <=> Eq(f)
  <2> HIDE DEF Step
  <2> QED
    BY DEF Grows
<1>3. Grows(grow, S, step)
  <2>1. \E f : Grows(f, S, step)
    <3> HIDE DEF step
    <3> QED
      BY <1>1, GrowthExists
  <2>2. Eq(grow)
    <3> HIDE DEF Eq
    <3> QED
      BY <1>2, <2>1
  <2> HIDE DEF Eq, grow
  <2> QED
    BY <1>2, <2>2
<1>4. IsClosure(R, S, {s}, step)
  <2> HIDE DEF step, grow
  <2> QED
    BY <1>1, <1>3, GrowthCloses DEF GraphOK, IsChain
<1>5. Avoiding(C, target, s) = R
  BY DEF Avoiding, Saturate
<1> HIDE DEF grow, R
<1>6. R \in SUBSET S /\ s \in R /\ step[R] \subseteq R
  BY <1>4 DEF IsClosure
<1>7. \A t \in R \ target : C.rows[t][1] \subseteq R
  BY <1>6
<1>8. ASSUME NEW D \in SUBSET S, s \in D, \A t \in D \ target : C.rows[t][1] \subseteq D
      PROVE  R \subseteq D
  <2>1. ASSUME NEW Y \in SUBSET D
        PROVE  step[Y] \subseteq D
    BY <1>8
  <2> HIDE DEF step
  <2> QED
    BY <1>4, <1>8, <2>1 DEF IsClosure
<1> QED
  BY <1>5, <1>6, <1>7, <1>8

(* What never says of one state.                                           *)
LEMMA NeverInChain ==
  ASSUME NEW C, IsChain(C), NEW target, NEW s \in StatesOf(C)
  PROVE  s \in Never(C, target) <=> ReachableFrom(C, s) \cap target = {}
BY DEF Never

(* What surely says of one state.                                          *)
LEMMA SurelyInChain ==
  ASSUME NEW C, IsChain(C), NEW target, NEW s \in StatesOf(C)
  PROVE  s \in Surely(C, target) <=> Avoiding(C, target, s) \cap Never(C, target) = {}
BY DEF Surely, Avoiding, Saturate

(* What a state on the way to the target reaches, the state reaches.       *)
LEMMA NextOfSurely ==
  ASSUME NEW C, IsChain(C), NEW target, NEW s \in StatesOf(C), s \notin target,
         NEW t \in C.rows[s][1]
  PROVE  /\ t \in StatesOf(C)
         /\ s \in Surely(C, target) => t \in Surely(C, target)
         /\ s \in Never(C, target) => t \in Never(C, target)
<1>1. t \in StatesOf(C) /\ C.rows[s][1] \subseteq StatesOf(C)
  BY DEF IsChain, GraphOK
<1>2. Avoiding(C, target, t) \subseteq Avoiding(C, target, s)
  <2>1. t \in Avoiding(C, target, s)
    BY AvoidingInChain
  <2> QED
    BY <1>1, <2>1, AvoidingInChain
<1>3. ReachableFrom(C, t) \subseteq ReachableFrom(C, s)
  <2>1. t \in ReachableFrom(C, s)
    BY ReachableInChain
  <2> QED
    BY <1>1, <2>1, ReachableInChain
<1> QED
  BY <1>1, <1>2, <1>3, NeverInChain, SurelyInChain

(* The target is not reached both surely and never.                        *)
LEMMA SurelyNotNever ==
  ASSUME NEW C, IsChain(C), NEW target, NEW s \in Surely(C, target)
  PROVE  s \in StatesOf(C) /\ s \notin Never(C, target)
<1>1. s \in StatesOf(C)
  BY DEF Surely, Saturate
<1> QED
  BY <1>1, SurelyInChain, AvoidingInChain

-----------------------------------------------------------------------------
(***************************************************************************)
(* A chain that takes one row of an MDP in each of its states; it may have *)
(* more states than the MDP.                                               *)
(***************************************************************************)
ChainIn(C, M) ==
  /\ IsChain(C) /\ StatesOf(M) \subseteq StatesOf(C)
  /\ \A s \in StatesOf(M) : \E r \in Rows(M, s) : C.rows[s][1] = M.rows[s][r]

(* A state with maximum 0 has value 0 in every chain.                      *)
LEMMA Prob0AIsNever ==
  ASSUME NEW M, GraphOK(M), NEW C, ChainIn(C, M), NEW target, NEW psi,
         psi = target \cap StatesOf(M),
         NEW s \in performProb0A(M, StatesOf(M), psi)
  PROVE  s \in Never(C, target)
<1> DEFINE S == StatesOf(M)
           R == performProbGreater0E(M, S, psi)
           Z == S \ R
<1>1. IsGreater0E(R, M, S, psi)
  BY Greater0EIsLeast
<1> HIDE DEF R
<1>2. s \in Z /\ Z \in SUBSET StatesOf(C)
  BY DEF performProb0A, R, ChainIn
<1>3. ASSUME NEW t \in Z
      PROVE  C.rows[t][1] \subseteq Z
  <2>1. PICK r \in Rows(M, t) : C.rows[t][1] = M.rows[t][r]
    BY DEF ChainIn
  <2>2. ~ Meets(M.rows[t][r], R) /\ M.rows[t][r] \subseteq S
    BY <1>1 DEF IsGreater0E, GraphOK
  <2> QED
    BY <2>1, <2>2 DEF Meets
<1>4. Z \cap target = {}
  BY <1>1 DEF IsGreater0E
<1>5. ReachableFrom(C, s) \subseteq Z
  <2> HIDE DEF Z
  <2> QED
    BY <1>2, <1>3, ReachableInChain DEF ChainIn
<1> QED
  BY <1>2, <1>4, <1>5, NeverInChain DEF ChainIn

(* A state with value 0 in some chain has minimum 0.                       *)
LEMMA NeverIsProb0E ==
  ASSUME NEW M, GraphOK(M), NEW C, ChainIn(C, M), NEW target, NEW psi,
         psi = target \cap StatesOf(M),
         NEW s \in StatesOf(M), s \in Never(C, target)
  PROVE  s \in performProb0E(M, StatesOf(M), psi)
<1> DEFINE S == StatesOf(M)
           R == performProbGreater0A(M, S, psi)
           N == ReachableFrom(C, s)
           D == S \ N
<1>1. IsGreater0A(R, M, S, psi)
  BY Greater0AIsLeast
<1>2. /\ N \in SUBSET StatesOf(C) /\ s \in N
      /\ \A t \in N : C.rows[t][1] \subseteq N
      /\ N \cap target = {}
  BY ReachableInChain, NeverInChain DEF ChainIn
<1> HIDE DEF R, N
<1>3. ASSUME NEW t \in S, \A r \in Rows(M, t) : Meets(M.rows[t][r], D)
      PROVE  t \in D
  <2>1. PICK r \in Rows(M, t) : C.rows[t][1] = M.rows[t][r]
    BY DEF ChainIn
  <2> QED
    BY <1>2, <1>3, <2>1 DEF Meets
<1>4. D \in SUBSET S /\ psi \subseteq D
  BY <1>2
<1>5. R \subseteq D
  <2> HIDE DEF D
  <2> QED
    BY <1>1, <1>3, <1>4 DEF IsGreater0A
<1>6. s \in S \ R
  BY <1>2, <1>5
<1> QED
  BY <1>6 DEF R, performProb0E

(* A state with value 1 in some chain has maximum 1.                       *)
LEMMA SurelyIsProb1E ==
  ASSUME NEW M, GraphOK(M), NEW C, ChainIn(C, M), NEW target, NEW psi,
         psi = target \cap StatesOf(M),
         NEW s \in StatesOf(M), s \in Surely(C, target)
  PROVE  s \in performProb1E(M, StatesOf(M), psi)
<1> DEFINE S == StatesOf(M)
           U == S \cap Surely(C, target)
           X == Next1E(M, S, psi, U)
<1>1. IsNext1E(X, M, U, S, psi)
  BY Next1EIsLeast
<1>2. IsChain(C) /\ S \subseteq StatesOf(C)
  BY DEF ChainIn
<1> HIDE DEF X
<1>3. U \subseteq X
  <2> SUFFICES ASSUME NEW u \in U \ X
               PROVE  FALSE
    OBVIOUS
  <2>1. ASSUME NEW t \in U \ X
        PROVE  t \notin target /\ C.rows[t][1] \subseteq U \ X
    <3>1. t \notin target
      BY <1>1 DEF IsNext1E
    <3>2. PICK r \in Rows(M, t) : C.rows[t][1] = M.rows[t][r]
      BY DEF ChainIn
    <3>3. M.rows[t][r] \subseteq S
      BY <3>2 DEF GraphOK
    <3>4. C.rows[t][1] \subseteq U
      BY <1>2, <3>1, <3>2, <3>3, NextOfSurely
    <3>5. ~ Progresses(M.rows[t][r], U, X)
      BY <1>1, <3>2 DEF IsNext1E
    <3>6. ~ Meets(M.rows[t][r], X)
      BY <3>2, <3>4, <3>5 DEF Progresses
    <3> QED
      BY <3>1, <3>2, <3>4, <3>6 DEF Meets
  <2> HIDE DEF U
  <2>2. U \ X \in SUBSET StatesOf(C)
    BY <1>2 DEF U
  <2>3. ReachableFrom(C, u) \subseteq U \ X
    BY <1>2, <2>1, <2>2, ReachableInChain
  <2>4. u \in Never(C, target)
    BY <1>2, <2>1, <2>2, <2>3, NeverInChain
  <2>5. u \in Surely(C, target)
    BY DEF U
  <2> QED
    BY <1>2, <2>4, <2>5, SurelyNotNever
<1>4. IsProb1E(performProb1E(M, S, psi), M, S, psi)
  BY Prob1EIsGreatest
<1>5. U \subseteq performProb1E(M, S, psi)
  <2> HIDE DEF U
  <2>1. U \in SUBSET S
    BY DEF U
  <2> QED
    BY <1>3, <1>4, <2>1 DEF IsProb1E, X
<1> QED
  BY <1>5

(* A state with minimum 1 has value 1 in every chain.                      *)
LEMMA Prob1AIsSurely ==
  ASSUME NEW M, GraphOK(M), NEW C, ChainIn(C, M), NEW target, NEW psi,
         psi = target \cap StatesOf(M), NEW zero,
         zero = performProb0E(M, StatesOf(M), psi),
         NEW s \in performProb0A(M, StatesOf(M) \ psi, zero)
  PROVE  s \in Surely(C, target)
<1> DEFINE S == StatesOf(M)
           R == performProbGreater0E(M, S \ psi, zero)
           W == S \ R
<1>1. IsGreater0E(R, M, S \ psi, zero) /\ zero \in SUBSET S
  BY Greater0EIsLeast DEF performProb0E
<1>2. s \in W /\ W \in SUBSET StatesOf(C) /\ IsChain(C)
  BY DEF performProb0A, ChainIn
<1> HIDE DEF R
<1>3. ASSUME NEW t \in W \ target
      PROVE  C.rows[t][1] \subseteq W
  <2>1. PICK r \in Rows(M, t) : C.rows[t][1] = M.rows[t][r]
    BY DEF ChainIn
  <2>2. t \in S \ psi /\ ~ Meets(M.rows[t][r], R) /\ M.rows[t][r] \subseteq S
    BY <1>1 DEF IsGreater0E, GraphOK
  <2> QED
    BY <2>1, <2>2 DEF Meets
<1>4. Avoiding(C, target, s) \subseteq W
  <2> HIDE DEF W
  <2> QED
    BY <1>2, <1>3, AvoidingInChain
<1>5. ASSUME NEW t \in W
      PROVE  t \notin Never(C, target)
  <2>1. t \in S /\ t \notin zero
    BY <1>1 DEF IsGreater0E
  <2> QED
    BY <2>1, NeverIsProb0E
<1> QED
  BY <1>2, <1>4, <1>5, SurelyInChain

-----------------------------------------------------------------------------
(***************************************************************************)
(* The MDP of a family.                                                    *)
(***************************************************************************)
LEMMA AscendingSet ==
  ASSUME NEW S \in SUBSET Nat, IsFiniteSet(S)
  PROVE  /\ Ascending(S) \in [1..Cardinality(S) -> S] /\ Ascending(S) \in Seq(S)
         /\ \A x \in S : \E i \in 1..Cardinality(S) : Ascending(S)[i] = x
<1> DEFINE n == Cardinality(S)
           Below(x) == {y \in S : y < x}
           place == [x \in S |-> Cardinality(Below(x)) + 1]
<1>1. n \in Nat /\ \A T \in SUBSET S : IsFiniteSet(T) /\ Cardinality(T) \in Nat
  BY FS_Subset, FS_CardinalityType
<1>2. ASSUME NEW x \in S, NEW T \in SUBSET (S \ {x})
      PROVE  Cardinality(T) < Cardinality(T \cup {x})
  BY <1>1, <1>2, FS_AddElement
<1>3. place \in [S -> 1..n]
  <2>1. ASSUME NEW x \in S
        PROVE  Cardinality(Below(x)) + 1 \in 1..n
    <3>1. Below(x) \cup {x} \in SUBSET S /\ Below(x) \in SUBSET (S \ {x})
      OBVIOUS
    <3>2. Cardinality(Below(x) \cup {x}) <= n
      BY <3>1, FS_Subset
    <3>3. Cardinality(Below(x)) < Cardinality(Below(x) \cup {x})
      BY <1>2, <3>1
    <3>4. Cardinality(Below(x)) \in Nat /\ Cardinality(Below(x) \cup {x}) \in Nat
      BY <1>1, <3>1
    <3> HIDE DEF Below, n
    <3> QED
      BY <1>1, <3>2, <3>3, <3>4
  <2> HIDE DEF Below, n
  <2> QED
    BY <2>1
<1>4. ASSUME NEW x \in S, NEW y \in S, x < y
      PROVE  place[x] < place[y]
  <2>0. x \in Int /\ y \in Int /\ \A z \in S : z \in Int
    OBVIOUS
  <2>1. Below(x) \cup {x} \subseteq Below(y) /\ Below(x) \in SUBSET (S \ {x})
    <3>1. \A z \in Below(x) : z \in S /\ z < y
      BY <1>4, <2>0
    <3>2. x \in Below(y) /\ x \notin Below(x)
      BY <1>4, <2>0
    <3> QED
      BY <3>1, <3>2
  <2>2. Cardinality(Below(x) \cup {x}) <= Cardinality(Below(y))
    BY <1>1, <2>1, FS_Subset
  <2>3. Cardinality(Below(x)) < Cardinality(Below(x) \cup {x})
    BY <1>2, <2>1
  <2>4. /\ Cardinality(Below(x)) \in Nat /\ Cardinality(Below(x) \cup {x}) \in Nat
        /\ Cardinality(Below(y)) \in Nat
    BY <1>1
  <2> HIDE DEF Below
  <2> QED
    BY <2>2, <2>3, <2>4
<1>5. \A x, y \in S : place[x] = place[y] => x = y
  <2>1. \A x, y \in S : x < y \/ y < x \/ x = y
    OBVIOUS
  <2>2. \A x \in S : place[x] \in Nat
    BY <1>1, <1>3
  <2> HIDE DEF place
  <2> QED
    BY <1>4, <2>1, <2>2
<1>6. ASSUME NEW i \in 1..n
      PROVE  \E x \in S : place[x] = i
  <2> HIDE DEF place
  <2>1. SUFFICES ASSUME place \in [S -> (1..n) \ {i}]
                 PROVE  FALSE
    BY <1>3
  <2>2. IsFiniteSet((1..n) \ {i}) /\ Cardinality((1..n) \ {i}) = n - 1
    <3>1. IsFiniteSet(1..n) /\ Cardinality(1..n) = n
      BY <1>1, FS_Interval
    <3> DEFINE I == 1..n
    <3>2. i \in I /\ IsFiniteSet(I) /\ Cardinality(I) = n
      BY <3>1
    <3> HIDE DEF I
    <3>3. IsFiniteSet(I \ {i}) /\ Cardinality(I \ {i}) = n - 1
      BY <3>2, FS_RemoveElement
    <3> QED
      BY <3>3 DEF I
  <2>3. \E x, y \in S : x # y /\ place[x] = place[y]
    <3>1. Cardinality((1..n) \ {i}) < Cardinality(S)
      BY <1>1, <2>2
    <3> QED
      BY <2>1, <2>2, <3>1, FS_PigeonHole
  <2> QED
    BY <1>5, <2>3
<1>7. ASSUME NEW i \in 1..n
      PROVE  Ascending(S)[i] \in S /\ place[Ascending(S)[i]] = i
  <2>1. Ascending(S)[i] = CHOOSE x \in S : Cardinality(Below(x)) = i - 1
    BY DEF Ascending
  <2>2. \E x \in S : Cardinality(Below(x)) = i - 1
    <3>1. \A x \in S : Cardinality(Below(x)) \in Nat
      BY <1>1
    <3>2. PICK x \in S : place[x] = i
      BY <1>6
    <3>3. place[x] = Cardinality(Below(x)) + 1
      OBVIOUS
    <3> HIDE DEF Below, n, place
    <3> QED
      BY <1>1, <3>1, <3>2, <3>3
  <2>3. Ascending(S)[i] \in S /\ Cardinality(Below(Ascending(S)[i])) = i - 1
    <3> HIDE DEF Below, n
    <3> QED
      BY <2>1, <2>2
  <2>4. place[Ascending(S)[i]] = Cardinality(Below(Ascending(S)[i])) + 1
    BY <2>3
  <2> HIDE DEF Below, n, place
  <2> QED
    BY <1>1, <2>3, <2>4
<1>8. Ascending(S) \in [1..n -> S]
  <2>1. Ascending(S) = [i \in 1..n |-> CHOOSE x \in S : Cardinality(Below(x)) = i - 1]
    BY DEF Ascending
  <2>2. \A i \in 1..n : Ascending(S)[i] \in S
    BY <1>7
  <2> DEFINE f == [i \in 1..n |-> CHOOSE x \in S : Cardinality(Below(x)) = i - 1]
             Item(i) == CHOOSE x \in S : Cardinality(Below(x)) = i - 1
  <2>3. f = [i \in 1..n |-> Item(i)]
    OBVIOUS
  <2> HIDE DEF n, Item
  <2> QED
    BY <2>1, <2>2, <2>3
<1>9. ASSUME NEW x \in S
      PROVE  \E i \in 1..n : Ascending(S)[i] = x
  <2>1. place[x] \in 1..n
    BY <1>3
  <2> HIDE DEF place
  <2> QED
    BY <1>5, <1>7, <2>1
<1> HIDE DEF n, place
<1>10. Ascending(S) \in Seq(S)
  BY <1>1, <1>8
<1> QED
  BY <1>8, <1>9, <1>10 DEF n

(* A state of the sketch has rows, each with its option.                   *)
LEMMA SketchType ==
  ASSUME sketch \in Sketches
  PROVE  /\ IsFiniteSet(DOMAIN sketch.rows) /\ DOMAIN sketch.rows \subseteq Nat
         /\ GraphOK(Quotient) /\ StatesOf(Quotient) = DOMAIN sketch.rows
         /\ sketch.initial # {} /\ sketch.initial \subseteq DOMAIN sketch.rows
         /\ sketch.target \subseteq DOMAIN sketch.rows
         /\ \A s \in DOMAIN sketch.rows :
              /\ sketch.rows[s] \in Seq(SUBSET (DOMAIN sketch.rows))
              /\ IsFiniteSet(DOMAIN sketch.rows[s]) /\ DOMAIN sketch.rows[s] \subseteq Nat
              /\ \A r \in DOMAIN sketch.rows[s] : sketch.rows[s][r] # {}
              /\ IF sketch.hole[s] = 0 THEN DOMAIN sketch.rows[s] = {1}
                 ELSE /\ sketch.hole[s] \in Hole
                      /\ sketch.options[s] \in [DOMAIN sketch.rows[s] -> Options[sketch.hole[s]]]
<1> DEFINE S == DOMAIN sketch.rows
<1>1. /\ sketch.rows \in Seq(Seq(SUBSET S)) /\ sketch.hole \in [S -> Hole \cup {0}]
      /\ \A s \in S : \A r \in DOMAIN sketch.rows[s] : Cardinality(sketch.rows[s][r]) \in 1..2
      /\ sketch.initial # {} /\ sketch.initial \cup sketch.target \subseteq S
      /\ \A s \in S : IF sketch.hole[s] = 0 THEN Len(sketch.rows[s]) = 1
                      ELSE sketch.options[s] \in [DOMAIN sketch.rows[s] -> Options[sketch.hole[s]]]
  BY SketchesAssumption DEF Injection
<1>2. S = 1..Len(sketch.rows) /\ Len(sketch.rows) \in Nat
  BY <1>1
<1>3. IsFiniteSet(S) /\ S \subseteq Nat
  <2>1. IsFiniteSet(1..Len(sketch.rows))
    BY <1>2, FS_Interval
  <2> QED
    BY <1>2, <2>1
<1>4. ASSUME NEW s \in S
      PROVE  /\ sketch.rows[s] \in Seq(SUBSET S)
             /\ DOMAIN sketch.rows[s] = 1..Len(sketch.rows[s]) /\ Len(sketch.rows[s]) \in Nat
             /\ \A r \in DOMAIN sketch.rows[s] : sketch.rows[s][r] \in SUBSET S
  <2>1. sketch.rows[s] \in Seq(SUBSET S)
    <3> HIDE DEF S
    <3> QED
      BY <1>1, <1>2
  <2> HIDE DEF S
  <2> QED
    BY <2>1
<1>5. ASSUME NEW s \in S
      PROVE  IsFiniteSet(DOMAIN sketch.rows[s]) /\ DOMAIN sketch.rows[s] \subseteq Nat
  <2>1. IsFiniteSet(1..Len(sketch.rows[s]))
    BY <1>4, FS_Interval
  <2> QED
    BY <1>4, <2>1
<1>6. \A s \in S : \A r \in DOMAIN sketch.rows[s] : sketch.rows[s][r] # {}
  <2>1. Cardinality({}) = 0 /\ 0 \notin 1..2
    BY FS_EmptySet
  <2> HIDE DEF S
  <2> QED
    BY <1>1, <2>1
<1>7. GraphOK(Quotient) /\ StatesOf(Quotient) = S
  BY <1>3, <1>4 DEF GraphOK, StatesOf, Rows, Quotient
<1>8. \A s \in S : sketch.hole[s] = 0 => DOMAIN sketch.rows[s] = {1}
  BY <1>1, <1>4
<1>9. \A s \in S : sketch.hole[s] # 0 => sketch.hole[s] \in Hole
  BY <1>1
<1> HIDE DEF S
<1> QED
  BY <1>1, <1>3, <1>4, <1>5, <1>6, <1>7, <1>8, <1>9 DEF S

(* Every state of an MDP has a row.                                        *)
MdpOK(M) ==
  /\ GraphOK(M) /\ StatesOf(M) \subseteq Nat
  /\ \A s \in StatesOf(M) : M.rows[s] \in Seq(SUBSET StatesOf(M)) /\ 1 \in Rows(M, s)

RowIs(M, s, i, r) ==
  /\ M.rows[s][i] = sketch.rows[s][r]
  /\ sketch.hole[s] # 0 => M.options[s][i] = sketch.options[s][r]

(* The rows of a family's MDP are the selected ones of the sketch.         *)
IsModel(M, F) ==
  /\ MdpOK(M) /\ StatesOf(M) \subseteq DOMAIN sketch.rows
  /\ M.initial = sketch.initial /\ sketch.initial \subseteq StatesOf(M)
  /\ \A s \in StatesOf(M) :
       /\ \A i \in Rows(M, s) : \E r \in Selected(F)[s] : RowIs(M, s, i, r)
       /\ \A r \in Selected(F)[s] : \E i \in Rows(M, s) : RowIs(M, s, i, r)

(* build: without a deadlock, the result has the rows of the family's      *)
(* options, and successors in the model.                                   *)
LEMMA FamilyModel ==
  ASSUME sketch \in Sketches, NEW F, ~ HasDeadlock(Quotient, Selected(F))
  PROVE  IsModel(FamilyMDP(F), F)
<1> DEFINE M == FamilyMDP(F)
           S == Subsystem(Quotient, Selected(F))
           kept == new_to_old(Quotient, Selected(F))
           sel == Selected(F)
<1>1. \A s \in DOMAIN sketch.rows : sel[s] \subseteq DOMAIN sketch.rows[s]
  BY DEF Selected
<1>2. IsReached(S, Quotient, sketch.initial, sel)
  <2>1. /\ GraphOK(Quotient) /\ sketch.initial \in SUBSET StatesOf(Quotient)
        /\ \A s \in StatesOf(Quotient) : sel[s] \subseteq Rows(Quotient, s)
    BY <1>1, SketchType DEF Rows, Quotient
  <2>2. S = getReachableStates(Quotient, sketch.initial, sel)
    BY DEF Subsystem, Quotient
  <2> HIDE DEF sel, S
  <2> QED
    BY <2>1, <2>2, ReachedStates
<1> HIDE DEF S, sel
<1>3. /\ S \in SUBSET (DOMAIN sketch.rows) /\ sketch.initial \subseteq S
      /\ \A s \in S : \A r \in sel[s] : sketch.rows[s][r] \subseteq S
  BY <1>2, SketchType DEF IsReached, Quotient
<1>4. \A s \in S : sel[s] # {}
  BY DEF HasDeadlock, S, sel
<1>5. ASSUME NEW s \in S
      PROVE  /\ kept[s] \in Seq(sel[s]) /\ Len(kept[s]) # 0
             /\ \A r \in sel[s] : \E i \in DOMAIN kept[s] : kept[s][i] = r
             /\ \A i \in DOMAIN kept[s] : kept[s][i] \in sel[s]
  <2>1. kept[s] = Ascending(sel[s])
    BY DEF new_to_old, S, sel
  <2>2. sel[s] \in SUBSET Nat /\ IsFiniteSet(sel[s])
    BY <1>1, <1>3, SketchType, FS_Subset
  <2>3. /\ kept[s] \in [1..Cardinality(sel[s]) -> sel[s]] /\ kept[s] \in Seq(sel[s])
        /\ \A x \in sel[s] : \E i \in 1..Cardinality(sel[s]) : kept[s][i] = x
    BY <2>1, <2>2, AscendingSet
  <2>4. sel[s] # {} /\ Cardinality(sel[s]) \in Nat
    BY <1>4, <2>2, FS_CardinalityType
  <2> HIDE DEF kept
  <2>5. DOMAIN kept[s] = 1..Cardinality(sel[s])
    BY <2>3
  <2>6. \E i \in 1..Cardinality(sel[s]) : TRUE
    BY <2>3, <2>4
  <2>7. Len(kept[s]) # 0
    BY <2>3, <2>4, <2>5, <2>6
  <2> QED
    BY <2>3, <2>5, <2>7
<1>6. DOMAIN kept = S
  BY DEF new_to_old, S, sel
<1>7. /\ M.rows = [s \in S |-> [i \in DOMAIN kept[s] |-> sketch.rows[s][kept[s][i]]]]
      /\ M.options = [s \in S |-> IF sketch.hole[s] = 0 THEN << >>
                                  ELSE [i \in DOMAIN kept[s] |-> sketch.options[s][kept[s][i]]]]
  <2>1. M.rows = [s \in DOMAIN kept |-> [i \in DOMAIN kept[s] |-> sketch.rows[s][kept[s][i]]]]
    BY DEF FamilyMDP, buildSubsystem, Quotient
  <2>2. M.options = [s \in DOMAIN kept |-> IF sketch.hole[s] = 0 THEN << >>
                                  ELSE [i \in DOMAIN kept[s] |-> sketch.options[s][kept[s][i]]]]
    BY DEF FamilyMDP
  <2> HIDE DEF M, kept
  <2> QED
    BY <1>6, <2>1, <2>2
<1>0. M.initial = sketch.initial
  BY DEF FamilyMDP, buildSubsystem, Quotient
<1> HIDE DEF M, kept
<1>8. StatesOf(M) = S /\ \A s \in S : Rows(M, s) = DOMAIN kept[s]
  BY <1>7 DEF StatesOf, Rows
<1>9. ASSUME NEW s \in S, NEW i \in DOMAIN kept[s]
      PROVE  RowIs(M, s, i, kept[s][i]) /\ M.rows[s][i] \in SUBSET S
  <2>1. M.rows[s][i] = sketch.rows[s][kept[s][i]]
    BY <1>7
  <2>2. sketch.hole[s] # 0 => M.options[s][i] = sketch.options[s][kept[s][i]]
    BY <1>7
  <2>3. kept[s][i] \in sel[s]
    BY <1>5
  <2> QED
    BY <1>3, <2>1, <2>2, <2>3 DEF RowIs
<1>10. MdpOK(M)
  <2>1. IsFiniteSet(S) /\ S \subseteq Nat
    BY <1>3, SketchType, FS_Subset
  <2>2. ASSUME NEW s \in S
        PROVE  M.rows[s] \in Seq(SUBSET S) /\ 1 \in DOMAIN kept[s]
    <3>1. DOMAIN kept[s] = 1..Len(kept[s]) /\ Len(kept[s]) \in Nat /\ Len(kept[s]) # 0
      BY <1>5
    <3>2. M.rows[s] = [i \in 1..Len(kept[s]) |-> sketch.rows[s][kept[s][i]]]
      BY <1>7, <3>1
    <3>3. \A i \in 1..Len(kept[s]) : sketch.rows[s][kept[s][i]] \in SUBSET S
      BY <1>3, <1>5, <3>1
    <3>4. M.rows[s] \in [1..Len(kept[s]) -> SUBSET S]
      BY <3>2, <3>3
    <3> QED
      BY <3>1, <3>4
  <2>3. GraphOK(M)
    BY <1>8, <1>9, <2>1 DEF GraphOK
  <2> QED
    BY <1>8, <2>1, <2>2, <2>3 DEF MdpOK
<1>11. IsModel(M, F)
  BY <1>0, <1>3, <1>5, <1>8, <1>9, <1>10 DEF IsModel, sel
<1> QED
  BY <1>11 DEF M

-----------------------------------------------------------------------------
(***************************************************************************)
(* Verdicts.                                                               *)
(***************************************************************************)
(* The chain of a member of the family is one of the family's MDP.         *)
LEMMA AssignmentChainIn ==
  ASSUME sketch \in Sketches, Matched(sketch),
         NEW F \in Family, NEW M, IsModel(M, F), NEW a \in Members(F)
  PROVE  /\ ChainIn(AssignmentChain(sketch, a), M)
         /\ StatesOf(AssignmentChain(sketch, a)) = DOMAIN sketch.rows
         /\ \A s \in DOMAIN sketch.rows : sketch.hole[s] # 0 =>
              \E r \in DOMAIN sketch.rows[s] :
                /\ AssignmentChain(sketch, a).rows[s][1] = sketch.rows[s][r]
                /\ sketch.options[s][r] = a[sketch.hole[s]]
<1> DEFINE C == AssignmentChain(sketch, a)
           S == DOMAIN sketch.rows
           Choice(s) == CHOOSE r \in DOMAIN sketch.rows[s] : sketch.options[s][r] = a[sketch.hole[s]]
<1>1. C.rows = [s \in S |-> IF sketch.hole[s] = 0 THEN sketch.rows[s] ELSE <<sketch.rows[s][Choice(s)]>>]
  BY DEF AssignmentChain
<1>2. ASSUME NEW s \in S, sketch.hole[s] # 0
      PROVE  /\ Choice(s) \in DOMAIN sketch.rows[s]
             /\ sketch.options[s][Choice(s)] = a[sketch.hole[s]]
             /\ Choice(s) \in Selected(F)[s]
  <2>1. sketch.hole[s] \in Hole
    BY <1>2, SketchType
  <2>2. a[sketch.hole[s]] \in F[sketch.hole[s]] /\ F[sketch.hole[s]] \subseteq Options[sketch.hole[s]]
    BY <2>1 DEF Members, Family
  <2>3. a[sketch.hole[s]] \in {sketch.options[s][r] : r \in DOMAIN sketch.rows[s]}
    BY <1>2, <2>2 DEF Matched
  <2>4. \E r \in DOMAIN sketch.rows[s] : sketch.options[s][r] = a[sketch.hole[s]]
    BY <2>3
  <2>5. Choice(s) \in DOMAIN sketch.rows[s] /\ sketch.options[s][Choice(s)] = a[sketch.hole[s]]
    BY <2>4
  <2> HIDE DEF Choice
  <2> QED
    BY <2>2, <2>5 DEF Selected
<1> HIDE DEF Choice, C
<1>3. ASSUME NEW s \in S
      PROVE  \E r \in Selected(F)[s] :
               /\ C.rows[s][1] = sketch.rows[s][r] /\ DOMAIN C.rows[s] = {1}
               /\ r \in DOMAIN sketch.rows[s]
  <2>1. CASE sketch.hole[s] = 0
    <3>1. C.rows[s] = sketch.rows[s] /\ DOMAIN sketch.rows[s] = {1}
      BY <1>1, <2>1, SketchType
    <3>2. 1 \in Selected(F)[s]
      BY <2>1, <3>1 DEF Selected
    <3> QED
      BY <3>1, <3>2
  <2>2. CASE sketch.hole[s] # 0
    <3>1. C.rows[s] = <<sketch.rows[s][Choice(s)]>>
      BY <1>1, <2>2
    <3>2. C.rows[s][1] = sketch.rows[s][Choice(s)] /\ DOMAIN C.rows[s] = {1}
      BY <3>1
    <3> QED
      BY <1>2, <2>2, <3>2
  <2> QED
    BY <2>1, <2>2
<1>4. StatesOf(C) = S
  BY <1>1 DEF StatesOf
<1>5. IsChain(C)
  <2>1. \A s \in S : Rows(C, s) = {1} /\ C.rows[s][1] \subseteq S
    BY <1>3, SketchType DEF Rows
  <2>2. IsFiniteSet(S)
    BY SketchType
  <2> QED
    BY <1>4, <2>1, <2>2 DEF IsChain, GraphOK
<1>6. ASSUME NEW s \in StatesOf(M)
      PROVE  \E i \in Rows(M, s) : C.rows[s][1] = M.rows[s][i]
  <2>1. PICK r \in Selected(F)[s] : C.rows[s][1] = sketch.rows[s][r]
    BY <1>3 DEF IsModel
  <2>2. PICK i \in Rows(M, s) : RowIs(M, s, i, r)
    BY <2>1 DEF IsModel
  <2> QED
    BY <2>1, <2>2 DEF RowIs
<1>7. StatesOf(M) \subseteq S
  BY DEF IsModel
<1>8. ChainIn(C, M)
  BY <1>4, <1>5, <1>6, <1>7 DEF ChainIn
<1>9. ASSUME NEW s \in S, sketch.hole[s] # 0
      PROVE  C.rows[s][1] = sketch.rows[s][Choice(s)]
  BY <1>1, <1>9
<1> QED
  BY <1>2, <1>4, <1>8, <1>9 DEF C

(* Zero and one of computeUntilProbabilities are those of graph.cpp.       *)
LEMMA UntilValues ==
  ASSUME NEW M, NEW psi
  PROVE  /\ computeUntilProbabilities(M, FALSE, psi).zero = performProb0A(M, StatesOf(M), psi)
         /\ computeUntilProbabilities(M, FALSE, psi).one = performProb1E(M, StatesOf(M), psi)
         /\ computeUntilProbabilities(M, TRUE, psi).zero = performProb0E(M, StatesOf(M), psi)
         /\ computeUntilProbabilities(M, TRUE, psi).one
              = performProb0A(M, StatesOf(M) \ psi, performProb0E(M, StatesOf(M), psi))
<1>1. ASSUME NEW minimize \in BOOLEAN
      PROVE  /\ computeUntilProbabilities(M, minimize, psi).zero
                  = QualitativeStateSets(M, minimize, StatesOf(M), psi).zero
             /\ computeUntilProbabilities(M, minimize, psi).one
                  = QualitativeStateSets(M, minimize, StatesOf(M), psi).one
  BY DEF computeUntilProbabilities
<1>2. QualitativeStateSets(M, FALSE, StatesOf(M), psi) = performProb01Max(M, StatesOf(M), psi)
  BY DEF QualitativeStateSets
<1>3. QualitativeStateSets(M, TRUE, StatesOf(M), psi) = performProb01Min(M, StatesOf(M), psi)
  BY DEF QualitativeStateSets
<1>4. /\ performProb01Max(M, StatesOf(M), psi).zero = performProb0A(M, StatesOf(M), psi)
      /\ performProb01Max(M, StatesOf(M), psi).one = performProb1E(M, StatesOf(M), psi)
  BY DEF performProb01Max
<1>5. /\ performProb01Min(M, StatesOf(M), psi).zero = performProb0E(M, StatesOf(M), psi)
      /\ performProb01Min(M, StatesOf(M), psi).one
           = performProb0A(M, StatesOf(M) \ psi, performProb0E(M, StatesOf(M), psi))
  BY DEF performProb01Min
<1> QED
  BY <1>1, <1>2, <1>3, <1>4, <1>5

(* The bounds of an MDP are bounds for its chains.                         *)
LEMMA BoundsOfChain ==
  ASSUME NEW M, GraphOK(M), NEW C, ChainIn(C, M), NEW target, NEW psi,
         psi = target \cap StatesOf(M), NEW s \in StatesOf(M)
  PROVE  /\ s \in computeUntilProbabilities(M, FALSE, psi).zero => s \in Never(C, target)
         /\ s \in Never(C, target) => s \in computeUntilProbabilities(M, TRUE, psi).zero
         /\ s \in Surely(C, target) => s \in computeUntilProbabilities(M, FALSE, psi).one
         /\ s \in computeUntilProbabilities(M, TRUE, psi).one => s \in Surely(C, target)
<1>1. s \in performProb0A(M, StatesOf(M), psi) => s \in Never(C, target)
  BY Prob0AIsNever
<1>2. s \in Never(C, target) => s \in performProb0E(M, StatesOf(M), psi)
  BY NeverIsProb0E
<1>3. s \in Surely(C, target) => s \in performProb1E(M, StatesOf(M), psi)
  BY SurelyIsProb1E
<1>4. s \in performProb0A(M, StatesOf(M) \ psi, performProb0E(M, StatesOf(M), psi))
        => s \in Surely(C, target)
  BY Prob1AIsSurely
<1> QED
  BY <1>1, <1>2, <1>3, <1>4, UntilValues

(* They are its values when the states have one row.                       *)
LEMMA BoundsOfSingleChain ==
  ASSUME NEW M, GraphOK(M), NEW C, ChainIn(C, M), NEW target, NEW psi,
         psi = target \cap StatesOf(M),
         \A s \in StatesOf(M) : \A r \in Rows(M, s) : M.rows[s][r] = C.rows[s][1],
         NEW s \in StatesOf(M)
  PROVE  /\ s \in Never(C, target) => s \in performProb0A(M, StatesOf(M), psi)
         /\ s \in performProb0E(M, StatesOf(M), psi) => s \in Never(C, target)
         /\ s \in performProb1E(M, StatesOf(M), psi) => s \notin Never(C, target)
         /\ s \in Surely(C, target) =>
              s \in performProb0A(M, StatesOf(M) \ psi, performProb0E(M, StatesOf(M), psi))
<1> DEFINE S == StatesOf(M)
<1>0. /\ IsChain(C) /\ S \in SUBSET StatesOf(C)
      /\ \A t \in S : /\ C.rows[t][1] \subseteq S /\ \E r \in Rows(M, t) : TRUE
                      /\ \A r \in Rows(M, t) : M.rows[t][r] = C.rows[t][1]
  BY DEF ChainIn, GraphOK
<1>1. ASSUME NEW u \in S, u \in Never(C, target)
      PROVE  u \in performProb0A(M, S, psi)
  <2> DEFINE R == performProbGreater0E(M, S, psi)
             N == ReachableFrom(C, u)
             D == S \ N
  <2>1. IsGreater0E(R, M, S, psi)
    BY Greater0EIsLeast
  <2>2. u \in N /\ (\A t \in N : C.rows[t][1] \subseteq N) /\ N \cap target = {}
    BY <1>0, <1>1, ReachableInChain, NeverInChain
  <2> HIDE DEF R, N
  <2>3. \A t \in S : (\E r \in Rows(M, t) : Meets(M.rows[t][r], D)) => t \in D
    BY <1>0, <2>2 DEF Meets
  <2>4. R \subseteq D
    <3>1. D \in SUBSET S /\ psi \subseteq D
      BY <2>2
    <3> HIDE DEF D
    <3> QED
      BY <2>1, <2>3, <3>1 DEF IsGreater0E
  <2> QED
    BY <2>2, <2>4 DEF performProb0A, R
<1>2. ASSUME NEW u \in performProb0E(M, S, psi)
      PROVE  u \in Never(C, target)
  <2> DEFINE R == performProbGreater0A(M, S, psi)
             Z == S \ R
  <2>1. IsGreater0A(R, M, S, psi)
    BY Greater0AIsLeast
  <2>2. u \in Z
    BY DEF performProb0E
  <2> HIDE DEF R
  <2>3. \A t \in Z : C.rows[t][1] \subseteq Z
    BY <1>0, <2>1 DEF Meets, IsGreater0A
  <2>4. Z \in SUBSET StatesOf(C) /\ Z \cap target = {}
    BY <1>0, <2>1 DEF IsGreater0A
  <2> HIDE DEF Z
  <2>5. ReachableFrom(C, u) \subseteq Z
    BY <1>0, <2>2, <2>3, <2>4, ReachableInChain
  <2> QED
    BY <1>0, <2>2, <2>4, <2>5, NeverInChain
<1>3. ASSUME NEW u \in performProb1E(M, S, psi)
      PROVE  u \notin Never(C, target)
  <2> DEFINE U == performProb1E(M, S, psi)
             D == U \ Never(C, target)
  <2>1. IsProb1E(U, M, S, psi)
    BY Prob1EIsGreatest
  <2> HIDE DEF U
  <2>2. IsNext1E(U, M, U, S, psi)
    <3>1. IsNext1E(Next1E(M, S, psi, U), M, U, S, psi)
      BY Next1EIsLeast
    <3> QED
      BY <2>1, <3>1 DEF IsProb1E
  <2>3. ASSUME NEW t \in S, NEW r \in Rows(M, t), Progresses(M.rows[t][r], U, D)
        PROVE  t \in D
    <3>1. Progresses(M.rows[t][r], U, U)
      BY <2>3 DEF Progresses, Meets
    <3>2. t \in U
      BY <2>2, <3>1 DEF IsNext1E
    <3>3. PICK v \in C.rows[t][1] : v \in D
      BY <1>0, <2>3 DEF Progresses, Meets
    <3>4. t \in target => t \notin Never(C, target)
      BY <1>0, NeverInChain, ReachableInChain
    <3>5. t \notin target => t \notin Never(C, target)
      BY <1>0, <3>3, NextOfSurely
    <3> QED
      BY <3>2, <3>4, <3>5
  <2>4. psi \subseteq D
    <3>1. ASSUME NEW t \in psi
          PROVE  t \notin Never(C, target)
      BY <1>0, NeverInChain, ReachableInChain
    <3> QED
      BY <2>2, <3>1 DEF IsNext1E
  <2>5. U \subseteq D
    <3>1. D \in SUBSET S
      BY <2>2 DEF IsNext1E
    <3> HIDE DEF D
    <3> QED
      BY <2>2, <2>3, <2>4, <3>1 DEF IsNext1E
  <2> QED
    BY <2>5 DEF U
<1>4. ASSUME NEW u \in S, u \in Surely(C, target)
      PROVE  u \in performProb0A(M, S \ psi, performProb0E(M, S, psi))
  <2> DEFINE zero == performProb0E(M, S, psi)
             R == performProbGreater0E(M, S \ psi, zero)
             D == S \ Surely(C, target)
  <2>1. zero \in SUBSET S
    BY DEF performProb0E
  <2>2. IsGreater0E(R, M, S \ psi, zero)
    <3> HIDE DEF zero
    <3> QED
      BY <2>1, Greater0EIsLeast
  <2>3. zero \subseteq D
    BY <1>0, <1>2, <2>1, SurelyNotNever
  <2> HIDE DEF R, zero
  <2>4. ASSUME NEW t \in S \ psi, NEW r \in Rows(M, t), Meets(M.rows[t][r], D)
        PROVE  t \in D
    <3>1. PICK v \in C.rows[t][1] : v \in D
      BY <1>0, <2>4 DEF Meets
    <3> QED
      BY <1>0, <3>1, NextOfSurely
  <2>5. R \subseteq D
    <3>1. D \in SUBSET S
      OBVIOUS
    <3> HIDE DEF D
    <3> QED
      BY <2>2, <2>3, <2>4, <3>1 DEF IsGreater0E
  <2> QED
    BY <1>4, <2>5 DEF performProb0A, R, zero
<1> QED
  BY <1>1, <1>2, <1>3, <1>4

-----------------------------------------------------------------------------
(***************************************************************************)
(* Folds over sequences.                                                   *)
(***************************************************************************)
LEMMA MaxOfPrefix ==
  ASSUME NEW k \in Nat
  PROVE  /\ \A s \in SUBSET (1..k) : k \in s => Max(s) = k
         /\ k # 0 => (1..k) \ {k} = 1..(k - 1)
         /\ \A s \in SUBSET (1..k) : k \notin s => s \in SUBSET (1..(k - 1))
<1>1. ASSUME NEW s \in SUBSET (1..k), k \in s
      PROVE  Max(s) = k
  <2>1. \A x \in s : x \in Nat /\ x <= k
    OBVIOUS
  <2>2. \A x \in s : (\A y \in s : x >= y) => x = k
    BY <1>1, <2>1
  <2>3. \A y \in s : k >= y
    BY <2>1
  <2> QED
    BY <1>1, <2>2, <2>3 DEF Max
<1> QED
  BY <1>1

(* A function that folds the indices 1..n, the greatest one last.          *)
Folds(g, n, D, base, combine) ==
  /\ g \in [SUBSET (1..n) -> D]
  /\ \A s \in SUBSET (1..n) :
       g[s] = IF s = {} THEN base ELSE combine[Max(s)][g[s \ {Max(s)}]]

(* A fold has a value, if its operation stays in a set.                    *)
LEMMA FoldExists ==
  ASSUME NEW n \in Nat, NEW D, NEW base \in D, NEW combine \in [1..n -> [D -> D]]
  PROVE  \E g : Folds(g, n, D, base, combine)
<1> DEFINE IsFold(g, k) ==
             /\ g \in [SUBSET (1..k) -> D]
             /\ \A s \in SUBSET (1..k) :
                  g[s] = IF s = {} THEN base ELSE combine[Max(s)][g[s \ {Max(s)}]]
           B == {k \in 0..n : ~ \E g : IsFold(g, k)}
<1>1. B = {}
  <2>1. SUFFICES ASSUME B # {}
                 PROVE  FALSE
    OBVIOUS
  <2>2. PICK k \in B : \A j \in B : k <= j
    <3>1. B \in SUBSET Nat
      <4> HIDE DEF IsFold
      <4> QED
        OBVIOUS
    <3> HIDE DEF B
    <3> QED
      BY <2>1, <3>1, LeastNatural
  <2>3. k # 0
    <3> DEFINE g == [s \in SUBSET (1..0) |-> base]
    <3>1. IsFold(g, 0)
      OBVIOUS
    <3> HIDE DEF IsFold, g
    <3> QED
      BY <2>2, <3>1
  <2>4. k \in 1..n /\ k - 1 \in 0..n /\ k - 1 \notin B
    <3> HIDE DEF IsFold
    <3> QED
      BY <2>2, <2>3
  <2>5. PICK g : IsFold(g, k - 1)
    BY <2>4
  <2> DEFINE h == [s \in SUBSET (1..k) |-> IF k \in s THEN combine[k][g[s \ {k}]] ELSE g[s]]
  <2>6. ASSUME NEW s \in SUBSET (1..k)
        PROVE  h[s] \in D /\ h[s] = IF s = {} THEN base ELSE combine[Max(s)][h[s \ {Max(s)}]]
    <3>1. CASE k \in s
      <4>1. s \ {k} \in SUBSET (1..(k - 1)) /\ s \ {k} \in SUBSET (1..k) /\ Max(s) = k
        BY <2>4, <3>1, MaxOfPrefix
      <4>2. h[s \ {k}] = g[s \ {k}] /\ g[s \ {k}] \in D
        BY <2>5, <4>1
      <4>3. h[s] = combine[k][g[s \ {k}]]
        BY <3>1
      <4>4. combine[k] \in [D -> D]
        BY <2>4
      <4> HIDE DEF h
      <4> QED
        BY <3>1, <4>1, <4>2, <4>3, <4>4
    <3>2. CASE k \notin s
      <4>1. s \in SUBSET (1..(k - 1)) /\ h[s] = g[s]
        BY <2>4, <3>2, MaxOfPrefix
      <4>2. g[s] \in D /\ g[s] = IF s = {} THEN base ELSE combine[Max(s)][g[s \ {Max(s)}]]
        BY <2>5, <4>1
      <4>3. s \ {Max(s)} \in SUBSET (1..k) /\ k \notin s \ {Max(s)}
        BY <3>2
      <4>4. h[s \ {Max(s)}] = g[s \ {Max(s)}]
        BY <4>3
      <4> HIDE DEF h
      <4> QED
        BY <4>1, <4>2, <4>4
    <3> QED
      BY <3>1, <3>2
  <2>7. IsFold(h, k)
    <3>1. h \in [SUBSET (1..k) -> D]
      <4>1. DOMAIN h = SUBSET (1..k) /\ h = [s \in SUBSET (1..k) |-> h[s]]
        OBVIOUS
      <4> HIDE DEF h
      <4> QED
        BY <2>6, <4>1
    <3> HIDE DEF h
    <3> QED
      BY <2>6, <3>1
  <2> HIDE DEF IsFold, h
  <2> QED
    BY <2>2, <2>7
<1>2. n \in 0..n
  OBVIOUS
<1>3. \E g : IsFold(g, n)
  <2> HIDE DEF IsFold
  <2> QED
    BY <1>1, <1>2
<1> QED
  BY <1>3 DEF Folds

(* Its values after each element, whatever function it is defined by.      *)
IsTrace(trace, n, D, base, combine, result) ==
  /\ trace \in [0..n -> D] /\ trace[0] = base /\ trace[n] = result
  /\ \A k \in 1..n : trace[k] = combine[k][trace[k - 1]]

FoldsWithin(g, n, D, base, combine) ==
  /\ g[{}] = base
  /\ \A s \in SUBSET (1..n) :
       s # {} /\ g[s \ {Max(s)}] \in D => g[s] = combine[Max(s)][g[s \ {Max(s)}]]

(* A fold passes through one value after each element.                     *)
LEMMA FoldTrace ==
  ASSUME NEW n \in Nat, NEW D, NEW base \in D, NEW combine \in [1..n -> [D -> D]], NEW g,
         FoldsWithin(g, n, D, base, combine)
  PROVE  \E trace : IsTrace(trace, n, D, base, combine, g[1..n])
<1> USE DEF FoldsWithin
<1> DEFINE trace == [k \in 0..n |-> g[1..k]]
           B == {k \in 0..n : trace[k] \notin D}
<1>1. trace[0] = base /\ trace[n] = g[1..n]
  OBVIOUS
<1>2. ASSUME NEW k \in 1..n, trace[k - 1] \in D
      PROVE  trace[k] = combine[k][trace[k - 1]]
  <2>1. /\ 1..k \in SUBSET (1..n) /\ k \in 1..k /\ k - 1 \in 0..n /\ k \in 0..n /\ k \in Nat
    OBVIOUS
  <2>2. Max(1..k) = k /\ (1..k) \ {k} = 1..(k - 1)
    BY <2>1, MaxOfPrefix
  <2>3. trace[k] = g[1..k] /\ trace[k - 1] = g[1..(k - 1)]
    BY <2>1
  <2>4. 1..k # {} /\ g[(1..k) \ {Max(1..k)}] \in D
    BY <1>2, <2>1, <2>2, <2>3
  <2>5. g[1..k] = combine[Max(1..k)][g[(1..k) \ {Max(1..k)}]]
    BY <2>1, <2>4
  <2> QED
    BY <2>2, <2>3, <2>5
<1> HIDE DEF trace
<1>3. B = {}
  <2>1. SUFFICES ASSUME B # {}
                 PROVE  FALSE
    OBVIOUS
  <2>2. PICK k \in B : \A j \in B : k <= j
    <3>1. B \in SUBSET Nat
      OBVIOUS
    <3> HIDE DEF B
    <3> QED
      BY <2>1, <3>1, LeastNatural
  <2>3. k \in 1..n /\ k - 1 \in 0..n /\ k - 1 \notin B
    BY <1>1, <2>2
  <2>4. trace[k - 1] \in D
    BY <2>3
  <2>5. trace[k] = combine[k][trace[k - 1]] /\ combine[k] \in [D -> D]
    BY <1>2, <2>3, <2>4
  <2> QED
    BY <2>2, <2>4, <2>5
<1>4. trace \in [0..n -> D]
  <2>1. DOMAIN trace = 0..n /\ trace = [k \in 0..n |-> trace[k]]
    BY DEF trace
  <2> QED
    BY <1>3, <2>1
<1>5. \A k \in 1..n : trace[k] = combine[k][trace[k - 1]]
  <2>1. \A k \in 1..n : k - 1 \in 0..n
    OBVIOUS
  <2> QED
    BY <1>2, <1>4, <2>1
<1> QED
  BY <1>1, <1>4, <1>5 DEF IsTrace

-----------------------------------------------------------------------------
(***************************************************************************)
(* Schedulers.                                                             *)
(***************************************************************************)
LEMMA FirstOf ==
  ASSUME NEW n \in Nat, NEW I \in SUBSET (1..n), I # {}
  PROVE  Min(I) \in I
<1>1. \E i \in I : \A j \in I : i <= j
  BY LeastNatural
<1> QED
  BY <1>1 DEF Min

(* A nonempty set of positions has a greatest.                             *)
LEMMA GreatestOf ==
  ASSUME NEW n \in Nat, NEW I \in SUBSET (1..n), I # {}
  PROVE  Max(I) \in I
<1>1. \E i \in I : \A j \in I : j <= i
  BY GreatestNatural
<1> QED
  BY <1>1 DEF Max

(* computeSchedulerStayingInStates takes a row that stays, if there is     *)
(* one.                                                                    *)
LEMMA StayingRowStays ==
  ASSUME NEW M, NEW s, NEW states, M.rows[s] \in Seq(SUBSET StatesOf(M)),
         \E r \in Rows(M, s) : M.rows[s][r] \subseteq states
  PROVE  /\ StayingRow(M, s, states) \in Rows(M, s)
         /\ M.rows[s][StayingRow(M, s, states)] \subseteq states
<1> DEFINE I == {i \in 1..Len(M.rows[s]) : M.rows[s][i] \subseteq states}
<1>1. Len(M.rows[s]) \in Nat /\ Rows(M, s) = 1..Len(M.rows[s])
  BY DEF Rows
<1>2. I # {} /\ I \in SUBSET (1..Len(M.rows[s]))
  BY <1>1
<1>3. StayingRow(M, s, states) = Min(I)
  BY <1>2 DEF StayingRow, FirstRow, SelectInSeq
<1>4. Min(I) \in I
  <2> HIDE DEF I
  <2> QED
    BY <1>1, <1>2, FirstOf
<1> QED
  BY <1>1, <1>3, <1>4

(* The first row of a state that progresses, or 0.                         *)
ProgressRow(M, p, one, current) ==
  FirstRow(M, p, LAMBDA successors : Progresses(successors, one, current))

(* The row that is taken makes progress; without such a row there is       *)
(* none.                                                                   *)
LEMMA ProgressRowProgresses ==
  ASSUME NEW M, NEW p, NEW one, NEW current, M.rows[p] \in Seq(SUBSET StatesOf(M))
  PROVE  \/ /\ ProgressRow(M, p, one, current) \in Rows(M, p)
            /\ ProgressRow(M, p, one, current) > 0
            /\ Progresses(M.rows[p][ProgressRow(M, p, one, current)], one, current)
         \/ /\ ProgressRow(M, p, one, current) = 0
            /\ \A r \in Rows(M, p) : ~ Progresses(M.rows[p][r], one, current)
<1> DEFINE I == {i \in 1..Len(M.rows[p]) : Progresses(M.rows[p][i], one, current)}
<1>1. /\ Len(M.rows[p]) \in Nat /\ Rows(M, p) = 1..Len(M.rows[p])
      /\ I \in SUBSET (1..Len(M.rows[p]))
  BY DEF Rows
<1>2. ProgressRow(M, p, one, current) = IF I # {} THEN Min(I) ELSE 0
  BY DEF ProgressRow, FirstRow, SelectInSeq
<1>3. I # {} => Min(I) \in I
  <2> HIDE DEF I
  <2> QED
    BY <1>1, FirstOf
<1>4. CASE I # {}
  <2>1. Min(I) \in 1..Len(M.rows[p]) /\ Progresses(M.rows[p][Min(I)], one, current)
    BY <1>3, <1>4
  <2> QED
    BY <1>1, <1>2, <1>4, <2>1
<1>5. CASE I = {}
  BY <1>1, <1>2, <1>5
<1> QED
  BY <1>4, <1>5

Search(M) ==
  {search \in [stack : Seq(StatesOf(M)), current : SUBSET StatesOf(M), choice : [StatesOf(M) -> Nat]] :
     \A s \in StatesOf(M) : search.choice[s] \in Rows(M, s)}

Visited(M, one, search, p, row) ==
  [stack   |-> Append(search.stack, p),
   current |-> search.current \cup {p},
   choice  |-> [search.choice EXCEPT ![p] = row]]

(* What a visit does, as a case distinction on the row it finds.           *)
LEMMA VisitStays ==
  ASSUME NEW M, MdpOK(M), NEW one, NEW phi, NEW search \in Search(M), NEW p \in StatesOf(M)
  PROVE  /\ VisitPredecessor(M, one, phi, search, p) \in Search(M)
         /\ VisitPredecessor(M, one, phi, search, p)
              = LET row == ProgressRow(M, p, one, search.current)
                IN  IF p \in phi \ search.current /\ row > 0
                    THEN Visited(M, one, search, p, row) ELSE search
<1> DEFINE row == ProgressRow(M, p, one, search.current)
<1>1. VisitPredecessor(M, one, phi, search, p)
        = IF p \in phi \ search.current /\ row > 0 THEN Visited(M, one, search, p, row) ELSE search
  BY DEF VisitPredecessor, ProgressRow, Visited
<1>2. row \in Rows(M, p) \/ row = 0
  <2>1. M.rows[p] \in Seq(SUBSET StatesOf(M))
    BY DEF MdpOK
  <2> QED
    BY <2>1, ProgressRowProgresses
<1>3. Rows(M, p) \subseteq Nat
  <2>1. M.rows[p] \in Seq(SUBSET StatesOf(M))
    BY DEF MdpOK
  <2> QED
    BY <2>1 DEF Rows
<1> HIDE DEF row
<1>4. ASSUME row \in Rows(M, p)
      PROVE  Visited(M, one, search, p, row) \in Search(M)
  <2>1. /\ search.stack \in Seq(StatesOf(M)) /\ search.current \in SUBSET StatesOf(M)
        /\ search.choice \in [StatesOf(M) -> Nat]
        /\ \A s \in StatesOf(M) : search.choice[s] \in Rows(M, s)
    BY DEF Search
  <2>2. Append(search.stack, p) \in Seq(StatesOf(M))
    BY <2>1
  <2>3. /\ [search.choice EXCEPT ![p] = row] \in [StatesOf(M) -> Nat]
        /\ \A s \in StatesOf(M) : [search.choice EXCEPT ![p] = row][s] \in Rows(M, s)
    BY <1>3, <1>4, <2>1
  <2> QED
    BY <2>1, <2>2, <2>3 DEF Search, Visited
<1>5. CASE row = 0
  BY <1>1, <1>5 DEF row
<1> QED
  BY <1>1, <1>2, <1>4, <1>5 DEF row

(* The search of a state's predecessors, one after the other.              *)
VisitsInOrder(trace, n, M, one, phi, search, preds) ==
  /\ trace \in [0..n -> Search(M)]
  /\ trace[0] = [search EXCEPT !.stack = Front(search.stack)]
  /\ trace[n] = VisitPredecessors(M, one, phi, search)
  /\ \A k \in 1..n : trace[k] = VisitPredecessor(M, one, phi, trace[k - 1], preds[k])

(* The predecessors of a state are visited one by one, all of them.        *)
LEMMA VisitsTrace ==
  ASSUME NEW M, MdpOK(M), NEW one, NEW phi, NEW search \in Search(M), search.stack # << >>,
         NEW preds, preds = Predecessors(M, Last(search.stack)),
         NEW n, n = Cardinality(preds)
  PROVE  /\ n \in Nat /\ Ascending(preds) \in [1..n -> preds] /\ preds \in SUBSET StatesOf(M)
         /\ \A x \in preds : \E i \in 1..n : Ascending(preds)[i] = x
         /\ \E trace : VisitsInOrder(trace, n, M, one, phi, search, Ascending(preds))
<1> DEFINE S == StatesOf(M)
           D == Search(M)
           P == Ascending(preds)
           base == [search EXCEPT !.stack = Front(search.stack)]
           combine == [k \in 1..n |-> [d \in D |-> VisitPredecessor(M, one, phi, d, P[k])]]
           Eq(g) == g = [s \in SUBSET (1..n) |->
                           IF s = {} THEN base
                           ELSE VisitPredecessor(M, one, phi, g[s \ {Max(s)}], P[Max(s)])]
           iter == CHOOSE g : Eq(g)
<1>1. preds \in SUBSET S
  BY DEF Predecessors
<1>2. IsFiniteSet(preds) /\ preds \in SUBSET Nat /\ n \in Nat
  BY <1>1, FS_Subset, FS_CardinalityType DEF MdpOK, GraphOK
<1>3. P \in [1..n -> preds] /\ \A x \in preds : \E i \in 1..n : P[i] = x
  BY <1>2, AscendingSet
<1>4. base \in D
  <2>1. /\ search.stack \in Seq(S) /\ search.current \in SUBSET S /\ search.choice \in [S -> Nat]
        /\ \A s \in S : search.choice[s] \in Rows(M, s)
        /\ search = [stack |-> search.stack, current |-> search.current, choice |-> search.choice]
    BY DEF Search
  <2>2. Front(search.stack) \in Seq(S)
    <3>1. Len(search.stack) \in Nat /\ \A i \in 1..(Len(search.stack) - 1) : search.stack[i] \in S
      BY <2>1
    <3> QED
      BY <3>1, SubSeqProperties DEF Front
  <2>3. base = [stack |-> Front(search.stack), current |-> search.current, choice |-> search.choice]
    BY <2>1
  <2> HIDE DEF base
  <2> QED
    BY <2>1, <2>2, <2>3 DEF Search
<1> HIDE DEF S, P, base, D
<1>5. combine \in [1..n -> [D -> D]]
  <2>1. ASSUME NEW k \in 1..n, NEW d \in D
        PROVE  VisitPredecessor(M, one, phi, d, P[k]) \in D
    <3>1. P[k] \in StatesOf(M)
      BY <1>1, <1>3 DEF S
    <3> QED
      BY <3>1, VisitStays DEF D
  <2> QED
    BY <2>1
<1>6. VisitPredecessors(M, one, phi, search) = iter[1..n]
  <2>1. DOMAIN P = 1..n
    BY <1>3
  <2>2. VisitPredecessors(M, one, phi, search)
          = FoldLeft(LAMBDA acc, p : VisitPredecessor(M, one, phi, acc, p), base, P)
    BY DEF VisitPredecessors, base, P
  <2> QED
    BY <2>1, <2>2 DEF FoldLeft, MapThenFoldSet
<1>7. Eq(iter)
  <2>0. PICK g : Folds(g, n, D, base, combine)
    <3> HIDE DEF combine
    <3> QED
      BY <1>2, <1>4, <1>5, FoldExists
  <2>1. /\ g \in [SUBSET (1..n) -> D]
        /\ \A s \in SUBSET (1..n) :
             g[s] = IF s = {} THEN base ELSE combine[Max(s)][g[s \ {Max(s)}]]
    <3> HIDE DEF combine
    <3> QED
      BY <2>0 DEF Folds
  <2>2. ASSUME NEW s \in SUBSET (1..n), s # {}
        PROVE  g[s] = VisitPredecessor(M, one, phi, g[s \ {Max(s)}], P[Max(s)])
    <3>1. Max(s) \in s
      BY <1>2, <2>2, GreatestOf
    <3>2. g[s \ {Max(s)}] \in D /\ Max(s) \in 1..n
      BY <2>1, <3>1
    <3>3. g[s] = combine[Max(s)][g[s \ {Max(s)}]]
      BY <2>1, <2>2
    <3> QED
      BY <3>2, <3>3
  <2>3. Eq(g)
    <3>1. g = [s \in SUBSET (1..n) |-> g[s]]
      BY <2>1
    <3>2. g[{}] = base
      BY <2>1
    <3> QED
      BY <2>2, <3>1, <3>2
  <2> HIDE DEF Eq
  <2> QED
    BY <2>3
<1>8. iter[{}] = base
  BY <1>7
<1>9. ASSUME NEW s \in SUBSET (1..n), s # {}, iter[s \ {Max(s)}] \in D
      PROVE  iter[s] = combine[Max(s)][iter[s \ {Max(s)}]]
  <2> HIDE DEF iter
  <2>1. Max(s) \in 1..n
    BY <1>2, <1>9, GreatestOf
  <2>2. iter[s] = VisitPredecessor(M, one, phi, iter[s \ {Max(s)}], P[Max(s)])
    BY <1>7, <1>9
  <2> QED
    BY <1>9, <2>1, <2>2
<1>10. PICK trace : IsTrace(trace, n, D, base, combine, iter[1..n])
  <2> HIDE DEF combine, iter
  <2>1. FoldsWithin(iter, n, D, base, combine)
    BY <1>8, <1>9 DEF FoldsWithin
  <2> QED
    BY <1>2, <1>4, <1>5, <2>1, FoldTrace
<1>11. \A k \in 1..n : trace[k] = VisitPredecessor(M, one, phi, trace[k - 1], P[k])
  <2>1. ASSUME NEW k \in 1..n
        PROVE  trace[k - 1] \in D /\ trace[k] = combine[k][trace[k - 1]]
    <3>1. k - 1 \in 0..n
      BY <1>2
    <3> HIDE DEF combine
    <3> QED
      BY <1>10, <3>1 DEF IsTrace
  <2> QED
    BY <2>1
<1> HIDE DEF combine, iter
<1>12. \E tr : VisitsInOrder(tr, n, M, one, phi, search, P)
  <2>1. VisitsInOrder(trace, n, M, one, phi, search, P)
    <3>1. trace \in [0..n -> Search(M)]
      BY <1>10 DEF IsTrace, D
    <3>2. trace[0] = [search EXCEPT !.stack = Front(search.stack)]
      BY <1>10 DEF IsTrace, base
    <3>3. trace[n] = VisitPredecessors(M, one, phi, search)
      BY <1>6, <1>10 DEF IsTrace
    <3> QED
      BY <1>11, <3>1, <3>2, <3>3 DEF VisitsInOrder
  <2> QED
    BY <2>1
<1> QED
  BY <1>1, <1>2, <1>3, <1>12 DEF S, P

SearchStep(M, one, phi, search) ==
  IF search.stack = << >> THEN search ELSE VisitPredecessors(M, one, phi, search)

(* A step of the search keeps the shape of its state.                      *)
LEMMA SearchStays ==
  ASSUME NEW M, MdpOK(M), NEW one, NEW phi, NEW search \in Search(M)
  PROVE  SearchStep(M, one, phi, search) \in Search(M)
<1>1. CASE search.stack = << >>
  BY <1>1 DEF SearchStep
<1>2. CASE search.stack # << >>
  <2> DEFINE preds == Predecessors(M, Last(search.stack))
             n == Cardinality(preds)
  <2>1. n \in Nat /\ \E trace : VisitsInOrder(trace, n, M, one, phi, search, Ascending(preds))
    BY <1>2, VisitsTrace
  <2> HIDE DEF preds, n
  <2>2. n \in 0..n
    BY <2>1
  <2> QED
    BY <1>2, <2>1, <2>2 DEF SearchStep, VisitsInOrder
<1> QED
  BY <1>1, <1>2

(* The whole search: a step for each state of the model.                   *)
SearchInOrder(trace, M, one, phi, psi) ==
  LET n == Cardinality(StatesOf(M))
  IN  /\ trace \in [0..n -> Search(M)]
      /\ trace[0] = [stack   |-> Ascending(psi),
                     current |-> psi,
                     choice  |-> [s \in StatesOf(M) |-> 1]]
      /\ trace[n].choice = computeSchedulerProb1E(M, one, phi, psi)
      /\ \A k \in 1..n : trace[k] = SearchStep(M, one, phi, trace[k - 1])

(* The search is a sequence of steps, one for each state of the model.     *)
LEMMA SearchTrace ==
  ASSUME NEW M, MdpOK(M), NEW one, NEW phi, NEW psi \in SUBSET StatesOf(M)
  PROVE  \E trace : SearchInOrder(trace, M, one, phi, psi)
<1> DEFINE S == StatesOf(M)
           n == Cardinality(S)
           D == Search(M)
           P == SetToSeq(S)
           base == [stack |-> Ascending(psi), current |-> psi, choice |-> [s \in S |-> 1]]
           combine == [k \in 1..n |-> [d \in D |-> SearchStep(M, one, phi, d)]]
           Eq(g) == g = [s \in SUBSET (1..n) |->
                           IF s = {} THEN base ELSE SearchStep(M, one, phi, g[s \ {Max(s)}])]
           iter == CHOOSE g : Eq(g)
<1>1. IsFiniteSet(S) /\ S \in SUBSET Nat /\ n \in Nat /\ \A s \in S : 1 \in Rows(M, s)
  BY FS_CardinalityType DEF MdpOK, GraphOK
<1>2. P \in [1..n -> S]
  <2>1. \E f \in [1..n -> S] : IsInjective(f)
    <3>1. PICK m \in Nat : ExistsBijection(1..m, S) /\ m = n
      BY <1>1, FS_CountingElements, FS_NatBijection
    <3> QED
      BY <3>1 DEF ExistsBijection, Bijection, Injection
  <2> HIDE DEF n, S
  <2> QED
    BY <2>1 DEF SetToSeq, n
<1>3. base \in D
  <2>1. IsFiniteSet(psi) /\ psi \in SUBSET Nat
    BY <1>1, FS_Subset
  <2>2. Ascending(psi) \in Seq(psi)
    BY <2>1, AscendingSet
  <2>3. Ascending(psi) \in Seq(S)
    BY <2>2
  <2> QED
    BY <1>1, <2>3 DEF Search
<1>4. combine \in [1..n -> [D -> D]]
  BY SearchStays
<1>5. computeSchedulerProb1E(M, one, phi, psi) = iter[1..n].choice
  <2>1. DOMAIN P = 1..n
    <3> HIDE DEF P, n, S
    <3> QED
      BY <1>2
  <2>2. computeSchedulerProb1E(M, one, phi, psi)
          = FoldLeft(LAMBDA search, k :
                       IF search.stack = << >> THEN search
                       ELSE VisitPredecessors(M, one, phi, search), base, P).choice
    BY DEF computeSchedulerProb1E
  <2> HIDE DEF P, base, n
  <2> QED
    BY <2>1, <2>2 DEF FoldLeft, MapThenFoldSet, SearchStep
<1> HIDE DEF S, P, base, n, D
<1>6. Eq(iter)
  <2>1. PICK g : Folds(g, n, D, base, combine)
    <3> HIDE DEF combine
    <3> QED
      BY <1>1, <1>3, <1>4, FoldExists
  <2>2. /\ g \in [SUBSET (1..n) -> D]
        /\ \A s \in SUBSET (1..n) :
             g[s] = IF s = {} THEN base ELSE combine[Max(s)][g[s \ {Max(s)}]]
    <3> HIDE DEF combine
    <3> QED
      BY <2>1 DEF Folds
  <2>3. ASSUME NEW s \in SUBSET (1..n), s # {}
        PROVE  g[s] = SearchStep(M, one, phi, g[s \ {Max(s)}])
    <3>1. Max(s) \in s
      BY <1>1, <2>3, GreatestOf
    <3>2. g[s \ {Max(s)}] \in D /\ Max(s) \in 1..n
      BY <2>2, <3>1
    <3>3. g[s] = combine[Max(s)][g[s \ {Max(s)}]]
      BY <2>2, <2>3
    <3> QED
      BY <3>2, <3>3
  <2>4. Eq(g)
    <3>1. g = [s \in SUBSET (1..n) |-> g[s]]
      BY <2>2
    <3>2. g[{}] = base
      BY <2>2
    <3> QED
      BY <2>3, <3>1, <3>2
  <2> HIDE DEF Eq
  <2> QED
    BY <2>4
<1>7. FoldsWithin(iter, n, D, base, combine)
  <2>1. iter[{}] = base
    BY <1>6
  <2>2. ASSUME NEW s \in SUBSET (1..n), s # {}, iter[s \ {Max(s)}] \in D
        PROVE  iter[s] = combine[Max(s)][iter[s \ {Max(s)}]]
    <3> HIDE DEF iter
    <3>1. Max(s) \in 1..n
      BY <1>1, <2>2, GreatestOf
    <3>2. iter[s] = SearchStep(M, one, phi, iter[s \ {Max(s)}])
      BY <1>6, <2>2
    <3> QED
      BY <2>2, <3>1, <3>2
  <2> HIDE DEF iter, combine
  <2> QED
    BY <2>1, <2>2 DEF FoldsWithin
<1>8. PICK trace : IsTrace(trace, n, D, base, combine, iter[1..n])
  <2> HIDE DEF combine, iter
  <2> QED
    BY <1>1, <1>3, <1>4, <1>7, FoldTrace
<1>9. ASSUME NEW k \in 1..n
      PROVE  trace[k] = SearchStep(M, one, phi, trace[k - 1])
  <2>1. k - 1 \in 0..n
    BY <1>1
  <2>2. trace[k - 1] \in D /\ trace[k] = combine[k][trace[k - 1]]
    <3> HIDE DEF combine
    <3> QED
      BY <1>8, <2>1 DEF IsTrace
  <2> QED
    BY <2>2
<1> HIDE DEF combine, iter
<1>10. SearchInOrder(trace, M, one, phi, psi)
  <2>1. trace \in [0..n -> D] /\ trace[0] = base /\ trace[n].choice = iter[1..n].choice
    BY <1>8 DEF IsTrace
  <2> QED
    BY <1>5, <1>9, <2>1 DEF SearchInOrder, S, base, n, D
<1> QED
  BY <1>10

(* Every scheduler takes a row of the model in each state.                 *)
IsScheduler(f, M) == f \in [StatesOf(M) -> Nat] /\ \A s \in StatesOf(M) : f[s] \in Rows(M, s)

(* The search gives each state one of its rows.                            *)
LEMMA SearchSchedules ==
  ASSUME NEW M, MdpOK(M), NEW one, NEW phi, NEW psi \in SUBSET StatesOf(M)
  PROVE  IsScheduler(computeSchedulerProb1E(M, one, phi, psi), M)
<1> DEFINE n == Cardinality(StatesOf(M))
<1>1. n \in Nat
  BY FS_CardinalityType DEF MdpOK, GraphOK
<1>2. PICK trace : SearchInOrder(trace, M, one, phi, psi)
  BY SearchTrace
<1>3. trace[n] \in Search(M) /\ trace[n].choice = computeSchedulerProb1E(M, one, phi, psi)
  BY <1>1, <1>2 DEF SearchInOrder
<1> HIDE DEF n
<1> QED
  BY <1>3 DEF Search, IsScheduler

(* So does the analysis in either direction.                               *)
LEMMA ProbSchedules ==
  ASSUME NEW M, MdpOK(M), NEW psi \in SUBSET StatesOf(M), NEW minimize \in BOOLEAN
  PROVE  IsScheduler(computeUntilProbabilities(M, minimize, psi).scheduler, M)
<1> DEFINE sets == QualitativeStateSets(M, minimize, StatesOf(M), psi)
<1>1. computeUntilProbabilities(M, minimize, psi).scheduler
        = extendScheduler(M, minimize, sets, StatesOf(M), psi)
  BY DEF computeUntilProbabilities
<1>2. CASE minimize = FALSE
  <2>1. extendScheduler(M, minimize, sets, StatesOf(M), psi)
          = computeSchedulerProb1E(M, sets.one, StatesOf(M), psi)
    BY <1>2 DEF extendScheduler
  <2> HIDE DEF sets
  <2> QED
    BY <1>1, <2>1, SearchSchedules
<1>3. CASE minimize = TRUE
  <2> DEFINE zero == performProb0E(M, StatesOf(M), psi)
             f == [s \in StatesOf(M) |-> IF s \in zero THEN StayingRow(M, s, zero) ELSE 1]
  <2>1. sets.zero = zero
    BY <1>3 DEF QualitativeStateSets, performProb01Min
  <2>2. extendScheduler(M, minimize, sets, StatesOf(M), psi) = f
    <3> HIDE DEF sets, zero
    <3> QED
      BY <1>3, <2>1 DEF extendScheduler
  <2>3. IsGreater0A(performProbGreater0A(M, StatesOf(M), psi), M, StatesOf(M), psi)
    BY Greater0AIsLeast DEF MdpOK
  <2>4. ASSUME NEW s \in StatesOf(M)
        PROVE  /\ Rows(M, s) \subseteq Nat /\ 1 \in Rows(M, s)
               /\ s \in zero => StayingRow(M, s, zero) \in Rows(M, s)
    <3>1. M.rows[s] \in Seq(SUBSET StatesOf(M)) /\ 1 \in Rows(M, s)
      BY DEF MdpOK
    <3>2. Rows(M, s) \subseteq Nat
      BY <3>1 DEF Rows
    <3>3. s \in zero => \E r \in Rows(M, s) : M.rows[s][r] \subseteq zero
      BY <2>3 DEF IsGreater0A, performProb0E, Meets, MdpOK, GraphOK
    <3> HIDE DEF zero
    <3> QED
      BY <3>1, <3>2, <3>3, StayingRowStays
  <2> HIDE DEF zero, sets
  <2> QED
    BY <1>1, <2>2, <2>4 DEF IsScheduler
<1> QED
  BY <1>2, <1>3

-----------------------------------------------------------------------------
(***************************************************************************)
(* The verdict on a constraint, from the bounds in both directions.        *)
(***************************************************************************)
LEMMA VerdictOfBounds ==
  ASSUME NEW M, NEW c, NEW prop, prop = sketch.constraint[c], NEW P, NEW Q,
         P = computeUntilProbabilities(M, prop.minimizing, Target(M)),
         Q = computeUntilProbabilities(M, ~ prop.minimizing, Target(M))
  PROVE  /\ c \notin HyperConstraint =>
              Check(M, c).feasibility = IF ~ Holds(prop, P) THEN "False"
                                        ELSE IF Holds(prop, Q) THEN "True" ELSE "None"
         /\ c \in HyperConstraint =>
              Check(M, c).feasibility
                = IF ~ Compare(prop, ValueAt(P, prop.state), ValueAt(Q, prop.other_state)) THEN "False"
                  ELSE IF Compare(prop, ValueAt(Q, prop.state), ValueAt(P, prop.other_state)) THEN "True"
                  ELSE "None"
<1>1. /\ Decided("False").feasibility = "False" /\ Decided("True").feasibility = "True"
  BY DEF Decided
<1>2. UndecidedProperty(M, prop, P).feasibility = "None"
  BY DEF UndecidedProperty
<1>3. UndecidedHyperproperty(M, prop, P, Q).feasibility = "None"
  BY DEF UndecidedHyperproperty
<1>4. CASE c \notin HyperConstraint
  <2>1. Check(M, c) = IF ~ Holds(prop, P) THEN Decided("False")
                      ELSE IF Holds(prop, Q) THEN Decided("True")
                      ELSE UndecidedProperty(M, prop, P)
    BY <1>4 DEF Check, check_property
  <2> QED
    BY <1>1, <1>2, <1>4, <2>1
<1>5. CASE c \in HyperConstraint
  <2>1. Check(M, c)
          = IF ~ Compare(prop, ValueAt(P, prop.state), ValueAt(Q, prop.other_state)) THEN Decided("False")
            ELSE IF Compare(prop, ValueAt(Q, prop.state), ValueAt(P, prop.other_state)) THEN Decided("True")
            ELSE UndecidedHyperproperty(M, prop, P, Q)
    BY <1>5 DEF Check, check_hyperproperty
  <2> QED
    BY <1>1, <1>3, <1>5, <2>1
<1> QED
  BY <1>4, <1>5

(* What the values of an assignment's chain are, with those of its family. *)
MemberValues(M, a) ==
  LET C     == AssignmentChain(sketch, a)
      least == computeUntilProbabilities(M, TRUE, Target(M))
      most  == computeUntilProbabilities(M, FALSE, Target(M))
  IN  \A s \in StatesOf(M) :
        /\ s \in Never(C, sketch.target) <=> s \notin Surely(C, sketch.target)
        /\ s \in most.zero => s \notin Surely(C, sketch.target)
        /\ s \notin Surely(C, sketch.target) => s \in least.zero
        /\ s \in Surely(C, sketch.target) => s \in most.one
        /\ s \in least.one => s \in Surely(C, sketch.target)

(* If all assignments have values 0 or 1, then so have the members of a    *)
(* family in their chains.                                                 *)
LEMMA MembersHaveValues ==
  ASSUME sketch \in Sketches, Matched(sketch), sat = SatOf(sketch), sat # None,
         NEW F \in Family, NEW M, IsModel(M, F), NEW a \in Members(F)
  PROVE  /\ MemberValues(M, a)
         /\ \A c \in Constraint :
              a \in sat[c] <=> Satisfies(sketch, c, Surely(AssignmentChain(sketch, a), sketch.target))
<1> DEFINE C == AssignmentChain(sketch, a)
           target == sketch.target
           ValuesOf(b) == Outcome01(AssignmentChain(sketch, b), target)
           outcome == [b \in Assignment |-> ValuesOf(b)]
<1>1. a \in Assignment
  BY DEF Members, Assignment, Family
<1>2. /\ \A b \in Assignment : outcome[b].never \cup outcome[b].surely = DOMAIN sketch.rows
      /\ sat = [c \in Constraint |-> {b \in Assignment : Satisfies(sketch, c, outcome[b].surely)}]
  <2> HIDE DEF ValuesOf
  <2>1. SatOf(sketch)
          = IF \A b \in Assignment : outcome[b].never \cup outcome[b].surely = DOMAIN sketch.rows
            THEN [c \in Constraint |-> {b \in Assignment : Satisfies(sketch, c, outcome[b].surely)}]
            ELSE None
    BY DEF SatOf, ValuesOf
  <2> HIDE DEF outcome
  <2> QED
    BY <2>1
<1>3. outcome[a].never = Never(C, target) /\ outcome[a].surely = Surely(C, target)
  BY <1>1 DEF Outcome01
<1> HIDE DEF outcome
<1>4. Never(C, target) \cup Surely(C, target) = DOMAIN sketch.rows
  BY <1>1, <1>2, <1>3
<1>5. \A c \in Constraint : a \in sat[c] <=> Satisfies(sketch, c, Surely(C, target))
  BY <1>1, <1>2, <1>3
<1>6. ChainIn(C, M) /\ GraphOK(M) /\ IsChain(C) /\ StatesOf(M) \subseteq DOMAIN sketch.rows
      /\ Target(M) = target \cap StatesOf(M)
  <2>1. ChainIn(C, M)
    BY AssignmentChainIn
  <2>2. GraphOK(M) /\ StatesOf(M) \subseteq DOMAIN sketch.rows
    BY DEF IsModel, MdpOK
  <2>3. Target(M) = target \cap StatesOf(M)
    BY DEF Target
  <2> HIDE DEF C, target
  <2> QED
    BY <2>1, <2>2, <2>3 DEF ChainIn
<1>7. ASSUME NEW s \in StatesOf(M)
      PROVE  /\ s \in Never(C, target) <=> s \notin Surely(C, target)
             /\ s \in computeUntilProbabilities(M, FALSE, Target(M)).zero => s \in Never(C, target)
             /\ s \in Never(C, target) => s \in computeUntilProbabilities(M, TRUE, Target(M)).zero
             /\ s \in Surely(C, target) => s \in computeUntilProbabilities(M, FALSE, Target(M)).one
             /\ s \in computeUntilProbabilities(M, TRUE, Target(M)).one => s \in Surely(C, target)
  <2>1. s \in Never(C, target) <=> s \notin Surely(C, target)
    BY <1>4, <1>6, SurelyNotNever
  <2> HIDE DEF C, target
  <2> QED
    BY <1>6, <2>1, BoundsOfChain
<1> HIDE DEF C, target
<1>8. MemberValues(M, a)
  BY <1>7 DEF MemberValues, C, target
<1> QED
  BY <1>5, <1>8 DEF C, target

(* The values of a single assignment are the same in both directions.      *)
LEMMA SingleValues ==
  ASSUME sketch \in Sketches, Matched(sketch), sat = SatOf(sketch), sat # None,
         NEW F \in Family, NEW M, IsModel(M, F), Singleton(F)
  PROVE  /\ computeUntilProbabilities(M, TRUE, Target(M)).zero
              = computeUntilProbabilities(M, FALSE, Target(M)).zero
         /\ computeUntilProbabilities(M, TRUE, Target(M)).one
              = computeUntilProbabilities(M, FALSE, Target(M)).one
<1> DEFINE a == [h \in Hole |-> CHOOSE o \in F[h] : TRUE]
           C == AssignmentChain(sketch, a)
           S == StatesOf(M)
           psi == Target(M)
<1>1. \A h \in Hole : F[h] # {} /\ F[h] \subseteq Option /\ F[h] = {a[h]}
  <2>1. ASSUME NEW h \in Hole
        PROVE  F[h] # {} /\ F[h] \subseteq Option /\ F[h] = {a[h]}
    <3>1. F[h] # {} /\ F[h] \subseteq Option /\ IsFiniteSet(F[h]) /\ Cardinality(F[h]) = 1
      BY OptionsAssumption, FS_Subset DEF Family, Singleton, Trivial
    <3>2. PICK x : F[h] = {x}
      BY <3>1, FS_Singleton
    <3> QED
      BY <3>1, <3>2
  <2> QED
    BY <2>1
<1>2. a \in Members(F)
  <2>1. \A h \in Hole : a[h] \in F[h] /\ a[h] \in Option
    <3> HIDE DEF a
    <3> QED
      BY <1>1
  <2>2. a \in [Hole -> Option]
    BY <2>1
  <2> HIDE DEF a
  <2> QED
    BY <2>1, <2>2 DEF Members
<1> HIDE DEF a
<1>3. MemberValues(M, a)
  BY <1>2, MembersHaveValues
<1>4. ChainIn(C, M) /\ GraphOK(M) /\ psi = sketch.target \cap S /\ S \subseteq DOMAIN sketch.rows
  <2>1. ChainIn(C, M)
    BY <1>2, AssignmentChainIn
  <2>2. psi = sketch.target \cap S
    BY DEF Target
  <2> HIDE DEF C, psi
  <2> QED
    BY <2>1, <2>2 DEF IsModel, MdpOK
<1>5. ASSUME NEW s \in S, NEW r \in Rows(M, s)
      PROVE  M.rows[s][r] = C.rows[s][1]
  <2>1. PICK i \in Selected(F)[s] : RowIs(M, s, r, i)
    BY DEF IsModel
  <2>2. s \in DOMAIN sketch.rows /\ i \in DOMAIN sketch.rows[s]
    BY <1>4, <2>1 DEF Selected
  <2>3. CASE sketch.hole[s] = 0
    <3>1. i = 1
      BY <2>2, <2>3, SketchType
    <3>2. C.rows[s] = sketch.rows[s]
      BY <2>2, <2>3 DEF AssignmentChain
    <3> QED
      BY <2>1, <3>1, <3>2 DEF RowIs
  <2>4. CASE sketch.hole[s] # 0
    <3>1. sketch.hole[s] \in Hole
      BY <2>2, <2>4, SketchType
    <3>2. sketch.options[s][i] = a[sketch.hole[s]]
      BY <1>1, <2>1, <2>2, <2>4, <3>1 DEF Selected
    <3>3. PICK j \in DOMAIN sketch.rows[s] :
            /\ C.rows[s][1] = sketch.rows[s][j]
            /\ sketch.options[s][j] = a[sketch.hole[s]]
      BY <1>2, <2>2, <2>4, AssignmentChainIn
    <3>4. DOMAIN sketch.options[s] = DOMAIN sketch.rows[s] /\ IsInjective(sketch.options[s])
      BY <2>2, <2>4, SketchesAssumption DEF Injection
    <3>5. i = j
      BY <2>2, <3>2, <3>3, <3>4 DEF IsInjective
    <3> QED
      BY <2>1, <3>3, <3>5 DEF RowIs
  <2> QED
    BY <2>3, <2>4
<1>6. ASSUME NEW s \in S
      PROVE  /\ s \in Never(C, sketch.target) => s \in performProb0A(M, S, psi)
             /\ s \in performProb0E(M, S, psi) => s \in Never(C, sketch.target)
             /\ s \in performProb1E(M, S, psi) => s \notin Never(C, sketch.target)
             /\ s \in Surely(C, sketch.target)
                  => s \in performProb0A(M, S \ psi, performProb0E(M, S, psi))
  <2>1. \A t \in S : \A r \in Rows(M, t) : M.rows[t][r] = C.rows[t][1]
    BY <1>5
  <2> HIDE DEF C, psi
  <2> QED
    BY <1>4, <2>1, BoundsOfSingleChain
<1>7. ASSUME NEW s \in S
      PROVE  /\ s \in Never(C, sketch.target) <=> s \notin Surely(C, sketch.target)
             /\ s \in computeUntilProbabilities(M, FALSE, psi).zero => s \notin Surely(C, sketch.target)
             /\ s \notin Surely(C, sketch.target) => s \in computeUntilProbabilities(M, TRUE, psi).zero
             /\ s \in Surely(C, sketch.target) => s \in computeUntilProbabilities(M, FALSE, psi).one
             /\ s \in computeUntilProbabilities(M, TRUE, psi).one => s \in Surely(C, sketch.target)
  BY <1>3 DEF MemberValues
<1>8. /\ computeUntilProbabilities(M, FALSE, psi).zero = performProb0A(M, S, psi)
      /\ computeUntilProbabilities(M, FALSE, psi).one = performProb1E(M, S, psi)
      /\ computeUntilProbabilities(M, TRUE, psi).zero = performProb0E(M, S, psi)
      /\ computeUntilProbabilities(M, TRUE, psi).one
           = performProb0A(M, S \ psi, performProb0E(M, S, psi))
  BY UntilValues
<1>9. /\ performProb0A(M, S, psi) \subseteq S /\ performProb0E(M, S, psi) \subseteq S
      /\ performProb1E(M, S, psi) \subseteq S
      /\ performProb0A(M, S \ psi, performProb0E(M, S, psi)) \subseteq S
  <2>1. psi \in SUBSET S
    BY <1>4
  <2>2. performProb1E(M, S, psi) \subseteq S
    BY <1>4, <2>1, Prob1EIsGreatest DEF IsProb1E
  <2> QED
    BY <2>2 DEF performProb0A, performProb0E
<1> HIDE DEF S, C, psi
<1>10. /\ computeUntilProbabilities(M, TRUE, psi).zero = computeUntilProbabilities(M, FALSE, psi).zero
       /\ computeUntilProbabilities(M, TRUE, psi).one = computeUntilProbabilities(M, FALSE, psi).one
  <2> DEFINE ln == computeUntilProbabilities(M, TRUE, psi).zero
             mn == computeUntilProbabilities(M, FALSE, psi).zero
             ls == computeUntilProbabilities(M, TRUE, psi).one
             ms == computeUntilProbabilities(M, FALSE, psi).one
             N == Never(C, sketch.target)
             Y == Surely(C, sketch.target)
  <2>1. ln \subseteq S /\ mn \subseteq S /\ ls \subseteq S /\ ms \subseteq S
    BY <1>8, <1>9
  <2>2. \A s \in S : /\ s \in N => s \in mn
                     /\ s \in ln => s \in N
                     /\ s \in ms => s \notin N
                     /\ s \in Y => s \in ls
    BY <1>6, <1>8
  <2>3. \A s \in S : /\ s \in N <=> s \notin Y
                     /\ s \in mn => s \notin Y
                     /\ s \notin Y => s \in ln
                     /\ s \in Y => s \in ms
                     /\ s \in ls => s \in Y
    BY <1>7
  <2> HIDE DEF ln, mn, ls, ms, N, Y
  <2>4. ln = mn /\ ls = ms
    BY <2>1, <2>2, <2>3
  <2> QED
    BY <2>4 DEF ln, mn, ls, ms
<1> QED
  BY <1>10 DEF psi

(* A comparison that the worst values pass is passed by all.               *)
LEMMA ComparesValues ==
  ASSUME NEW prop, prop.minimizing \in BOOLEAN, prop.strict \in BOOLEAN,
         NEW a \in {0, 1}, NEW b \in {0, 1}, NEW v \in {0, 1}, NEW w \in {0, 1},
         prop.minimizing => a <= v /\ w <= b,
         ~ prop.minimizing => v <= a /\ b <= w
  PROVE  Compare(prop, v, w) => Compare(prop, a, b)
<1>1. CASE prop.minimizing /\ prop.strict
  BY <1>1 DEF Compare
<1>2. CASE prop.minimizing /\ ~ prop.strict
  BY <1>2 DEF Compare
<1>3. CASE ~ prop.minimizing /\ prop.strict
  BY <1>3 DEF Compare
<1>4. CASE ~ prop.minimizing /\ ~ prop.strict
  BY <1>4 DEF Compare
<1> QED
  BY <1>1, <1>2, <1>3, <1>4

(* The verdict on a constraint of a family is right for its members.       *)
LEMMA VerdictSound ==
  ASSUME sketch \in Sketches, Matched(sketch), sat = SatOf(sketch), sat # None,
         NEW F \in Family, NEW M, IsModel(M, F), NEW c \in Constraint
  PROVE  Check(M, c).feasibility \in CheckConstraint(SketchTask, F, c)
<1> DEFINE prop == sketch.constraint[c]
           least == computeUntilProbabilities(M, TRUE, Target(M))
           most == computeUntilProbabilities(M, FALSE, Target(M))
           P == IF prop.minimizing THEN least ELSE most
           Q == IF prop.minimizing THEN most ELSE least
           Y(a) == Surely(AssignmentChain(sketch, a), sketch.target)
           V(a, s) == IF s \in Y(a) THEN 1 ELSE 0
           f == Check(M, c).feasibility
<1>1. /\ prop.minimizing \in BOOLEAN /\ prop.strict \in BOOLEAN
      /\ prop.state \in StatesOf(M) /\ prop.other_state \in StatesOf(M)
  <2>1. prop \in [minimizing : BOOLEAN, strict : BOOLEAN,
                  state : sketch.initial, other_state : sketch.initial]
    BY SketchesAssumption
  <2> HIDE DEF prop
  <2> QED
    BY <2>1 DEF IsModel
<1>2. /\ c \notin HyperConstraint =>
           f = IF ~ Holds(prop, P) THEN "False" ELSE IF Holds(prop, Q) THEN "True" ELSE "None"
      /\ c \in HyperConstraint =>
           f = IF ~ Compare(prop, ValueAt(P, prop.state), ValueAt(Q, prop.other_state)) THEN "False"
               ELSE IF Compare(prop, ValueAt(Q, prop.state), ValueAt(P, prop.other_state)) THEN "True"
               ELSE "None"
  <2>1. CASE prop.minimizing = TRUE
    <3>1. P = computeUntilProbabilities(M, prop.minimizing, Target(M))
          /\ Q = computeUntilProbabilities(M, ~ prop.minimizing, Target(M))
      BY <2>1
    <3> HIDE DEF P, Q, prop
    <3> QED
      BY <3>1, VerdictOfBounds DEF prop
  <2>2. CASE prop.minimizing = FALSE
    <3>1. P = computeUntilProbabilities(M, prop.minimizing, Target(M))
          /\ Q = computeUntilProbabilities(M, ~ prop.minimizing, Target(M))
      BY <2>2
    <3> HIDE DEF P, Q, prop
    <3> QED
      BY <3>1, VerdictOfBounds DEF prop
  <2> QED
    BY <1>1, <2>1, <2>2
<1>3. ASSUME NEW a \in Members(F), NEW s \in StatesOf(M)
      PROVE  /\ s \in most.zero => s \notin Y(a)
             /\ s \notin Y(a) => s \in least.zero
             /\ s \in Y(a) => s \in most.one
             /\ s \in least.one => s \in Y(a)
  BY MembersHaveValues DEF MemberValues
<1>4. ASSUME NEW a \in Members(F)
      PROVE  a \in sat[c] <=>
               IF c \in HyperConstraint THEN Compare(prop, V(a, prop.state), V(a, prop.other_state))
               ELSE V(a, prop.state) = (IF prop.minimizing THEN 0 ELSE 1)
  <2>1. a \in sat[c] <=> Satisfies(sketch, c, Y(a))
    BY MembersHaveValues
  <2> HIDE DEF Y
  <2> QED
    BY <2>1 DEF Satisfies
<1>5. Singleton(F) => least.zero = most.zero /\ least.one = most.one
  BY SingleValues
<1> HIDE DEF least, most, prop, f, Y
<1>6. CASE c \notin HyperConstraint
  <2>1. ASSUME NEW a \in Members(F)
        PROVE  /\ a \in sat[c] => Holds(prop, P)
               /\ Holds(prop, Q) => a \in sat[c]
    BY <1>1, <1>3, <1>4, <1>6 DEF Holds
  <2>2. Singleton(F) => (Holds(prop, P) <=> Holds(prop, Q))
    BY <1>1, <1>5 DEF Holds
  <2> HIDE DEF P, Q
  <2> QED
    BY <1>2, <1>6, <2>1, <2>2 DEF CheckConstraint, Feasibility, SketchTask, f
<1>7. CASE c \in HyperConstraint
  <2>1. \A s : ValueAt(P, s) \in {0, 1} /\ ValueAt(Q, s) \in {0, 1}
    BY DEF ValueAt
  <2>2. ASSUME NEW a \in Members(F), NEW s \in StatesOf(M)
        PROVE  /\ V(a, s) \in {0, 1}
               /\ prop.minimizing => ValueAt(P, s) <= V(a, s) /\ V(a, s) <= ValueAt(Q, s)
               /\ ~ prop.minimizing => ValueAt(Q, s) <= V(a, s) /\ V(a, s) <= ValueAt(P, s)
    BY <1>3 DEF ValueAt
  <2>3. Singleton(F) => \A s : ValueAt(P, s) = ValueAt(Q, s)
    BY <1>5 DEF ValueAt
  <2> HIDE DEF P, Q, V
  <2>4. ASSUME NEW a \in Members(F)
        PROVE  /\ a \in sat[c] => Compare(prop, ValueAt(P, prop.state), ValueAt(Q, prop.other_state))
               /\ Compare(prop, ValueAt(Q, prop.state), ValueAt(P, prop.other_state)) => a \in sat[c]
    <3>1. /\ V(a, prop.state) \in {0, 1} /\ V(a, prop.other_state) \in {0, 1}
      BY <1>1, <2>2
    <3>2. /\ prop.minimizing => /\ ValueAt(P, prop.state) <= V(a, prop.state)
                                /\ V(a, prop.other_state) <= ValueAt(Q, prop.other_state)
                                /\ V(a, prop.state) <= ValueAt(Q, prop.state)
                                /\ ValueAt(P, prop.other_state) <= V(a, prop.other_state)
          /\ ~ prop.minimizing => /\ V(a, prop.state) <= ValueAt(P, prop.state)
                                  /\ ValueAt(Q, prop.other_state) <= V(a, prop.other_state)
                                  /\ ValueAt(Q, prop.state) <= V(a, prop.state)
                                  /\ V(a, prop.other_state) <= ValueAt(P, prop.other_state)
      BY <1>1, <2>2
    <3>3. Compare(prop, V(a, prop.state), V(a, prop.other_state))
            => Compare(prop, ValueAt(P, prop.state), ValueAt(Q, prop.other_state))
      BY <1>1, <2>1, <3>1, <3>2, ComparesValues
    <3>4. Compare(prop, ValueAt(Q, prop.state), ValueAt(P, prop.other_state))
            => Compare(prop, V(a, prop.state), V(a, prop.other_state))
      BY <1>1, <2>1, <3>1, <3>2, ComparesValues
    <3> QED
      BY <1>4, <1>7, <3>3, <3>4
  <2>5. Singleton(F) =>
          (Compare(prop, ValueAt(P, prop.state), ValueAt(Q, prop.other_state))
             <=> Compare(prop, ValueAt(Q, prop.state), ValueAt(P, prop.other_state)))
    BY <2>3
  <2> QED
    BY <1>2, <1>7, <2>4, <2>5 DEF CheckConstraint, Feasibility, SketchTask, f
<1> QED
  BY <1>6, <1>7

-----------------------------------------------------------------------------
(***************************************************************************)
(* Selections and scores.                                                  *)
(***************************************************************************)
LEMMA OptionOfRow ==
  ASSUME sketch \in Sketches, NEW F, NEW M, IsModel(M, F),
         NEW h \in Hole, NEW s \in StatesOfHole(M, h), NEW r \in Rows(M, s)
  PROVE  M.options[s][r] \in F[h]
<1>1. s \in StatesOf(M) /\ sketch.hole[s] = h /\ h # 0
  BY SketchesAssumption DEF StatesOfHole
<1>2. PICK i \in Selected(F)[s] : RowIs(M, s, r, i)
  BY <1>1 DEF IsModel
<1>3. s \in DOMAIN sketch.rows
  BY <1>1 DEF IsModel
<1> QED
  BY <1>1, <1>2, <1>3 DEF RowIs, Selected

(* The chain of a scheduler has the states its initial states reach.       *)
LEMMA InducedStates ==
  ASSUME NEW M, GraphOK(M), M.initial \subseteq StatesOf(M), NEW f, IsScheduler(f, M)
  PROVE  /\ GraphOK(Induced(M, f)) /\ M.initial \subseteq StatesOf(Induced(M, f))
         /\ StatesOf(Induced(M, f)) \subseteq StatesOf(M)
         /\ \A s \in StatesOf(Induced(M, f)) : /\ Rows(Induced(M, f), s) = {1}
                                               /\ Induced(M, f).rows[s][1] = M.rows[s][f[s]]
<1> DEFINE sel == [s \in StatesOf(M) |-> {f[s]}]
           S == Subsystem(M, sel)
           C == Induced(M, f)
           kept == new_to_old(M, sel)
<1>1. \A s \in StatesOf(M) : sel[s] \subseteq Rows(M, s) /\ sel[s] = {f[s]} /\ f[s] \in Nat
  BY DEF IsScheduler
<1> HIDE DEF sel
<1>2. IsReached(S, M, M.initial, sel)
  BY <1>1, ReachedStates DEF Subsystem
<1> HIDE DEF S
<1>3. /\ S \in SUBSET StatesOf(M) /\ M.initial \subseteq S
      /\ \A s \in S : M.rows[s][f[s]] \subseteq S
  BY <1>1, <1>2 DEF IsReached
<1>4. ASSUME NEW s \in S
      PROVE  /\ kept[s] = Ascending({f[s]}) /\ DOMAIN kept[s] = {1} /\ kept[s][1] = f[s]
  <2>1. kept[s] = Ascending({f[s]})
    BY <1>1, <1>3 DEF new_to_old, S
  <2>2. IsFiniteSet({f[s]}) /\ Cardinality({f[s]}) = 1 /\ {f[s]} \in SUBSET Nat
    BY <1>1, <1>3, FS_Singleton
  <2>3. Ascending({f[s]}) \in [1..1 -> {f[s]}]
    BY <2>2, AscendingSet
  <2>4. 1..1 = {1}
    OBVIOUS
  <2> QED
    BY <2>1, <2>3, <2>4
<1>5. DOMAIN kept = S
  BY DEF new_to_old, S
<1>6. C.rows = [s \in S |-> [i \in DOMAIN kept[s] |-> M.rows[s][kept[s][i]]]]
  <2>1. C.rows = [s \in DOMAIN kept |-> [i \in DOMAIN kept[s] |-> M.rows[s][kept[s][i]]]]
    BY DEF Induced, buildSubsystem, sel
  <2> QED
    BY <1>5, <2>1
<1> HIDE DEF C, kept
<1>7. StatesOf(C) = S /\ \A s \in S : Rows(C, s) = {1} /\ C.rows[s][1] = M.rows[s][f[s]]
  <2>1. StatesOf(C) = S
    BY <1>6 DEF StatesOf
  <2>2. ASSUME NEW s \in S
        PROVE  Rows(C, s) = {1} /\ C.rows[s][1] = M.rows[s][f[s]]
    <3>1. C.rows[s] = [i \in DOMAIN kept[s] |-> M.rows[s][kept[s][i]]]
      BY <1>6
    <3>2. DOMAIN kept[s] = {1} /\ kept[s][1] = f[s]
      BY <1>4
    <3>3. DOMAIN C.rows[s] = DOMAIN kept[s]
      BY <3>1
    <3>4. 1 \in DOMAIN kept[s] => C.rows[s][1] = M.rows[s][kept[s][1]]
      BY <3>1
    <3> QED
      BY <3>2, <3>3, <3>4 DEF Rows
  <2> QED
    BY <2>1, <2>2
<1>8. IsFiniteSet(S)
  BY <1>3, FS_Subset DEF GraphOK
<1>9. GraphOK(C)
  BY <1>3, <1>7, <1>8 DEF GraphOK
<1> QED
  BY <1>3, <1>7, <1>9 DEF C

(* The states a scheduler visits are states of its chain.                  *)
LEMMA VisitedInChain ==
  ASSUME NEW M, GraphOK(M), NEW i \in M.initial, M.initial \subseteq StatesOf(M),
         NEW f, IsScheduler(f, M), NEW minimizing
  PROVE  VisitedStates(M, f, i, minimizing) \subseteq StatesOf(Induced(M, f))
<1> DEFINE C == Induced(M, f)
<1>1. GraphOK(C) /\ i \in StatesOf(C)
  BY InducedStates
<1> HIDE DEF C
<1>2. ReachableFrom(C, i) \subseteq StatesOf(C)
  <2>1. \A s \in StatesOf(C) : AllRows(C)[s] \subseteq Rows(C, s)
    BY DEF AllRows
  <2>2. IsReached(ReachableFrom(C, i), C, {i}, AllRows(C))
    BY <1>1, <2>1, ReachedStates DEF ReachableFrom
  <2> QED
    BY <2>2 DEF IsReached
<1>3. /\ computeExpectedVisitingTimes(C, i).finite \subseteq ReachableFrom(C, i)
      /\ computeExpectedVisitingTimes(C, i).infinite \subseteq ReachableFrom(C, i)
  BY DEF computeExpectedVisitingTimes
<1>4. VisitedStates(M, f, i, minimizing)
        \subseteq computeExpectedVisitingTimes(C, i).finite
                    \cup computeExpectedVisitingTimes(C, i).infinite
  BY DEF VisitedStates, C
<1> QED
  BY <1>2, <1>3, <1>4 DEF C

(* Selections are options of the family, of holes with states in the       *)
(* model; a relevant hole that is visited has one.                         *)
LEMMA SelectionOfScheduler ==
  ASSUME sketch \in Sketches, NEW F, NEW M, IsModel(M, F),
         NEW f, IsScheduler(f, M), NEW i \in sketch.initial, NEW h \in Hole, NEW minimizing
  PROVE  LET selection == scheduler_selection(M, f, i)
         IN  /\ selection[h] \subseteq F[h]
             /\ selection[h] # {} => \E s \in StatesOfHole(M, h) : \E r \in Rows(M, s) :
                                       M.options[s][r] \in selection[h]
             /\ (i \in sketch.initial_states[h]
                   /\ \E s \in VisitedStates(M, f, i, minimizing) : s \in StatesOfHole(M, h))
                  => selection[h] # {}
<1> DEFINE C == Induced(M, f)
           used == StatesOf(C) \cap StatesOfHole(M, h)
<1>1. scheduler_selection(M, f, i)[h]
        = IF i \notin sketch.initial_states[h] THEN {} ELSE {M.options[s][f[s]] : s \in used}
  BY DEF scheduler_selection
<1>2. GraphOK(M) /\ i \in M.initial /\ M.initial \subseteq StatesOf(M)
  BY DEF IsModel, MdpOK
<1>3. \A s \in used : M.options[s][f[s]] \in F[h] /\ f[s] \in Rows(M, s)
  <2>1. \A s \in used : s \in StatesOf(M) /\ f[s] \in Rows(M, s)
    BY DEF StatesOfHole, IsScheduler
  <2> QED
    BY <2>1, OptionOfRow
<1>4. \A s \in VisitedStates(M, f, i, minimizing) : s \in StatesOfHole(M, h) => s \in used
  BY <1>2, VisitedInChain
<1> HIDE DEF used
<1>5. used \subseteq StatesOfHole(M, h)
  BY DEF used
<1> DEFINE selection == scheduler_selection(M, f, i)
<1> HIDE DEF selection
<1>6. selection[h] = IF i \notin sketch.initial_states[h] THEN {} ELSE {M.options[s][f[s]] : s \in used}
  BY <1>1 DEF selection
<1>7. selection[h] \subseteq F[h]
  BY <1>3, <1>6
<1>8. ASSUME selection[h] # {}
      PROVE  \E s \in StatesOfHole(M, h) : \E r \in Rows(M, s) : M.options[s][r] \in selection[h]
  <2>1. PICK s \in used : M.options[s][f[s]] \in selection[h]
    BY <1>6, <1>8
  <2> QED
    BY <1>3, <1>5, <2>1
<1>9. ASSUME i \in sketch.initial_states[h],
             \E s \in VisitedStates(M, f, i, minimizing) : s \in StatesOfHole(M, h)
      PROVE  selection[h] # {}
  BY <1>4, <1>6, <1>9
<1> QED
  BY <1>7, <1>8, <1>9 DEF selection

(* The values of rows are ranked by three numbers.                         *)
LEMMA ValueOfRow ==
  ASSUME sketch \in Sketches, NEW F, NEW M, IsModel(M, F), NEW s \in StatesOf(M), NEW r \in Rows(M, s),
         NEW result
  PROVE  choice_value(M.rows[s][r], result) \in {0, 1, 2}
<1> DEFINE row == M.rows[s][r]
           a == Cardinality(row \cap result.one)
           b == Cardinality(row)
<1>1. b \in {1, 2} /\ IsFiniteSet(row)
  <2>1. PICK i \in Selected(F)[s] : row = sketch.rows[s][i]
    BY DEF IsModel, RowIs
  <2>2. s \in DOMAIN sketch.rows /\ i \in DOMAIN sketch.rows[s]
    BY <2>1 DEF IsModel, Selected
  <2>3. Cardinality(sketch.rows[s][i]) \in 1..2
    BY <2>2, SketchesAssumption
  <2>4. IsFiniteSet(row)
    BY FS_Subset DEF IsModel, MdpOK, GraphOK
  <2> HIDE DEF row
  <2> QED
    BY <2>1, <2>3, <2>4
<1>2. a \in Nat /\ a <= b
  <2>1. row \cap result.one \in SUBSET row
    OBVIOUS
  <2> HIDE DEF row
  <2> QED
    BY <1>1, <2>1, FS_Subset, FS_CardinalityType
<1>3. choice_value(row, result) = (2 * a) \div b
  BY DEF choice_value
<1> HIDE DEF a, b, row
<1>4. CASE b = 1
  <2>1. (a = 0 \/ a = 1) /\ (2 * a) \div 1 = 2 * a
    BY <1>2, <1>4
  <2> QED
    BY <1>3, <1>4, <2>1 DEF row
<1>5. CASE b = 2
  <2>1. (a = 0 \/ a = 1 \/ a = 2) /\ (2 * a) \div 2 = a
    BY <1>2, <1>5
  <2> QED
    BY <1>3, <1>5, <2>1 DEF row
<1> QED
  BY <1>1, <1>4, <1>5

(* The scores of holes, and the options that rank lowest and highest.      *)
ScoresOK(scores, F, holes) ==
  /\ scores.scored \subseteq holes /\ scores.positive \subseteq scores.scored
  /\ \A h \in scores.scored :
       /\ scores.lowest[h] \subseteq F[h] /\ scores.lowest[h] # {}
       /\ scores.highest[h] \subseteq F[h] /\ scores.highest[h] # {}

(* Scores are about holes that are asked for; positive ones are visited;   *)
(* a hole with an assigned option in the model is scored.                  *)
LEMMA ScoresType ==
  ASSUME sketch \in Sketches, NEW F, NEW M, IsModel(M, F),
         NEW result, NEW visited, NEW holes \in SUBSET Hole, NEW assigned,
         NEW scores, scores = estimate_scheduler_difference(M, result, visited, holes, assigned)
  PROVE  /\ ScoresOK(scores, F, holes)
         /\ \A h \in scores.positive : \E s \in visited : s \in StatesOfHole(M, h)
         /\ \A h \in holes : (\E s \in StatesOfHole(M, h) : \E r \in Rows(M, s) :
                                M.options[s][r] \in assigned[h]) => h \in scores.scored
<1> DEFINE Counted(s) == {r \in Rows(M, s) : M.options[s][r] \in assigned[sketch.hole[s]]}
           Value(s, r) == choice_value(M.rows[s][r], result)
           Values(s)  == {Value(s, r) : r \in Counted(s)}
           Differs(s) == s \in visited /\ Cardinality(Values(s)) > 1
           Affected(h) == {s \in StatesOfHole(M, h) : Counted(s) # {}}
           scored   == {h \in holes : Affected(h) # {}}
           positive == {h \in scored : \E s \in Affected(h) : Differs(s)}
           Ranked(h) == {s \in Affected(h) : h \in positive => Differs(s)}
           Least(s) == {i \in Counted(s) : \A j \in Counted(s) : Value(s, i) <= Value(s, j)}
           Most(s) == {i \in Counted(s) : \A j \in Counted(s) : Value(s, i) >= Value(s, j)}
           Worst(s) == {M.options[s][r] : r \in Least(s)}
           Best(s) == {M.options[s][r] : r \in Most(s)}
<1>1. /\ scores.scored = scored /\ scores.positive = positive
      /\ scores.lowest = [h \in scored |-> UNION {Worst(s) : s \in Ranked(h)}]
      /\ scores.highest = [h \in scored |-> UNION {Best(s) : s \in Ranked(h)}]
  BY DEF estimate_scheduler_difference
<1>2. ASSUME NEW s \in StatesOf(M), Counted(s) # {}
      PROVE  Least(s) # {} /\ Most(s) # {}
  <2>1. \A i \in Counted(s) : Value(s, i) \in {0, 1, 2}
    BY ValueOfRow
  <2> HIDE DEF Counted, Value
  <2>2. \E i \in Counted(s) : \A j \in Counted(s) : Value(s, i) <= Value(s, j)
    <3>1. CASE \E i \in Counted(s) : Value(s, i) = 0
      BY <2>1, <3>1
    <3>2. CASE (\A i \in Counted(s) : Value(s, i) # 0) /\ \E i \in Counted(s) : Value(s, i) = 1
      BY <2>1, <3>2
    <3>3. CASE (\A i \in Counted(s) : Value(s, i) # 0) /\ \A i \in Counted(s) : Value(s, i) # 1
      BY <1>2, <2>1, <3>3
    <3> QED
      BY <3>1, <3>2, <3>3
  <2>3. \E i \in Counted(s) : \A j \in Counted(s) : Value(s, i) >= Value(s, j)
    <3>1. CASE \E i \in Counted(s) : Value(s, i) = 2
      BY <2>1, <3>1
    <3>2. CASE (\A i \in Counted(s) : Value(s, i) # 2) /\ \E i \in Counted(s) : Value(s, i) = 1
      BY <2>1, <3>2
    <3>3. CASE (\A i \in Counted(s) : Value(s, i) # 2) /\ \A i \in Counted(s) : Value(s, i) # 1
      BY <1>2, <2>1, <3>3
    <3> QED
      BY <3>1, <3>2, <3>3
  <2> QED
    BY <2>2, <2>3
<1>3. ASSUME NEW h \in scored
      PROVE  Ranked(h) # {}
  <2> HIDE DEF Affected, Differs
  <2>1. PICK s \in Affected(h) : TRUE
    OBVIOUS
  <2>2. CASE h \in positive
    BY <2>2
  <2>3. CASE h \notin positive
    BY <2>1, <2>3
  <2> QED
    BY <2>2, <2>3
<1>4. ASSUME NEW h \in scored, NEW s \in Ranked(h)
      PROVE  /\ h \in Hole /\ s \in StatesOfHole(M, h) /\ s \in StatesOf(M) /\ Counted(s) # {}
             /\ Worst(s) \subseteq F[h] /\ Best(s) \subseteq F[h]
  <2>1. h \in Hole /\ s \in StatesOfHole(M, h) /\ s \in StatesOf(M) /\ Counted(s) # {}
    BY DEF StatesOfHole
  <2>2. \A r \in Rows(M, s) : M.options[s][r] \in F[h]
    BY <2>1, OptionOfRow
  <2>3. Least(s) \subseteq Rows(M, s) /\ Most(s) \subseteq Rows(M, s)
    OBVIOUS
  <2>4. Worst(s) \subseteq F[h] /\ Best(s) \subseteq F[h]
    <3> HIDE DEF Least, Most
    <3> QED
      BY <2>2, <2>3
  <2> QED
    BY <2>1, <2>4
<1>5. ASSUME NEW h \in scored
      PROVE  /\ scores.lowest[h] \subseteq F[h] /\ scores.lowest[h] # {}
             /\ scores.highest[h] \subseteq F[h] /\ scores.highest[h] # {}
  <2> DEFINE low == UNION {Worst(s) : s \in Ranked(h)}
             high == UNION {Best(s) : s \in Ranked(h)}
  <2>1. PICK t \in Ranked(h) : TRUE
    BY <1>3
  <2>2. Least(t) # {} /\ Most(t) # {}
    <3>1. t \in StatesOf(M) /\ Counted(t) # {}
      BY <1>4
    <3> HIDE DEF Least, Most, Counted
    <3> QED
      BY <1>2, <3>1
  <2>3. Worst(t) # {} /\ Best(t) # {}
    <3> HIDE DEF Least, Most
    <3> QED
      BY <2>2
  <2> HIDE DEF Worst, Best, Ranked
  <2>4. low \subseteq F[h] /\ low # {} /\ high \subseteq F[h] /\ high # {}
    BY <1>4, <2>3
  <2>5. scores.lowest[h] = low /\ scores.highest[h] = high
    <3> HIDE DEF scored
    <3> QED
      BY <1>1
  <2> HIDE DEF low, high
  <2> QED
    BY <2>4, <2>5
<1>6. ScoresOK(scores, F, holes)
  <2>1. scored \subseteq holes /\ positive \subseteq scored
    OBVIOUS
  <2> HIDE DEF scored, positive, Worst, Best, Ranked
  <2>2. scores.scored = scored /\ scores.positive = positive
    BY <1>1
  <2>3. ASSUME NEW h \in scores.scored
        PROVE  /\ scores.lowest[h] \subseteq F[h] /\ scores.lowest[h] # {}
               /\ scores.highest[h] \subseteq F[h] /\ scores.highest[h] # {}
    BY <1>5, <2>2
  <2> QED
    BY <2>1, <2>2, <2>3 DEF ScoresOK
<1>7. ASSUME NEW h \in positive
      PROVE  \E s \in visited : s \in StatesOfHole(M, h)
  OBVIOUS
<1>8. ASSUME NEW h \in holes, NEW s \in StatesOfHole(M, h), NEW r \in Rows(M, s),
             M.options[s][r] \in assigned[h]
      PROVE  h \in scored
  <2>1. sketch.hole[s] = h
    BY DEF StatesOfHole
  <2>2. r \in Counted(s)
    BY <1>8, <2>1
  <2> QED
    BY <2>2
<1> HIDE DEF scored, positive
<1> QED
  BY <1>1, <1>6, <1>7, <1>8

(* A hole with several selected options has several options.               *)
LEMMA InconsistentNontrivial ==
  ASSUME family \in Family, NEW selection, \A h \in Hole : selection[h] \subseteq family[h]
  PROVE  Inconsistent(selection) \subseteq Splitters(family)
<1>1. ASSUME NEW h \in Hole, Cardinality(selection[h]) > 1
      PROVE  Cardinality(family[h]) # 1
  <2>1. IsFiniteSet(family[h]) /\ selection[h] \in SUBSET family[h]
    BY OptionsAssumption, FS_Subset DEF Family
  <2>2. /\ Cardinality(selection[h]) <= Cardinality(family[h])
        /\ Cardinality(selection[h]) \in Nat /\ Cardinality(family[h]) \in Nat
    BY <2>1, FS_Subset, FS_CardinalityType
  <2> QED
    BY <1>1, <2>2
<1> QED
  BY <1>1 DEF Inconsistent, Splitters, Trivial

(* Holes to score: they have several options, and the selection uses some  *)
(* of them that the joint selection has as well.                           *)
PartOf(used, selection, joint) ==
  /\ used \subseteq Splitters(family)
  /\ \A h \in used : selection[h] # {} /\ selection[h] \subseteq joint[h]

(* The scores of these holes.                                              *)
ScoresFit(scores, used, selection) ==
  /\ ScoresOK(scores, family, Splitters(family))
  /\ used # {} => scores.scored \subseteq used /\ scores.scored # {}
  /\ \A h \in scores.positive : selection[h] # {}

(* The scores on one side of a constraint, for a selection that is part of *)
(* the joint one.                                                          *)
LEMMA ScoresOfType ==
  ASSUME sketch \in Sketches, family \in Family, NEW M, IsModel(M, family),
         NEW result, IsScheduler(result.scheduler, M), NEW minimizing, NEW i, i \in sketch.initial,
         NEW selection, selection = scheduler_selection(M, result.scheduler, i),
         NEW used, NEW joint, PartOf(used, selection, joint)
  PROVE  ScoresFit(ScoresOf(M, result, minimizing, used, joint, i), used, selection)
<1> DEFINE holes == HolesToScore(used, i)
           assigned == OptionsToScore(used, joint)
           visited == VisitedStates(M, result.scheduler, i, minimizing)
           scores == ScoresOf(M, result, minimizing, used, joint, i)
<1>0. /\ used \in SUBSET Splitters(family)
      /\ \A h \in used : selection[h] # {} /\ selection[h] \subseteq joint[h]
  BY DEF PartOf
<1>1. Splitters(family) \subseteq Hole
  BY DEF Splitters
<1>2. holes \subseteq Splitters(family) /\ (used # {} => holes = used)
  BY <1>0 DEF HolesToScore, RelevantHoles, Splitters
<1>3. used # {} => \A h \in Hole : assigned[h] = joint[h]
  BY DEF OptionsToScore
<1>4. used = {} => \A h \in holes : i \in sketch.initial_states[h]
  BY DEF HolesToScore, RelevantHoles
<1>5. scores = estimate_scheduler_difference(M, result, visited, holes, assigned)
  BY DEF ScoresOf
<1> HIDE DEF holes, assigned, visited, scores
<1>6. holes \in SUBSET Hole
  BY <1>1, <1>2
<1>7. /\ ScoresOK(scores, family, holes)
      /\ \A h \in scores.positive : \E s \in visited : s \in StatesOfHole(M, h)
      /\ \A h \in holes : (\E s \in StatesOfHole(M, h) : \E r \in Rows(M, s) :
                             M.options[s][r] \in assigned[h]) => h \in scores.scored
  BY <1>5, <1>6, ScoresType
<1>8. ScoresOK(scores, family, Splitters(family)) /\ scores.positive \subseteq holes
      /\ scores.scored \subseteq holes
  BY <1>2, <1>7 DEF ScoresOK
<1>9. ASSUME NEW h \in Hole
      PROVE  /\ selection[h] # {} => \E s \in StatesOfHole(M, h) : \E r \in Rows(M, s) :
                                       M.options[s][r] \in selection[h]
             /\ (i \in sketch.initial_states[h] /\ \E s \in visited : s \in StatesOfHole(M, h))
                  => selection[h] # {}
  BY SelectionOfScheduler DEF visited
<1>10. ASSUME used # {}
       PROVE  scores.scored # {}
  <2>1. PICK h \in used : TRUE
    BY <1>10
  <2>0. h \in holes /\ h \in Hole
    BY <1>2, <1>6, <1>10
  <2>2. PICK s \in StatesOfHole(M, h) : \E r \in Rows(M, s) : M.options[s][r] \in selection[h]
    BY <1>0, <1>9, <2>0
  <2>3. \E r \in Rows(M, s) : M.options[s][r] \in assigned[h]
    BY <1>0, <1>3, <1>10, <2>0, <2>2
  <2> QED
    BY <1>7, <2>0, <2>2, <2>3
<1>11. ASSUME NEW h \in scores.positive
       PROVE  selection[h] # {}
  <2>1. h \in holes /\ h \in Hole
    BY <1>6, <1>8
  <2>2. CASE used # {}
    BY <1>0, <1>2, <2>1, <2>2
  <2>3. CASE used = {}
    BY <1>4, <1>7, <1>9, <2>1, <2>3
  <2> QED
    BY <2>2, <2>3
<1>12. ScoresFit(scores, used, selection)
  BY <1>2, <1>8, <1>10, <1>11 DEF ScoresFit
<1> QED
  BY <1>12 DEF scores

(* Promoting keeps some of the selected options.                           *)
LEMMA PromotedType ==
  ASSUME sketch \in Sketches, family \in Family,
         NEW selection, NEW other, NEW h \in Hole, selection[h] \subseteq family[h]
  PROVE  /\ Promoted(selection, other)[h] \subseteq selection[h]
         /\ selection[h] # {} => Promoted(selection, other)[h] # {}
<1>1. selection[h] \subseteq Nat /\ IsFiniteSet(selection[h])
  BY OptionsAssumption, SketchesAssumption, FS_Subset DEF Family
<1>2. Cardinality({}) = 0
  BY FS_EmptySet
<1>3. ASSUME selection[h] # {}
      PROVE  (CHOOSE o \in selection[h] : \A u \in selection[h] : o <= u) \in selection[h]
  <2>1. \E o \in selection[h] : \A u \in selection[h] : o <= u
    BY <1>1, <1>3, LeastNatural
  <2> QED
    BY <2>1
<1>4. Promoted(selection, other)[h]
        = IF Cardinality(selection[h]) <= 1 THEN selection[h]
          ELSE IF Cardinality(other[h]) = 1 /\ other[h] \subseteq selection[h] THEN other[h]
          ELSE {CHOOSE o \in selection[h] : \A u \in selection[h] : o <= u}
  BY DEF Promoted
<1>5. selection[h] = {} => Cardinality(selection[h]) <= 1
  BY <1>2
<1>6. Cardinality(other[h]) = 1 => other[h] # {}
  BY <1>2
<1> QED
  BY <1>3, <1>4, <1>5, <1>6

(* What an undecided constraint leaves for the split.                      *)
UndecidedOK(result, c) ==
  /\ ScoresOK(result.primary_scores, family, Splitters(family))
  /\ ~ result.max_of_none
  /\ c \notin HyperConstraint =>
       /\ \A h \in Hole : result.primary_selection[h] \subseteq family[h]
       /\ ~ result.primary_consistent =>
            /\ result.primary_scores.scored # {}
            /\ \A h \in result.primary_scores.scored : result.primary_selection[h] # {}
  /\ c \in HyperConstraint =>
       /\ ScoresOK(result.secondary_scores, family, Splitters(family))
       /\ \A h \in Hole : result.joint_selection[h] \subseteq family[h]
       /\ \A h \in result.primary_scores.positive : result.joint_selection[h] # {}

(* An undecided property leaves scores and selections that split() can     *)
(* use.                                                                    *)
LEMMA UndecidedPropertyType ==
  ASSUME sketch \in Sketches, family \in Family, NEW M, IsModel(M, family),
         NEW c, c \notin HyperConstraint, NEW prop, prop.state \in sketch.initial,
         NEW primary, IsScheduler(primary.scheduler, M)
  PROVE  UndecidedOK(UndecidedProperty(M, prop, primary), c)
<1> DEFINE R == UndecidedProperty(M, prop, primary)
           selection == scheduler_selection(M, primary.scheduler, prop.state)
           used == Inconsistent(selection)
           scores == ScoresOf(M, primary, prop.minimizing, used, selection, prop.state)
<1>1. /\ R.primary_selection = selection /\ R.primary_scores = scores
      /\ R.primary_consistent = (used = {}) /\ R.max_of_none = FALSE
  BY DEF UndecidedProperty
<1>2. \A h \in Hole : selection[h] \subseteq family[h]
  BY SelectionOfScheduler
<1>3. used \in SUBSET Splitters(family)
  <2> HIDE DEF selection
  <2> QED
    BY <1>2, InconsistentNontrivial
<1>4. \A h \in used : selection[h] # {} /\ selection[h] \subseteq selection[h]
  <2>1. Cardinality({}) = 0 /\ ~ (0 > 1)
    BY FS_EmptySet
  <2> HIDE DEF selection
  <2> QED
    BY <2>1 DEF Inconsistent
<1>0. /\ selection = scheduler_selection(M, primary.scheduler, prop.state)
      /\ scores = ScoresOf(M, primary, prop.minimizing, used, selection, prop.state)
  OBVIOUS
<1> HIDE DEF R, used, selection, scores
<1>5. PartOf(used, selection, selection)
  BY <1>3, <1>4 DEF PartOf
<1>6. ScoresFit(scores, used, selection)
  BY <1>0, <1>5, ScoresOfType
<1>7. /\ ScoresOK(scores, family, Splitters(family))
      /\ used # {} => scores.scored \subseteq used /\ scores.scored # {}
  BY <1>6 DEF ScoresFit
<1> QED
  BY <1>1, <1>2, <1>4, <1>7 DEF UndecidedOK, R

(* So does an undecided hyperproperty.                                     *)
LEMMA UndecidedHyperpropertyType ==
  ASSUME sketch \in Sketches, family \in Family, NEW M, IsModel(M, family),
         NEW c, c \in HyperConstraint, NEW prop,
         prop.state \in sketch.initial, prop.other_state \in sketch.initial,
         NEW primary, IsScheduler(primary.scheduler, M),
         NEW secondary, IsScheduler(secondary.scheduler, M)
  PROVE  UndecidedOK(UndecidedHyperproperty(M, prop, primary, secondary), c)
<1> DEFINE R == UndecidedHyperproperty(M, prop, primary, secondary)
           first1  == scheduler_selection(M, primary.scheduler, prop.state)
           first2  == scheduler_selection(M, secondary.scheduler, prop.other_state)
           joint   == Joint(first1, first2)
           open    == Inconsistent(joint)
           used1   == UsedHoles(open, first1)
           used2   == UsedHoles(open, first2)
           scores1 == ScoresOf(M, primary, prop.minimizing, used1, joint, prop.state)
           scores2 == ScoresOf(M, secondary, ~ prop.minimizing, used2, joint, prop.other_state)
           second2 == IF AllZero(used2, scores2) THEN Promoted(first2, first1) ELSE first2
           second1 == IF AllZero(used1, scores1) THEN Promoted(first1, second2) ELSE first1
<1>1. /\ R.primary_scores = scores1 /\ R.secondary_scores = scores2
      /\ R.joint_selection = Joint(second1, second2)
      /\ R.max_of_none = (\/ used1 # {} /\ scores1.scored = {}
                          \/ used2 # {} /\ scores2.scored = {})
  <2>1. R.primary_scores = scores1
    BY DEF UndecidedHyperproperty
  <2>2. R.secondary_scores = scores2
    BY DEF UndecidedHyperproperty
  <2>3. R.joint_selection = Joint(second1, second2)
    BY DEF UndecidedHyperproperty
  <2>4. R.max_of_none = (\/ used1 # {} /\ scores1.scored = {}
                         \/ used2 # {} /\ scores2.scored = {})
    BY DEF UndecidedHyperproperty
  <2> HIDE DEF R, first1, first2, joint, open, used1, used2, scores1, scores2, second1, second2
  <2> QED
    BY <2>1, <2>2, <2>3, <2>4
<1>0. /\ first1 = scheduler_selection(M, primary.scheduler, prop.state)
      /\ first2 = scheduler_selection(M, secondary.scheduler, prop.other_state)
      /\ scores1 = ScoresOf(M, primary, prop.minimizing, used1, joint, prop.state)
      /\ scores2 = ScoresOf(M, secondary, ~ prop.minimizing, used2, joint, prop.other_state)
  OBVIOUS
<1>2. \A h \in Hole : first1[h] \subseteq family[h] /\ first2[h] \subseteq family[h]
  BY SelectionOfScheduler
<1>3. \A h \in Hole : joint[h] = first1[h] \cup first2[h]
  BY DEF Joint
<1>4. open \subseteq Splitters(family)
  <2> HIDE DEF joint, first1, first2
  <2> QED
    BY <1>2, <1>3, InconsistentNontrivial
<1>5. Splitters(family) \subseteq Hole
  BY DEF Splitters
<1> HIDE DEF joint, open
<1>6. /\ used1 \in SUBSET Splitters(family) /\ used2 \in SUBSET Splitters(family)
      /\ \A h \in used1 : first1[h] # {} /\ first1[h] \subseteq joint[h]
      /\ \A h \in used2 : first2[h] # {} /\ first2[h] \subseteq joint[h]
  <2> HIDE DEF first1, first2
  <2> QED
    BY <1>3, <1>4, <1>5 DEF UsedHoles
<1> HIDE DEF R, used1, used2, first1, first2, scores1, scores2
<1>7. /\ ScoresOK(scores1, family, Splitters(family))
      /\ used1 # {} => scores1.scored \subseteq used1 /\ scores1.scored # {}
      /\ \A h \in scores1.positive : first1[h] # {}
  <2>1. PartOf(used1, first1, joint)
    BY <1>6 DEF PartOf
  <2>2. ScoresFit(scores1, used1, first1)
    BY <1>0, <2>1, ScoresOfType
  <2> QED
    BY <2>2 DEF ScoresFit
<1>8. /\ ScoresOK(scores2, family, Splitters(family))
      /\ used2 # {} => scores2.scored \subseteq used2 /\ scores2.scored # {}
  <2>1. PartOf(used2, first2, joint)
    BY <1>6 DEF PartOf
  <2>2. ScoresFit(scores2, used2, first2)
    BY <1>0, <2>1, ScoresOfType
  <2> QED
    BY <2>2 DEF ScoresFit
<1>9. ASSUME NEW h \in Hole
      PROVE  /\ second2[h] \subseteq family[h] /\ second1[h] \subseteq family[h]
             /\ first1[h] # {} => second1[h] # {}
  <2>1. second2[h] \subseteq family[h]
    BY <1>2, PromotedType
  <2> HIDE DEF second2
  <2>2. second1[h] \subseteq family[h] /\ (first1[h] # {} => second1[h] # {})
    BY <1>2, PromotedType
  <2> QED
    BY <2>1, <2>2
<1> HIDE DEF second1, second2
<1>10. \A h \in Hole : Joint(second1, second2)[h] = second1[h] \cup second2[h]
  BY DEF Joint
<1>11. scores1.positive \subseteq Hole
  BY <1>5, <1>7 DEF ScoresOK
<1>12. \A h \in Hole : R.joint_selection[h] \subseteq family[h]
  BY <1>1, <1>9, <1>10
<1>13. \A h \in R.primary_scores.positive : R.joint_selection[h] # {}
  BY <1>1, <1>7, <1>9, <1>10, <1>11
<1>14. ~ R.max_of_none
  BY <1>1, <1>7, <1>8
<1> QED
  BY <1>1, <1>7, <1>8, <1>12, <1>13, <1>14 DEF UndecidedOK, R

(* The result of a constraint.                                             *)
LEMMA CheckType ==
  ASSUME sketch \in Sketches, family \in Family, NEW M, IsModel(M, family), NEW c \in Constraint
  PROVE  /\ Check(M, c).feasibility \in Feasibility
         /\ ~ Check(M, c).max_of_none
         /\ Check(M, c).feasibility = "None" => UndecidedOK(Check(M, c), c)
<1> DEFINE prop == sketch.constraint[c]
           P == computeUntilProbabilities(M, prop.minimizing, Target(M))
           Q == computeUntilProbabilities(M, ~ prop.minimizing, Target(M))
<1>1. prop.minimizing \in BOOLEAN /\ prop.state \in sketch.initial /\ prop.other_state \in sketch.initial
  <2>1. prop \in [minimizing : BOOLEAN, strict : BOOLEAN,
                  state : sketch.initial, other_state : sketch.initial]
    BY SketchesAssumption
  <2> HIDE DEF prop
  <2> QED
    BY <2>1
<1> HIDE DEF prop
<1>2. IsScheduler(P.scheduler, M) /\ IsScheduler(Q.scheduler, M)
  <2>1. MdpOK(M) /\ Target(M) \in SUBSET StatesOf(M) /\ (~ prop.minimizing) \in BOOLEAN
    BY <1>1 DEF IsModel, Target
  <2> QED
    BY <1>1, <2>1, ProbSchedules
<1> HIDE DEF P, Q
<1>3. \A f \in {"True", "False"} : Decided(f).feasibility = f /\ ~ Decided(f).max_of_none
  BY DEF Decided
<1>4. CASE c \notin HyperConstraint
  <2>1. Check(M, c) = IF ~ Holds(prop, P) THEN Decided("False")
                      ELSE IF Holds(prop, Q) THEN Decided("True")
                      ELSE UndecidedProperty(M, prop, P)
    BY <1>4 DEF Check, check_property, prop, P, Q
  <2>2. UndecidedOK(UndecidedProperty(M, prop, P), c)
    BY <1>1, <1>2, <1>4, UndecidedPropertyType
  <2>3. UndecidedProperty(M, prop, P).feasibility = "None"
    BY DEF UndecidedProperty
  <2> DEFINE U == UndecidedProperty(M, prop, P)
  <2>4. \/ Check(M, c) = Decided("False") \/ Check(M, c) = Decided("True")
        \/ Check(M, c) = U
    BY <2>1
  <2>5. UndecidedOK(U, c) /\ U.feasibility = "None" /\ ~ U.max_of_none
    BY <2>2, <2>3 DEF UndecidedOK
  <2> HIDE DEF U
  <2> QED
    BY <1>3, <2>4, <2>5 DEF Feasibility
<1>5. CASE c \in HyperConstraint
  <2> DEFINE U == UndecidedHyperproperty(M, prop, P, Q)
  <2>1. Check(M, c)
          = IF ~ Compare(prop, ValueAt(P, prop.state), ValueAt(Q, prop.other_state)) THEN Decided("False")
            ELSE IF Compare(prop, ValueAt(Q, prop.state), ValueAt(P, prop.other_state)) THEN Decided("True")
            ELSE U
    BY <1>5 DEF Check, check_hyperproperty, prop, P, Q
  <2>2. UndecidedOK(U, c)
    BY <1>1, <1>2, <1>5, UndecidedHyperpropertyType
  <2>3. U.feasibility = "None"
    BY DEF UndecidedHyperproperty
  <2> HIDE DEF U
  <2>4. Check(M, c) = Decided("False") \/ Check(M, c) = Decided("True") \/ Check(M, c) = U
    BY <2>1
  <2>5. ~ U.max_of_none
    BY <2>2 DEF UndecidedOK
  <2> QED
    BY <1>3, <2>2, <2>3, <2>4, <2>5 DEF Feasibility
<1> QED
  BY <1>4, <1>5

-----------------------------------------------------------------------------
(***************************************************************************)
(* Splitting on what the results left.                                     *)
(***************************************************************************)

(* A split at one hole is among those of FamilyAnalysis.                   *)
LEMMA SplitAtOne ==
  ASSUME NEW h \in Splitters(family), NEW core, core \subseteq family[h], core # {},
         NEW p \in SplitAt(family, h, core), NEW U
  PROVE  p \in Split(family, U)
<1>1. p \in UNION {SplitAt(family, h, k) : k \in (SUBSET family[h]) \ {{}}}
  OBVIOUS
<1>2. p \in SplitOne(family)
  BY <1>1 DEF SplitOne
<1> QED
  BY <1>2 DEF Split

(* So is one at a core option of a scored hole.                            *)
LEMMA SplitOnCoreType ==
  ASSUME NEW scores, ScoresOK(scores, family, Splitters(family)),
         NEW primary, NEW minimizing, NEW p \in SplitOnCore(scores, primary, minimizing), NEW U
  PROVE  p \in Split(family, U)
<1>1. PICK h \in BestHoles(scores) :
        p \in UNION {SplitAt(family, h, {o}) : o \in CoreSuboptions(scores, h, primary, minimizing)}
  BY DEF SplitOnCore
<1>2. PICK o \in CoreSuboptions(scores, h, primary, minimizing) : p \in SplitAt(family, h, {o})
  BY <1>1
<1>3. h \in scores.scored /\ h \in Splitters(family)
  BY DEF BestHoles, ScoresOK
<1>4. o \in family[h]
  BY <1>3 DEF CoreSuboptions, ScoresOK
<1> QED
  BY <1>2, <1>3, <1>4, SplitAtOne

(* So is what split() makes of an undecided constraint.                    *)
LEMMA SplitType ==
  ASSUME NEW c \in UndecidedConstraints(feasibility), UndecidedOK(results[c], c),
         NEW p \in split(c)
  PROVE  p \in Split(family, UndecidedConstraints(feasibility))
<1> DEFINE U == UndecidedConstraints(feasibility)
           primary == results[c].primary_scores
           secondary == results[c].secondary_scores
           minimizing == sketch.constraint[c].minimizing
<1>1. c \in U
  OBVIOUS
<1> HIDE DEF U
<1>2. ScoresOK(primary, family, Splitters(family))
  BY DEF UndecidedOK
<1>3. CASE c \notin HyperConstraint
  <2>1. p \in SplitOnProperty(c)
    BY <1>3 DEF split
  <2>2. CASE results[c].primary_consistent
    <3>1. p \in SplitOnCore(primary, TRUE, minimizing)
      BY <2>1, <2>2 DEF SplitOnProperty
    <3> QED
      BY <1>2, <3>1, SplitOnCoreType DEF U
  <2>3. CASE ~ results[c].primary_consistent
    <3>1. PICK h \in BestHoles(primary) : p \in Enumerate(h, results[c].primary_selection[h])
      BY <2>1, <2>3 DEF SplitOnProperty
    <3>2. h \in primary.scored /\ h \in Splitters(family)
      BY <1>2 DEF BestHoles, ScoresOK
    <3>3. h \in Hole
      BY <3>2 DEF Splitters
    <3>4. results[c].primary_selection[h] # {} /\ results[c].primary_selection[h] \subseteq family[h]
      BY <1>3, <2>3, <3>2, <3>3 DEF UndecidedOK
    <3> QED
      BY <3>1, <3>2, <3>4, SplitAtOne DEF Enumerate, U
  <2> QED
    BY <2>2, <2>3
<1>4. CASE c \in HyperConstraint
  <2>1. p \in SplitOnHyperproperty(c)
    BY <1>4 DEF split
  <2>2. ScoresOK(secondary, family, Splitters(family))
    BY <1>4 DEF UndecidedOK
  <2>3. \/ p \in SplitOnCore(primary, TRUE, minimizing)
        \/ p \in SplitOnCore(secondary, FALSE, minimizing)
        \/ p \in UNION {UNION {SplitOnPair(c, h, k) : k \in secondary.positive} : h \in primary.positive}
    BY <2>1 DEF SplitOnHyperproperty
  <2>4. CASE p \in SplitOnCore(primary, TRUE, minimizing)
    BY <1>2, <2>4, SplitOnCoreType DEF U
  <2>5. CASE p \in SplitOnCore(secondary, FALSE, minimizing)
    BY <2>2, <2>5, SplitOnCoreType DEF U
  <2>6. ASSUME NEW h \in primary.positive, p \in Enumerate(h, results[c].joint_selection[h])
        PROVE  p \in Split(family, U)
    <3>1. h \in Splitters(family) /\ h \in Hole
      BY <1>2 DEF ScoresOK, Splitters
    <3>2. results[c].joint_selection[h] # {} /\ results[c].joint_selection[h] \subseteq family[h]
      BY <1>4, <3>1 DEF UndecidedOK
    <3> QED
      BY <2>6, <3>1, <3>2, SplitAtOne DEF Enumerate, U
  <2>7. ASSUME NEW h \in primary.positive, NEW k \in secondary.positive, h # k,
               NEW o \in CoreSuboptions(primary, h, TRUE, minimizing),
               NEW u \in CoreSuboptions(secondary, k, FALSE, minimizing),
               p = Quarters(family, h, o, k, u)
        PROVE  p \in Split(family, U)
    <3>1. h \in primary.scored /\ k \in secondary.scored
          /\ h \in Splitters(family) /\ k \in Splitters(family) \ {h}
      BY <1>2, <2>2, <2>7 DEF ScoresOK
    <3>2. o \in family[h] /\ u \in family[k]
      BY <1>2, <2>2, <3>1 DEF CoreSuboptions, ScoresOK
    <3>3. p \in SplitAtBoth(family, h, k)
      BY <2>7, <3>2 DEF SplitAtBoth
    <3>4. p \in SplitTwo(family)
      <4>1. p \in UNION {SplitAtBoth(family, h, m) : m \in Splitters(family) \ {h}}
        BY <3>1, <3>3
      <4> QED
        BY <3>1, <4>1 DEF SplitTwo
    <3>5. U \cap HyperConstraint # {}
      BY <1>1, <1>4
    <3> QED
      BY <3>4, <3>5 DEF Split
  <2> HIDE DEF primary, secondary, minimizing
  <2>8. CASE p \in UNION {UNION {SplitOnPair(c, h, k) : k \in secondary.positive} : h \in primary.positive}
    <3>1. \E h \in primary.positive : \E k \in secondary.positive : p \in SplitOnPair(c, h, k)
      BY <2>8
    <3>2. PICK h \in primary.positive : \E k \in secondary.positive : p \in SplitOnPair(c, h, k)
      BY <3>1
    <3>3. PICK k \in secondary.positive : p \in SplitOnPair(c, h, k)
      BY <3>2
    <3>4. CASE h = k
      <4>1. p \in Enumerate(h, results[c].joint_selection[h])
        BY <3>3, <3>4 DEF SplitOnPair
      <4> QED
        BY <2>6, <4>1 DEF U
    <3>5. CASE h # k
      <4>2. \E o \in CoreSuboptions(primary, h, TRUE, minimizing) :
              \E u \in CoreSuboptions(secondary, k, FALSE, minimizing) :
                p = Quarters(family, h, o, k, u)
        BY <3>3, <3>5 DEF SplitOnPair, primary, secondary, minimizing
      <4> QED
        BY <2>7, <3>5, <4>2 DEF U
    <3> QED
      BY <3>4, <3>5
  <2> QED
    BY <2>3, <2>4, <2>5, <2>8
<1> QED
  BY <1>3, <1>4

-----------------------------------------------------------------------------
(***************************************************************************)
(* The invariant.                                                          *)
(***************************************************************************)

(* What may stand in results for a constraint.                             *)
ResultOK(result, c) ==
  /\ result.feasibility \in Feasibility
  /\ ~ result.max_of_none
  /\ result.feasibility = "None" => UndecidedOK(result, c)
  /\ sat # None => result.feasibility \in CheckConstraint(SketchTask, family, c)

(* The satisfying assignments are those of the chains.                     *)
SatInv ==
  /\ sketch \in Sketches
  /\ sat # None => Matched(sketch) /\ sat = SatOf(sketch)

Status == {"new", "checking", "numeric", "failed", "satisfied", "refuted",
           "selected", "undecided", "split"}

(* While there is a model, it is the one of the family, and every result   *)
(* fits it.                                                                *)
FamilyInv ==
  /\ family \in Family /\ indices \subseteq Constraint /\ status \in Status
  /\ status \in {"new", "failed"} => mdp = None /\ results = None
  /\ status = "failed" => HasDeadlock(Quotient, Selected(family))
  /\ status \notin {"new", "failed"} =>
       /\ IsModel(mdp, family)
       /\ results = [c \in Constraint |-> results[c]]
       /\ \A c \in Constraint : results[c] = Unchecked \/ ResultOK(results[c], c)

PartsInv ==
  IF status = "split" THEN parts \in Split(family, UndecidedConstraints(feasibility))
  ELSE parts = << >>

IInv == SatInv /\ FamilyInv /\ PartsInv

(* A checked constraint fits the model.                                    *)
LEMMA CheckOK ==
  ASSUME IInv, status \notin {"new", "failed"}, NEW c \in Constraint
  PROVE  ResultOK(Check(mdp, c), c)
<1>1. sketch \in Sketches /\ family \in Family /\ IsModel(mdp, family)
  BY DEF IInv, SatInv, FamilyInv
<1>2. /\ Check(mdp, c).feasibility \in Feasibility
      /\ ~ Check(mdp, c).max_of_none
      /\ Check(mdp, c).feasibility = "None" => UndecidedOK(Check(mdp, c), c)
  BY <1>1, CheckType
<1>3. ASSUME sat # None
      PROVE  Check(mdp, c).feasibility \in CheckConstraint(SketchTask, family, c)
  <2>1. Matched(sketch) /\ sat = SatOf(sketch)
    BY <1>3 DEF IInv, SatInv
  <2> QED
    BY <1>1, <1>3, <2>1, VerdictSound
<1> QED
  BY <1>2, <1>3 DEF ResultOK

(* The feasibility of a constraint.                                        *)
LEMMA FeasibilityOf ==
  ASSUME NEW c \in Constraint
  PROVE  /\ feasibility[c] = results[c].feasibility
         /\ results[c] = Unchecked => feasibility[c] = "unchecked"
         /\ ResultOK(results[c], c) => feasibility[c] \in Feasibility
  BY DEF feasibility, Unchecked, ResultOK

(* A split is one of those of FamilyAnalysis.                              *)
LEMMA SplitAsAbstract ==
  ASSUME IInv, status \in {"selected", "undecided"}, NEW c \in BestResults, NEW p \in split(c)
  PROVE  p \in Split(family, UndecidedConstraints(feasibility))
<1>1. c \in UndecidedConstraints(feasibility)
  BY DEF BestResults
<1>2. c \in Constraint /\ feasibility[c] = "None"
  BY <1>1 DEF UndecidedConstraints
<1>3. ResultOK(results[c], c)
  BY <1>2, FeasibilityOf DEF IInv, FamilyInv
<1>4. UndecidedOK(results[c], c)
  BY <1>2, <1>3, FeasibilityOf DEF ResultOK
<1> QED
  BY <1>1, <1>4, SplitType

(* The parts of a split are families.                                      *)
LEMMA PartsAreFamilies ==
  ASSUME IInv, NEW i \in DOMAIN parts
  PROVE  parts[i] \in Family
<1>1. CASE status = "split"
  <2>1. parts \in Split(family, UndecidedConstraints(feasibility)) /\ family \in Family
    BY <1>1 DEF IInv, PartsInv, FamilyInv
  <2>2. UndecidedConstraints(feasibility) \in SUBSET Constraint
    BY DEF UndecidedConstraints
  <2>3. Partitions(parts, family)
    BY <2>1, <2>2, SplitPartitions
  <2>4. parts \in Seq(Family) /\ DOMAIN parts = 1..Len(parts)
    BY <2>3, LenProperties DEF Partitions
  <2> QED
    BY <2>4, ElementOfSeq
<1>2. CASE status # "split"
  BY <1>2 DEF IInv, PartsInv
<1> QED
  BY <1>1, <1>2

(* It holds initially: there is no model yet.                              *)
LEMMA InitIInv == Init => IInv
<1> SUFFICES ASSUME Init
             PROVE  IInv
  OBVIOUS
<1>1. Options \in Family
  BY OptionsAssumption DEF Family
<1>2. sat # None => Matched(sketch) /\ sat = SatOf(sketch)
  BY DEF Init
<1> QED
  BY <1>1, <1>2 DEF Init, IInv, SatInv, FamilyInv, PartsInv, Status

-----------------------------------------------------------------------------
(***************************************************************************)
(* Every step preserves the invariant.                                     *)
(***************************************************************************)

(* What a step keeps that leaves the variables alone.                      *)
LEMMA SatKept ==
  ASSUME SatInv, UNCHANGED <<sketch, sat>>
  PROVE  SatInv'
BY DEF SatInv

(* The model is kept.                                                      *)
LEMMA ModelKept ==
  ASSUME IsModel(mdp, family), UNCHANGED <<sketch, family, mdp>>
  PROVE  IsModel(mdp, family)'
BY DEF IsModel, RowIs, Selected

(* A result is kept.                                                       *)
LEMMA ResultKept ==
  ASSUME NEW result, NEW c, ResultOK(result, c), UNCHANGED <<sat, family>>, result = results'[c]
  PROVE  ResultOK(results[c], c)'
<1>1. SketchTask' = SketchTask
  BY DEF SketchTask
<1>2. UndecidedOK(result, c) => UndecidedOK(results[c], c)'
  BY DEF UndecidedOK
<1> QED
  BY <1>1, <1>2 DEF ResultOK

(* A step that leaves the model and the results alone.                     *)
LEMMA FamilyKept ==
  ASSUME FamilyInv, UNCHANGED <<sketch, sat, family, indices, mdp, results>>,
         status \notin {"new", "failed"}, status' \in Status \ {"new", "failed"}
  PROVE  FamilyInv'
<1>1. IsModel(mdp, family)'
  BY ModelKept DEF FamilyInv
<1>2. ASSUME NEW c \in Constraint
      PROVE  (results[c] = Unchecked \/ ResultOK(results[c], c))'
  <2>1. results[c] = Unchecked \/ ResultOK(results[c], c)
    BY DEF FamilyInv
  <2>2. ResultOK(results[c], c) => ResultOK(results[c], c)'
    BY ResultKept
  <2> QED
    BY <2>1, <2>2 DEF Unchecked
<1> QED
  BY <1>1, <1>2 DEF FamilyInv

(* The parts of a split are kept.                                          *)
LEMMA FeasibilityKept ==
  ASSUME UNCHANGED <<family, results>>, UNCHANGED parts, PartsInv,
         status = "split" <=> status' = "split"
  PROVE  PartsInv'
<1>1. feasibility' = feasibility
  BY DEF feasibility
<1>2. UndecidedConstraints(feasibility)' = UndecidedConstraints(feasibility)
  BY <1>1 DEF UndecidedConstraints, HasTrue, OrGroup
<1> QED
  BY <1>2 DEF PartsInv

(* The cases are the actions of Next.                                      *)
LEMMA StepIInv == IInv /\ [Next]_vars => IInv'
<1> SUFFICES ASSUME IInv, [Next]_vars
             PROVE  IInv'
  OBVIOUS
<1>0. SatInv /\ FamilyInv /\ PartsInv
  BY DEF IInv
<1>1. CASE Build
  <2>1. SatInv' /\ PartsInv'
    BY <1>0, <1>1, SatKept DEF Build, PartsInv
  <2>2. IsModel(FamilyMDP(family), family)
    BY <1>0, <1>1, FamilyModel DEF Build, SatInv
  <2>3. IsModel(mdp, family)'
    <3>1. mdp' = FamilyMDP(family) /\ UNCHANGED <<sketch, family>>
      BY <1>1 DEF Build
    <3> QED
      BY <2>2, <3>1 DEF IsModel, RowIs, Selected
  <2>4. /\ results' = [c \in Constraint |-> Unchecked]
        /\ status' \in {"checking", "numeric"}
        /\ UNCHANGED <<family, indices>>
    BY <1>1 DEF Build
  <2>5. (results = [c \in Constraint |-> results[c]])' /\ \A c \in Constraint : (results[c] = Unchecked)'
    BY <2>4 DEF Unchecked
  <2>6. FamilyInv'
    BY <1>0, <2>3, <2>4, <2>5 DEF FamilyInv, Status
  <2> QED
    BY <2>1, <2>6 DEF IInv
<1>2. CASE FailDeadlock
  <2>1. SatInv' /\ PartsInv'
    BY <1>0, <1>2, SatKept DEF FailDeadlock, PartsInv
  <2>2. HasDeadlock(Quotient, Selected(family)) /\ UNCHANGED <<sketch, family, indices, mdp, results>>
        /\ status = "new" /\ status' = "failed"
    BY <1>2 DEF FailDeadlock
  <2>3. Quotient' = Quotient /\ Selected(family)' = Selected(family)
    BY <2>2 DEF Quotient, Selected
  <2>4. HasDeadlock(Quotient, Selected(family))'
    BY <2>2, <2>3
  <2>5. FamilyInv'
    BY <1>0, <2>2, <2>4 DEF FamilyInv, Status
  <2> QED
    BY <2>1, <2>5 DEF IInv
<1>3. CASE CheckConstraints
  <2>1. SatInv' /\ PartsInv'
    BY <1>0, <1>3, SatKept DEF CheckConstraints, PartsInv
  <2>2. /\ status = "checking" /\ UNCHANGED <<sketch, sat, family, indices, mdp, status>>
        /\ \E c \in Constraint : results' = [results EXCEPT ![c] = Check(mdp, c)]
    BY <1>3 DEF CheckConstraints
  <2>3. PICK c \in Constraint : results' = [results EXCEPT ![c] = Check(mdp, c)]
    BY <2>2
  <2>4. ResultOK(Check(mdp, c), c)
    BY <2>2, CheckOK
  <2>5. results = [d \in Constraint |-> results[d]]
    BY <1>0, <2>2 DEF FamilyInv
  <2>6. /\ results' = [d \in Constraint |-> results'[d]]
        /\ results'[c] = Check(mdp, c) /\ \A d \in Constraint \ {c} : results'[d] = results[d]
    BY <2>3, <2>5
  <2>7. ASSUME NEW d \in Constraint
        PROVE  (results[d] = Unchecked \/ ResultOK(results[d], d))'
    <3>1. CASE d = c
      BY <2>2, <2>4, <2>6, <3>1, ResultKept
    <3>2. CASE d # c
      <4>1. (results[d] = Unchecked \/ ResultOK(results[d], d)) /\ results'[d] = results[d]
        BY <1>0, <2>2, <2>6, <3>2 DEF FamilyInv
      <4>2. ResultOK(results[d], d) => ResultOK(results[d], d)'
        BY <2>2, <4>1, ResultKept
      <4> QED
        BY <4>1, <4>2 DEF Unchecked
    <3> QED
      BY <3>1, <3>2
  <2>8. IsModel(mdp, family)'
    BY <1>0, <2>2, ModelKept DEF FamilyInv
  <2>9. FamilyInv'
    BY <1>0, <2>2, <2>6, <2>7, <2>8 DEF FamilyInv
  <2> QED
    BY <2>1, <2>9 DEF IInv
<1>4. CASE Conclude
  <2>1. /\ status = "checking" /\ status' \in {"satisfied", "refuted", "selected", "undecided"}
        /\ UNCHANGED <<sketch, sat, family, indices, mdp, results, parts>>
    BY <1>4 DEF Conclude, Verdict
  <2>2. FamilyInv'
    BY <1>0, <2>1, FamilyKept DEF Status
  <2>3. PartsInv'
    BY <1>0, <2>1 DEF PartsInv
  <2> QED
    BY <1>0, <2>1, <2>2, <2>3, SatKept DEF IInv
<1>5. CASE SplitFamily
  <2>1. /\ status \in {"selected", "undecided"} /\ status' = "split"
        /\ UNCHANGED <<sketch, sat, family, indices, mdp, results>>
        /\ \E c \in BestResults : parts' \in split(c)
    BY <1>5 DEF SplitFamily
  <2>2. parts' \in Split(family, UndecidedConstraints(feasibility))
    BY <2>1, SplitAsAbstract
  <2>3. feasibility' = feasibility
    BY <2>1 DEF feasibility
  <2>4. UndecidedConstraints(feasibility)' = UndecidedConstraints(feasibility)
    BY <2>3
  <2>5. PartsInv'
    BY <2>1, <2>2, <2>4 DEF PartsInv
  <2>6. FamilyInv'
    BY <1>0, <2>1, FamilyKept DEF Status
  <2> QED
    BY <1>0, <2>1, <2>5, <2>6, SatKept DEF IInv
<1>6. CASE Descend
  <2>1. /\ status = "split" /\ \E i \in DOMAIN parts : family' = parts[i]
        /\ indices' = UndecidedConstraints(feasibility)
        /\ mdp' = None /\ results' = None /\ parts' = << >> /\ status' = "new"
        /\ UNCHANGED <<sketch, sat>>
    BY <1>6 DEF Descend
  <2>2. family' \in Family
    BY <2>1, PartsAreFamilies
  <2>3. indices' \subseteq Constraint
    BY <2>1 DEF UndecidedConstraints
  <2>4. FamilyInv' /\ PartsInv'
    BY <2>1, <2>2, <2>3 DEF FamilyInv, PartsInv, Status
  <2> QED
    BY <1>0, <2>1, <2>4, SatKept DEF IInv
<1>7. CASE UNCHANGED vars \/ Finished
  <2>1. UNCHANGED <<sketch, sat, family, indices, mdp, results, parts, status>>
    BY <1>7 DEF Finished, vars
  <2>2. SatInv' /\ PartsInv'
    BY <1>0, <2>1, SatKept, FeasibilityKept
  <2>3. CASE status \in {"new", "failed"}
    <3>1. Quotient' = Quotient /\ Selected(family)' = Selected(family)
      BY <2>1 DEF Quotient, Selected
    <3> QED
      BY <1>0, <2>1, <2>2, <2>3, <3>1 DEF FamilyInv, IInv, Status
  <2>4. CASE status \notin {"new", "failed"}
    <3>1. status' \in Status \ {"new", "failed"}
      BY <1>0, <2>1, <2>4 DEF FamilyInv
    <3>2. FamilyInv'
      BY <1>0, <2>1, <2>4, <3>1, FamilyKept
    <3> QED
      BY <2>2, <3>2 DEF IInv
  <2> QED
    BY <2>3, <2>4
<1> QED
  BY <1>1, <1>2, <1>3, <1>4, <1>5, <1>6, <1>7 DEF Next

-----------------------------------------------------------------------------
(***************************************************************************)
(* The theorems.                                                           *)
(***************************************************************************)

(* The invariant holds in every behaviour.                                 *)
LEMMA SpecIInv == Spec => []IInv
BY InitIInv, StepIInv, PTL DEF Spec

(* Whatever the sketch, the variables keep their types: in particular the  *)
(* parts of a split are families again, and the model of a family is made  *)
(* of states of the sketch.                                                *)
THEOREM TypeCorrect == Spec => []TypeOK
<1>1. ASSUME IInv
      PROVE  TypeOK
  <2>1. SatInv /\ FamilyInv
    BY <1>1 DEF IInv
  <2>2. \A i \in DOMAIN parts : parts[i] \in Family
    BY <1>1, PartsAreFamilies
  <2>3. ASSUME status \notin {"new", "failed"}
        PROVE  feasibility \in [Constraint -> Result]
    <3>1. ASSUME NEW c \in Constraint
          PROVE  feasibility[c] \in Result
      BY <2>1, <2>3, FeasibilityOf DEF FamilyInv, Result
    <3>2. feasibility = [c \in Constraint |-> feasibility[c]]
      BY DEF feasibility
    <3> QED
      BY <3>1, <3>2
  <2>4. status \notin {"new", "failed"} => DOMAIN mdp.rows \subseteq DOMAIN sketch.rows
    BY <2>1 DEF FamilyInv, IsModel, StatesOf
  <2> QED
    BY <2>1, <2>2, <2>3, <2>4 DEF FamilyInv, TypeOK, Status
<1> QED
  BY <1>1, SpecIInv, PTL

(* Whatever the sketch, the verdict on a constraint is right for every     *)
(* member of the family: "True" and "False" only when all members satisfy  *)
(* or violate it, "None" never for a single assignment.  This is what      *)
(* FamilyAnalysis, and with it the synthesis methods, take the analysis    *)
(* of a family to answer.                                                  *)
THEOREM VerdictsAreSound == Spec => []VerdictsSound
<1>1. ASSUME IInv
      PROVE  VerdictsSound
  <2>1. SatInv /\ FamilyInv
    BY <1>1 DEF IInv
  <2>2. ASSUME sat # None, results # None, NEW c \in Constraint, feasibility[c] # "unchecked"
        PROVE  feasibility[c] \in CheckConstraint(SketchTask, family, c)
    <3>1. results[c] = Unchecked \/ ResultOK(results[c], c)
      BY <2>1, <2>2 DEF FamilyInv
    <3> QED
      BY <2>2, <3>1, FeasibilityOf DEF ResultOK
  <2> QED
    BY <2>2 DEF VerdictsSound
<1> QED
  BY <1>1, SpecIInv, PTL

(* Whatever the sketch, split() makes one of the splits that FamilyAnalysis *)
(* describes: at nontrivial holes only, with nonempty core options of the  *)
(* family; so its parts are smaller, disjoint and cover the family.        *)
THEOREM SplitsAreAbstract == Spec => []SplitsAsAbstract
<1>1. IInv => SplitsAsAbstract
  BY DEF IInv, PartsInv, SplitsAsAbstract
<1> QED
  BY <1>1, SpecIInv, PTL

-----------------------------------------------------------------------------
(***************************************************************************)
(* What computeSchedulerProb1E's search finds.                             *)
(***************************************************************************)
OnStack(search, t) == \E i \in 1..Len(search.stack) : search.stack[i] = t

(* Every state of current has a row that stays in one, and psi is reached  *)
(* along these rows: the only set that is closed under them is current.    *)
Found(search, M, one, phi, psi) ==
  /\ psi \subseteq search.current
  /\ \A t : OnStack(search, t) => t \in search.current
  /\ \A p \in search.current \ psi : p \in phi /\ M.rows[p][search.choice[p]] \subseteq one
  /\ \A D \in SUBSET StatesOf(M) :
       psi \subseteq D /\ (\A p \in search.current \ psi : Meets(M.rows[p][search.choice[p]], D) => p \in D)
         => search.current \subseteq D

(* How a search goes on: what was found stays found, and what is new is    *)
(* on the stack, once.                                                     *)
Continues(new, old) ==
  /\ old.current \subseteq new.current
  /\ \A t : OnStack(old, t) => OnStack(new, t)
  /\ \A t \in new.current : t \in old.current \/ OnStack(new, t)
  /\ Cardinality(new.current) + Len(old.stack) = Cardinality(old.current) + Len(new.stack)

(* The parts of a search's state.                                          *)
LEMMA SearchType ==
  ASSUME NEW M, MdpOK(M), NEW search \in Search(M)
  PROVE  /\ search.stack \in Seq(StatesOf(M)) /\ search.current \in SUBSET StatesOf(M)
         /\ search.choice \in [StatesOf(M) -> Nat]
         /\ Len(search.stack) \in Nat /\ Cardinality(search.current) \in Nat
         /\ IsFiniteSet(search.current) /\ Cardinality(search.current) <= Cardinality(StatesOf(M))
<1>1. /\ search.stack \in Seq(StatesOf(M)) /\ search.current \in SUBSET StatesOf(M)
      /\ search.choice \in [StatesOf(M) -> Nat]
  BY DEF Search
<1>2. IsFiniteSet(StatesOf(M))
  BY DEF MdpOK, GraphOK
<1> QED
  BY <1>1, <1>2, FS_Subset, FS_CardinalityType

(* To continue is transitive.                                              *)
LEMMA ContinuesTransitive ==
  ASSUME NEW M, MdpOK(M), NEW a \in Search(M), NEW b \in Search(M), NEW c \in Search(M),
         Continues(b, a), Continues(c, b)
  PROVE  Continues(c, a)
<1>1. /\ Len(a.stack) \in Nat /\ Cardinality(a.current) \in Nat
      /\ Len(b.stack) \in Nat /\ Cardinality(b.current) \in Nat
      /\ Len(c.stack) \in Nat /\ Cardinality(c.current) \in Nat
  BY SearchType
<1>2. /\ Cardinality(b.current) + Len(a.stack) = Cardinality(a.current) + Len(b.stack)
      /\ Cardinality(c.current) + Len(b.stack) = Cardinality(b.current) + Len(c.stack)
  BY DEF Continues
<1>3. Cardinality(c.current) + Len(a.stack) = Cardinality(a.current) + Len(c.stack)
  <2> DEFINE ca == Cardinality(a.current)
             cb == Cardinality(b.current)
             cc == Cardinality(c.current)
             la == Len(a.stack)
             lb == Len(b.stack)
             lc == Len(c.stack)
  <2>1. ca \in Nat /\ cb \in Nat /\ cc \in Nat /\ la \in Nat /\ lb \in Nat /\ lc \in Nat
    BY <1>1
  <2>2. cb + la = ca + lb /\ cc + lb = cb + lc
    BY <1>2
  <2> HIDE DEF ca, cb, cc, la, lb, lc
  <2>3. cc + la = ca + lc
    BY <2>1, <2>2
  <2> QED
    BY <2>3 DEF ca, cc, la, lc
<1> QED
  BY <1>3 DEF Continues

(* A predecessor that may go on to current within one is found.            *)
LEMMA VisitFinds ==
  ASSUME NEW M, MdpOK(M), NEW one, NEW phi, NEW psi \in SUBSET StatesOf(M),
         NEW search \in Search(M), Found(search, M, one, phi, psi), NEW p \in StatesOf(M),
         NEW new, new = VisitPredecessor(M, one, phi, search, p)
  PROVE  /\ new \in Search(M) /\ Found(new, M, one, phi, psi) /\ Continues(new, search)
         /\ p \in phi /\ (\E r \in Rows(M, p) : Progresses(M.rows[p][r], one, search.current))
              => p \in new.current
<1> DEFINE row == ProgressRow(M, p, one, search.current)
<1>0. /\ search.stack \in Seq(StatesOf(M)) /\ search.current \in SUBSET StatesOf(M)
      /\ search.choice \in [StatesOf(M) -> Nat]
      /\ Len(search.stack) \in Nat /\ Cardinality(search.current) \in Nat
      /\ IsFiniteSet(search.current)
  BY SearchType
<1>1. /\ new \in Search(M)
      /\ new = IF p \in phi \ search.current /\ row > 0
               THEN Visited(M, one, search, p, row) ELSE search
  BY VisitStays
<1>2. \/ /\ row \in Rows(M, p) /\ row > 0 /\ Progresses(M.rows[p][row], one, search.current)
      \/ row = 0 /\ \A r \in Rows(M, p) : ~ Progresses(M.rows[p][r], one, search.current)
  <2>1. M.rows[p] \in Seq(SUBSET StatesOf(M))
    BY DEF MdpOK
  <2> QED
    BY <2>1, ProgressRowProgresses
<1> HIDE DEF row
<1>3. CASE ~ (p \in phi \ search.current /\ row > 0)
  <2>1. new = search
    BY <1>1, <1>3
  <2>2. Continues(search, search)
    BY <1>0 DEF Continues
  <2>3. ASSUME p \in phi, \E r \in Rows(M, p) : Progresses(M.rows[p][r], one, search.current)
        PROVE  p \in search.current
    BY <1>2, <1>3, <2>3
  <2> QED
    BY <1>1, <2>1, <2>2, <2>3
<1>4. CASE p \in phi \ search.current /\ row > 0
  <2>1. /\ new.stack = Append(search.stack, p) /\ new.current = search.current \cup {p}
        /\ new.choice = [search.choice EXCEPT ![p] = row]
    BY <1>1, <1>4 DEF Visited
  <2>2. M.rows[p][row] \subseteq one /\ Meets(M.rows[p][row], search.current)
    BY <1>2, <1>4 DEF Progresses
  <2>3. new.choice[p] = row /\ \A t \in search.current : new.choice[t] = search.choice[t]
    BY <1>0, <1>4, <2>1
  <2>4. /\ Len(new.stack) = Len(search.stack) + 1
        /\ \A i \in 1..Len(search.stack) : new.stack[i] = search.stack[i] /\ i \in 1..Len(new.stack)
        /\ new.stack[Len(new.stack)] = p /\ Len(new.stack) \in 1..Len(new.stack)
        /\ \A i \in 1..Len(new.stack) : i \in 1..Len(search.stack) \/ i = Len(new.stack)
    BY <1>0, <2>1
  <2>5. \A t : OnStack(new, t) <=> OnStack(search, t) \/ t = p
    BY <2>4 DEF OnStack
  <2>6. Cardinality(new.current) = Cardinality(search.current) + 1
    BY <1>0, <1>4, <2>1, FS_AddElement
  <2>7. Continues(new, search)
    <3>1. Cardinality(new.current) + Len(search.stack) = Cardinality(search.current) + Len(new.stack)
      <4> DEFINE ca == Cardinality(search.current)
                 cb == Cardinality(new.current)
                 la == Len(search.stack)
                 lb == Len(new.stack)
      <4>1. ca \in Nat /\ la \in Nat
        BY <1>0
      <4>2. cb = ca + 1 /\ lb = la + 1
        BY <2>4, <2>6
      <4> HIDE DEF ca, cb, la, lb
      <4>3. cb + la = ca + lb
        BY <4>1, <4>2
      <4> QED
        BY <4>3 DEF ca, cb, la, lb
    <3> QED
      BY <2>1, <2>5, <3>1 DEF Continues
  <2>8. ASSUME NEW D \in SUBSET StatesOf(M), psi \subseteq D,
               \A q \in new.current \ psi : Meets(M.rows[q][new.choice[q]], D) => q \in D
        PROVE  new.current \subseteq D
    <3>1. \A q \in search.current \ psi : Meets(M.rows[q][search.choice[q]], D) => q \in D
      BY <2>1, <2>3, <2>8
    <3>2. search.current \subseteq D
      BY <2>8, <3>1 DEF Found
    <3>3. Meets(M.rows[p][new.choice[p]], D)
      BY <2>2, <2>3, <3>2 DEF Meets
    <3>4. p \in D
      BY <1>4, <2>1, <2>8, <3>3
    <3> QED
      BY <2>1, <3>2, <3>4
  <2>9. /\ psi \subseteq new.current
        /\ \A t : OnStack(new, t) => t \in new.current
        /\ \A q \in new.current \ psi : q \in phi /\ M.rows[q][new.choice[q]] \subseteq one
    BY <1>4, <2>1, <2>2, <2>3, <2>5 DEF Found
  <2>10. Found(new, M, one, phi, psi)
    BY <2>8, <2>9 DEF Found
  <2> QED
    BY <1>1, <2>1, <2>7, <2>10
<1> QED
  BY <1>3, <1>4

(* The predecessors that may go on to t within one are found.              *)
Searched(search, t, M, one, phi) ==
  \A p \in phi : (\E r \in Rows(M, p) : t \in M.rows[p][r] /\ M.rows[p][r] \subseteq one)
                   => p \in search.current

(* What is not on the stack any more has been searched from.               *)
Exhausts(search, M, one, phi) ==
  \A t \in search.current : OnStack(search, t) \/ Searched(search, t, M, one, phi)

(* A step finds all that the state on top of the stack leads to.           *)
LEMMA StepFinds ==
  ASSUME NEW M, MdpOK(M), NEW one, NEW phi \in SUBSET StatesOf(M), NEW psi \in SUBSET StatesOf(M),
         NEW search \in Search(M), Found(search, M, one, phi, psi), Exhausts(search, M, one, phi),
         search.stack # << >>, NEW new, new = VisitPredecessors(M, one, phi, search)
  PROVE  /\ new \in Search(M) /\ Found(new, M, one, phi, psi) /\ Exhausts(new, M, one, phi)
         /\ Cardinality(new.current) + Len(search.stack)
              = Cardinality(search.current) + Len(new.stack) + 1
<1> DEFINE t == Last(search.stack)
           preds == Predecessors(M, t)
           n == Cardinality(preds)
           base == [search EXCEPT !.stack = Front(search.stack)]
<1>1. /\ search.stack \in Seq(StatesOf(M)) /\ search.current \in SUBSET StatesOf(M)
      /\ Len(search.stack) \in Nat
  BY SearchType
<1>2. /\ n \in Nat /\ preds \in SUBSET StatesOf(M) /\ Ascending(preds) \in [1..n -> preds]
      /\ \A x \in preds : \E i \in 1..n : Ascending(preds)[i] = x
      /\ \E trace : VisitsInOrder(trace, n, M, one, phi, search, Ascending(preds))
  <2>1. preds = Predecessors(M, Last(search.stack)) /\ n = Cardinality(preds)
    OBVIOUS
  <2> HIDE DEF preds, n
  <2>2. /\ n \in Nat /\ Ascending(preds) \in [1..n -> preds] /\ preds \in SUBSET StatesOf(M)
        /\ \A x \in preds : \E i \in 1..n : Ascending(preds)[i] = x
    <3>1. preds \in SUBSET StatesOf(M)
      BY <2>1 DEF Predecessors
    <3>2. preds \in SUBSET Nat /\ IsFiniteSet(preds)
      BY <3>1, FS_Subset DEF MdpOK, GraphOK
    <3> QED
      BY <2>1, <3>1, <3>2, AscendingSet, FS_CardinalityType
  <2>3. \E trace : VisitsInOrder(trace, n, M, one, phi, search, Ascending(preds))
    BY <2>1, VisitsTrace
  <2> QED
    BY <2>2, <2>3
<1>3. PICK trace : VisitsInOrder(trace, n, M, one, phi, search, Ascending(preds))
  BY <1>2
<1> DEFINE P == Ascending(preds)
<1> HIDE DEF n, P
<1>4. /\ trace \in [0..n -> Search(M)] /\ trace[0] = base /\ trace[n] = new
      /\ \A k \in 1..n : trace[k] = VisitPredecessor(M, one, phi, trace[k - 1], P[k])
  BY <1>3 DEF VisitsInOrder, P
<1>5. /\ base.stack = Front(search.stack) /\ base.current = search.current
      /\ base.choice = search.choice
  BY DEF Search
<1>6. /\ Len(search.stack) > 0 /\ Len(base.stack) = Len(search.stack) - 1
      /\ t = search.stack[Len(search.stack)]
      /\ \A i \in 1..Len(base.stack) : base.stack[i] = search.stack[i] /\ i \in 1..Len(search.stack)
      /\ \A i \in 1..Len(search.stack) : i \in 1..Len(base.stack) \/ i = Len(search.stack)
  <2>1. Len(search.stack) > 0
    BY <1>1
  <2>2. base.stack = SubSeq(search.stack, 1, Len(search.stack) - 1)
    BY <1>5 DEF Front
  <2>3. /\ Len(base.stack) = Len(search.stack) - 1
        /\ \A i \in 1..(Len(search.stack) - 1) : base.stack[i] = search.stack[i]
    <3>1. Len(search.stack) - 1 \in 1 - 1 .. Len(search.stack)
      BY <1>1, <2>1
    <3> QED
      BY <1>1, <2>1, <2>2, <3>1, SubSeqProperties
  <2>4. t = search.stack[Len(search.stack)]
    BY DEF Last
  <2> QED
    BY <1>1, <2>1, <2>3, <2>4
<1> HIDE DEF t, base
<1>7. \A u : OnStack(search, u) <=> OnStack(base, u) \/ u = t
  <2>1. Len(search.stack) \in 1..Len(search.stack)
    BY <1>1, <1>6
  <2> QED
    BY <1>6, <2>1 DEF OnStack
<1>8. t \in search.current
  BY <1>7 DEF Found
<1>9. 0 \in 0..n /\ n \in 0..n /\ \A k \in 1..n : k \in 0..n /\ k - 1 \in 0..n
  BY <1>2
<1>10. base \in Search(M) /\ Found(base, M, one, phi, psi)
  <2>1. base \in Search(M)
    BY <1>4, <1>9
  <2> QED
    BY <1>5, <1>7, <2>1 DEF Found
<1> DEFINE Good(k) == /\ Found(trace[k], M, one, phi, psi) /\ Continues(trace[k], base)
                      /\ \A j \in 1..k : P[j] \in phi
                           /\ (\E r \in Rows(M, P[j]) : t \in M.rows[P[j]][r] /\ M.rows[P[j]][r] \subseteq one)
                             => P[j] \in trace[k].current
<1>11. Good(0)
  <2>1. Continues(base, base)
    BY <1>10, SearchType DEF Continues
  <2> QED
    BY <1>4, <1>10, <2>1
<1>12. ASSUME NEW k \in 1..n, Good(k - 1)
       PROVE  Good(k)
  <2>1. /\ trace[k - 1] \in Search(M) /\ P[k] \in StatesOf(M)
        /\ trace[k] = VisitPredecessor(M, one, phi, trace[k - 1], P[k])
    BY <1>2, <1>4, <1>9 DEF P
  <2>2. Found(trace[k - 1], M, one, phi, psi) /\ Continues(trace[k - 1], base)
    BY <1>12
  <2>3. /\ trace[k] \in Search(M) /\ Found(trace[k], M, one, phi, psi)
        /\ Continues(trace[k], trace[k - 1])
        /\ P[k] \in phi /\ (\E r \in Rows(M, P[k]) : Progresses(M.rows[P[k]][r], one, trace[k - 1].current))
             => P[k] \in trace[k].current
    BY <2>1, <2>2, VisitFinds
  <2>4. Continues(trace[k], base)
    BY <1>10, <2>1, <2>2, <2>3, ContinuesTransitive
  <2>5. t \in trace[k - 1].current /\ trace[k - 1].current \subseteq trace[k].current
    BY <1>5, <1>8, <2>2, <2>3 DEF Continues
  <2>6. ASSUME NEW j \in 1..k, P[j] \in phi,
               NEW r \in Rows(M, P[j]), t \in M.rows[P[j]][r], M.rows[P[j]][r] \subseteq one
        PROVE  P[j] \in trace[k].current
    <3>1. CASE j = k
      <4>1. Progresses(M.rows[P[k]][r], one, trace[k - 1].current)
        BY <2>5, <2>6, <3>1 DEF Progresses, Meets
      <4> QED
        BY <2>3, <2>6, <3>1, <4>1
    <3>2. CASE j # k
      <4>1. j \in 1..(k - 1)
        BY <1>2, <3>2
      <4> QED
        BY <1>12, <2>5, <2>6, <4>1
    <3> QED
      BY <3>1, <3>2
  <2> QED
    BY <2>3, <2>4, <2>6
<1>13. Good(n)
  <2> DEFINE B == {k \in 0..n : ~ Good(k)}
  <2>1. SUFFICES ASSUME B # {}
                 PROVE  FALSE
    BY <1>9
  <2>2. B \in SUBSET Nat
    BY <1>2
  <2>3. PICK k \in B : \A j \in B : k <= j
    BY <2>1, <2>2, LeastNatural
  <2> HIDE DEF Good
  <2>4. k \in 1..n /\ k - 1 \in 0..n
    BY <1>2, <1>11, <2>3
  <2>5. Good(k - 1)
    BY <1>2, <2>3, <2>4
  <2> QED
    BY <1>12, <2>3, <2>4, <2>5
<1>14. new \in Search(M) /\ Found(new, M, one, phi, psi) /\ Continues(new, base)
  BY <1>4, <1>9, <1>13
<1>15. Searched(new, t, M, one, phi)
  <2>1. ASSUME NEW p \in phi, NEW r \in Rows(M, p), t \in M.rows[p][r], M.rows[p][r] \subseteq one
        PROVE  p \in new.current
    <3>1. p \in preds
      BY <2>1 DEF Predecessors
    <3>2. PICK j \in 1..n : P[j] = p
      BY <1>2, <3>1 DEF P
    <3> QED
      BY <1>4, <1>13, <2>1, <3>2
  <2> QED
    BY <2>1 DEF Searched
<1>16. Exhausts(new, M, one, phi)
  <2>1. ASSUME NEW u \in new.current, ~ OnStack(new, u)
        PROVE  Searched(new, u, M, one, phi)
    <3>1. u \in search.current /\ ~ OnStack(base, u)
      BY <1>5, <1>14, <2>1 DEF Continues
    <3>2. CASE u = t
      BY <1>15, <3>2
    <3>3. CASE u # t
      <4>1. Searched(search, u, M, one, phi)
        BY <1>7, <3>1, <3>3 DEF Exhausts
      <4> QED
        BY <1>5, <1>14, <4>1 DEF Searched, Continues
    <3> QED
      BY <3>2, <3>3
  <2> QED
    BY <2>1 DEF Exhausts
<1>17. Cardinality(new.current) + Len(search.stack) = Cardinality(search.current) + Len(new.stack) + 1
  <2> DEFINE ca == Cardinality(search.current)
             cb == Cardinality(new.current)
             la == Len(search.stack)
             lb == Len(new.stack)
             lx == Len(base.stack)
  <2>1. ca \in Nat /\ cb \in Nat /\ la \in Nat /\ lb \in Nat
    BY <1>14, SearchType
  <2>2. cb + lx = ca + lb /\ lx = la - 1
    BY <1>5, <1>6, <1>14 DEF Continues
  <2> HIDE DEF ca, cb, la, lb, lx
  <2>3. cb + la = ca + lb + 1
    BY <2>1, <2>2
  <2> QED
    BY <2>3 DEF ca, cb, la, lb
<1> QED
  BY <1>14, <1>16, <1>17

(* The scheduler of the search: its rows stay in one, every state that may *)
(* go on to current within one is in current, and psi is reached along its *)
(* rows from all of current.                                               *)
ReachesAlong(f, current, M, one, phi, psi) ==
  /\ current \in SUBSET StatesOf(M) /\ psi \subseteq current
  /\ \A p \in phi : (\E r \in Rows(M, p) : Progresses(M.rows[p][r], one, current)) => p \in current
  /\ \A p \in current \ psi : p \in phi /\ M.rows[p][f[p]] \subseteq one
  /\ \A D \in SUBSET StatesOf(M) :
       psi \subseteq D /\ (\A p \in current \ psi : Meets(M.rows[p][f[p]], D) => p \in D)
         => current \subseteq D

(* At its end the search has found a set that is closed, in which every    *)
(* state's row makes progress.                                             *)
LEMMA SearchReaches ==
  ASSUME NEW M, MdpOK(M), NEW one, NEW phi \in SUBSET StatesOf(M), NEW psi \in SUBSET StatesOf(M),
         NEW f, f = computeSchedulerProb1E(M, one, phi, psi)
  PROVE  IsScheduler(f, M) /\ \E current : ReachesAlong(f, current, M, one, phi, psi)
<1>0. ASSUME NEW search \in Search(M), search.stack # << >>,
             Found(search, M, one, phi, psi), Exhausts(search, M, one, phi),
             NEW new, new = VisitPredecessors(M, one, phi, search)
      PROVE  /\ new \in Search(M) /\ Found(new, M, one, phi, psi) /\ Exhausts(new, M, one, phi)
             /\ Cardinality(new.current) + Len(search.stack)
                  = Cardinality(search.current) + Len(new.stack) + 1
  BY <1>0, StepFinds, Z3T(30)
<1> DEFINE n == Cardinality(StatesOf(M))
<1>1. n \in Nat
  BY FS_CardinalityType DEF MdpOK, GraphOK
<1>2. PICK trace : SearchInOrder(trace, M, one, phi, psi)
  BY SearchTrace
<1>3. /\ trace \in [0..n -> Search(M)] /\ trace[n].choice = f
      /\ trace[0].stack = Ascending(psi) /\ trace[0].current = psi
      /\ \A k \in 1..n : trace[k] = SearchStep(M, one, phi, trace[k - 1])
  BY <1>2 DEF SearchInOrder
<1> HIDE DEF n
<1>4. 0 \in 0..n /\ n \in 0..n /\ \A k \in 1..n : k \in 0..n /\ k - 1 \in 0..n
  BY <1>1
<1> DEFINE Good(k) == /\ Found(trace[k], M, one, phi, psi) /\ Exhausts(trace[k], M, one, phi)
                      /\ trace[k].stack # << >> =>
                           Cardinality(trace[k].current) = Len(trace[k].stack) + k
<1>5. Good(0)
  <2>1. psi \in SUBSET Nat /\ IsFiniteSet(psi)
    BY FS_Subset DEF MdpOK, GraphOK
  <2>2. /\ Ascending(psi) \in [1..Cardinality(psi) -> psi] /\ Ascending(psi) \in Seq(psi)
        /\ \A x \in psi : \E i \in 1..Cardinality(psi) : Ascending(psi)[i] = x
    BY <2>1, AscendingSet
  <2>3. Cardinality(psi) \in Nat
    BY <2>1, FS_CardinalityType
  <2>4. Len(Ascending(psi)) = Cardinality(psi)
    BY <2>2, <2>3, FunctionIsSeq
  <2>5. \A t : OnStack(trace[0], t) <=> t \in psi
    BY <1>3, <2>2, <2>4 DEF OnStack
  <2>6. Found(trace[0], M, one, phi, psi) /\ Exhausts(trace[0], M, one, phi)
    BY <1>3, <2>5 DEF Found, Exhausts
  <2> QED
    BY <1>3, <2>3, <2>4, <2>6
<1>6. ASSUME NEW k \in 1..n, Good(k - 1)
      PROVE  Good(k)
  <2> DEFINE old == trace[k - 1]
             new == trace[k]
  <2>1. /\ old \in Search(M) /\ Found(old, M, one, phi, psi) /\ Exhausts(old, M, one, phi)
        /\ new = SearchStep(M, one, phi, old)
        /\ old.stack # << >> => Cardinality(old.current) = Len(old.stack) + (k - 1)
    BY <1>3, <1>4, <1>6
  <2> HIDE DEF old, new
  <2>2. CASE old.stack = << >>
    <3>1. new = old
      BY <2>1, <2>2 DEF SearchStep
    <3> QED
      BY <2>1, <2>2, <3>1 DEF new
  <2>3. CASE old.stack # << >>
    <3>1. new = VisitPredecessors(M, one, phi, old)
      BY <2>1, <2>3 DEF SearchStep
    <3>2. /\ new \in Search(M) /\ Found(new, M, one, phi, psi) /\ Exhausts(new, M, one, phi)
          /\ Cardinality(new.current) + Len(old.stack)
               = Cardinality(old.current) + Len(new.stack) + 1
      BY <2>1, <2>3, <3>1, <1>0
    <3>3. Cardinality(new.current) = Len(new.stack) + k
      <4> DEFINE ca == Cardinality(old.current)
                 cb == Cardinality(new.current)
                 la == Len(old.stack)
                 lb == Len(new.stack)
      <4>1. ca \in Nat /\ cb \in Nat /\ la \in Nat /\ lb \in Nat /\ k \in Nat
        BY <1>1, <2>1, <3>2, SearchType
      <4>2. cb + la = ca + lb + 1 /\ ca = la + (k - 1)
        BY <2>1, <2>3, <3>2
      <4> HIDE DEF ca, cb, la, lb
      <4>3. cb = lb + k
        BY <4>1, <4>2
      <4> QED
        BY <4>3 DEF cb, lb
    <3> QED
      BY <3>2, <3>3 DEF new
  <2> QED
    BY <2>2, <2>3
<1>7. Good(n)
  <2> DEFINE B == {k \in 0..n : ~ Good(k)}
  <2>1. SUFFICES ASSUME B # {}
                 PROVE  FALSE
    BY <1>4
  <2>2. B \in SUBSET Nat
    BY <1>1
  <2>3. PICK k \in B : \A j \in B : k <= j
    BY <2>1, <2>2, LeastNatural
  <2> HIDE DEF Good
  <2>4. k \in 1..n /\ k - 1 \in 0..n
    BY <1>1, <1>5, <2>3
  <2>5. Good(k - 1)
    BY <1>1, <2>3, <2>4
  <2> QED
    BY <1>6, <2>3, <2>4, <2>5
<1> DEFINE last == trace[n]
           current == last.current
<1>8. /\ last \in Search(M) /\ Found(last, M, one, phi, psi) /\ Exhausts(last, M, one, phi)
      /\ last.stack # << >> => Cardinality(last.current) = Len(last.stack) + n
  BY <1>3, <1>4, <1>7
<1>9. last.choice = f
  BY <1>3
<1> HIDE DEF last, Good
<1>10. last.stack = << >>
  <2>1. SUFFICES ASSUME last.stack # << >>
                 PROVE  FALSE
    OBVIOUS
  <2> DEFINE c == Cardinality(last.current)
             l == Len(last.stack)
  <2>2. c \in Nat /\ l \in Nat /\ c <= n /\ last.stack \in Seq(StatesOf(M))
    BY <1>8, SearchType DEF n
  <2>3. l # 0
    BY <2>1, <2>2
  <2>4. c = l + n
    BY <1>8, <2>1
  <2> HIDE DEF c, l
  <2> QED
    BY <1>1, <2>2, <2>3, <2>4
<1>11. \A t \in current : Searched(last, t, M, one, phi)
  BY <1>8, <1>10 DEF Exhausts, OnStack
<1>12. ReachesAlong(f, current, M, one, phi, psi)
  <2>1. current \in SUBSET StatesOf(M) /\ psi \subseteq current
    BY <1>8, SearchType DEF Found
  <2>2. ASSUME NEW p \in phi, NEW r \in Rows(M, p), Progresses(M.rows[p][r], one, current)
        PROVE  p \in current
    <3>1. PICK t \in current : t \in M.rows[p][r]
      BY <2>2 DEF Progresses, Meets
    <3> QED
      BY <1>11, <2>2, <3>1 DEF Searched, Progresses
  <2>3. \A p \in current \ psi : p \in phi /\ M.rows[p][f[p]] \subseteq one
    BY <1>8, <1>9 DEF Found
  <2>4. \A D \in SUBSET StatesOf(M) :
          psi \subseteq D /\ (\A p \in current \ psi : Meets(M.rows[p][f[p]], D) => p \in D)
            => current \subseteq D
    BY <1>8, <1>9 DEF Found
  <2> HIDE DEF current
  <2> QED
    BY <2>1, <2>2, <2>3, <2>4 DEF ReachesAlong
<1>13. IsScheduler(f, M)
  BY SearchSchedules
<1> QED
  BY <1>12, <1>13

-----------------------------------------------------------------------------
(***************************************************************************)
(* The chains of schedulers.                                               *)
(***************************************************************************)
LEMMA ChainOfScheduler ==
  ASSUME NEW M, MdpOK(M), NEW f, IsScheduler(f, M), NEW C, C = ChainOf(M, f)
  PROVE  /\ ChainIn(C, M) /\ IsChain(C) /\ StatesOf(C) = StatesOf(M)
         /\ \A s \in StatesOf(M) : C.rows[s][1] = M.rows[s][f[s]]
         /\ f \in Schedulers(M)
<1> DEFINE S == StatesOf(M)
<1>1. /\ C.rows = [s \in S |-> <<M.rows[s][f[s]]>>] /\ C.initial = M.initial
  BY DEF ChainOf
<1>2. StatesOf(C) = S /\ \A s \in S : C.rows[s] = <<M.rows[s][f[s]]>>
  BY <1>1 DEF StatesOf
<1>3. ASSUME NEW s \in S
      PROVE  Rows(C, s) = {1} /\ C.rows[s][1] = M.rows[s][f[s]]
  <2>1. \A x : DOMAIN <<x>> = {1} /\ <<x>>[1] = x
    OBVIOUS
  <2> QED
    BY <1>2, <2>1 DEF Rows
<1>4. \A s \in S : f[s] \in Rows(M, s) /\ M.rows[s][f[s]] \subseteq S
  BY DEF IsScheduler, MdpOK, GraphOK
<1>5. IsChain(C)
  BY <1>2, <1>3, <1>4 DEF IsChain, GraphOK, MdpOK
<1>6. ChainIn(C, M)
  BY <1>2, <1>3, <1>4, <1>5 DEF ChainIn
<1>7. f \in Schedulers(M)
  BY <1>4 DEF Schedulers, IsScheduler
<1> QED
  BY <1>2, <1>3, <1>5, <1>6, <1>7

(* The schedulers of the property are those of the lemmas.                 *)
LEMMA SchedulersAre ==
  ASSUME NEW M, MdpOK(M), NEW f \in Schedulers(M)
  PROVE  IsScheduler(f, M)
<1>1. /\ f \in [StatesOf(M) -> UNION {Rows(M, s) : s \in StatesOf(M)}]
      /\ \A s \in StatesOf(M) : f[s] \in Rows(M, s)
  BY DEF Schedulers
<1>2. \A s \in StatesOf(M) : Rows(M, s) \subseteq Nat
  BY DEF MdpOK, Rows
<1>3. UNION {Rows(M, s) : s \in StatesOf(M)} \subseteq Nat
  BY <1>2
<1> QED
  BY <1>1, <1>3 DEF IsScheduler

(* A set that the chain stays in and that misses the target is lost.       *)
LEMMA StayingIsNever ==
  ASSUME NEW C, IsChain(C), NEW target, NEW Z \in SUBSET StatesOf(C),
         \A s \in Z : C.rows[s][1] \subseteq Z, Z \cap target = {}
  PROVE  Z \subseteq Never(C, target)
<1>1. ASSUME NEW s \in Z
      PROVE  s \in Never(C, target)
  <2>1. ReachableFrom(C, s) \subseteq Z
    BY ReachableInChain
  <2> QED
    BY <2>1, NeverInChain
<1> QED
  BY <1>1

(* A target is reached from itself.                                        *)
LEMMA TargetNotNever ==
  ASSUME NEW C, IsChain(C), NEW target, NEW s \in StatesOf(C), s \in target
  PROVE  s \notin Never(C, target)
BY ReachableInChain, NeverInChain

(* States that reach psi along a scheduler's rows are not lost with it.    *)
LEMMA AlongIsNotNever ==
  ASSUME NEW M, MdpOK(M), NEW f, IsScheduler(f, M), NEW current, NEW one, NEW phi,
         NEW psi, ReachesAlong(f, current, M, one, phi, psi)
  PROVE  current \cap Never(ChainOf(M, f), psi) = {}
<1> DEFINE C == ChainOf(M, f)
           D == {t \in StatesOf(M) : t \notin Never(C, psi)}
<1>1. IsChain(C) /\ StatesOf(C) = StatesOf(M) /\ \A s \in StatesOf(M) : C.rows[s][1] = M.rows[s][f[s]]
  BY ChainOfScheduler
<1> HIDE DEF C
<1>2. current \in SUBSET StatesOf(M) /\ psi \subseteq current
  BY DEF ReachesAlong
<1>3. psi \subseteq D
  BY <1>1, <1>2, TargetNotNever
<1>4. ASSUME NEW p \in current \ psi, Meets(M.rows[p][f[p]], D)
      PROVE  p \in D
  <2>1. PICK t \in C.rows[p][1] : t \in D
    BY <1>1, <1>2, <1>4 DEF Meets
  <2> QED
    BY <1>1, <1>2, <2>1, NextOfSurely
<1>5. D \in SUBSET StatesOf(M)
  OBVIOUS
<1>6. current \subseteq D
  <2> HIDE DEF D
  <2> QED
    BY <1>3, <1>4, <1>5 DEF ReachesAlong
<1> QED
  BY <1>6 DEF C

(* The scheduler of the maximum attains it wherever it is 1.               *)
LEMMA MaximumAttained ==
  ASSUME NEW M, MdpOK(M), NEW psi \in SUBSET StatesOf(M), NEW one, NEW f,
         one = performProb1E(M, StatesOf(M), psi),
         f = computeSchedulerProb1E(M, one, StatesOf(M), psi)
  PROVE  IsScheduler(f, M) /\ one \subseteq Surely(ChainOf(M, f), psi)
<1> DEFINE S == StatesOf(M)
           C == ChainOf(M, f)
<1>1. IsScheduler(f, M) /\ \E current : ReachesAlong(f, current, M, one, S, psi)
  BY SearchReaches
<1>2. PICK current : ReachesAlong(f, current, M, one, S, psi)
  BY <1>1
<1>3. IsChain(C) /\ StatesOf(C) = S /\ \A s \in S : C.rows[s][1] = M.rows[s][f[s]]
  BY <1>1, ChainOfScheduler
<1>4. current \cap Never(C, psi) = {}
  BY <1>1, <1>2, AlongIsNotNever
<1>5. one \in SUBSET S /\ Next1E(M, S, psi, one) = one /\ IsNext1E(Next1E(M, S, psi, one), M, one, S, psi)
  BY Prob1EIsGreatest, Next1EIsLeast DEF IsProb1E, MdpOK
<1>6. one \subseteq current
  BY <1>2, <1>5 DEF ReachesAlong, IsNext1E
<1> HIDE DEF C
<1>7. ASSUME NEW s \in one
      PROVE  s \in Surely(C, psi)
  <2>1. \A t \in one \ psi : C.rows[t][1] \subseteq one
    BY <1>2, <1>3, <1>5, <1>6 DEF ReachesAlong
  <2>2. Avoiding(C, psi, s) \subseteq one
    BY <1>3, <1>5, <2>1, AvoidingInChain
  <2> QED
    BY <1>3, <1>4, <1>5, <1>6, <2>2, SurelyInChain
<1> QED
  BY <1>1, <1>7 DEF C

(* The scheduler of the minimum attains it wherever it is 0.               *)
LEMMA MinimumAttained ==
  ASSUME NEW M, MdpOK(M), NEW psi \in SUBSET StatesOf(M), NEW zero, NEW f,
         zero = performProb0E(M, StatesOf(M), psi), IsScheduler(f, M),
         \A s \in zero : f[s] = StayingRow(M, s, zero)
  PROVE  zero \subseteq Never(ChainOf(M, f), psi)
<1> DEFINE S == StatesOf(M)
           C == ChainOf(M, f)
<1>1. IsChain(C) /\ StatesOf(C) = S /\ \A s \in S : C.rows[s][1] = M.rows[s][f[s]]
  BY ChainOfScheduler
<1>2. IsGreater0A(performProbGreater0A(M, S, psi), M, S, psi)
  BY Greater0AIsLeast DEF MdpOK
<1>3. zero \in SUBSET S /\ zero \cap psi = {}
  BY <1>2 DEF IsGreater0A, performProb0E
<1> HIDE DEF C
<1>4. ASSUME NEW s \in zero
      PROVE  C.rows[s][1] \subseteq zero
  <2>1. M.rows[s] \in Seq(SUBSET S) /\ s \in S
    BY <1>3 DEF MdpOK
  <2>2. \E r \in Rows(M, s) : M.rows[s][r] \subseteq zero
    BY <1>2, <1>4 DEF IsGreater0A, performProb0E, Meets, MdpOK, GraphOK
  <2>3. M.rows[s][StayingRow(M, s, zero)] \subseteq zero
    BY <2>1, <2>2, StayingRowStays
  <2> QED
    BY <1>1, <2>1, <2>3
<1> QED
  BY <1>1, <1>3, <1>4, StayingIsNever DEF C

(* If the target may be reached, some scheduler reaches it.                *)
LEMMA PositiveAttained ==
  ASSUME NEW M, MdpOK(M), NEW psi \in SUBSET StatesOf(M),
         NEW s \in performProbGreater0E(M, StatesOf(M), psi)
  PROVE  \E f \in Schedulers(M) : s \notin Never(ChainOf(M, f), psi)
<1> DEFINE S == StatesOf(M)
           f == computeSchedulerProb1E(M, S, S, psi)
           R == performProbGreater0E(M, S, psi)
<1>1. IsGreater0E(R, M, S, psi)
  BY Greater0EIsLeast DEF MdpOK
<1>2. IsScheduler(f, M) /\ \E current : ReachesAlong(f, current, M, S, S, psi)
  BY SearchReaches
<1> HIDE DEF f, R
<1>3. PICK current : ReachesAlong(f, current, M, S, S, psi)
  BY <1>2
<1>4. ASSUME NEW p \in S, NEW r \in Rows(M, p), Meets(M.rows[p][r], current)
      PROVE  p \in current
  <2>1. Progresses(M.rows[p][r], S, current)
    BY <1>4 DEF Progresses, MdpOK, GraphOK
  <2> QED
    BY <1>3, <2>1 DEF ReachesAlong
<1>5. R \subseteq current
  BY <1>1, <1>3, <1>4 DEF IsGreater0E, ReachesAlong
<1>6. current \cap Never(ChainOf(M, f), psi) = {}
  BY <1>2, <1>3, AlongIsNotNever
<1>7. f \in Schedulers(M)
  BY <1>2, ChainOfScheduler
<1> QED
  BY <1>5, <1>6, <1>7 DEF R

(* If it may be lost before it is reached, some scheduler loses it.        *)
LEMMA LossAttained ==
  ASSUME NEW M, MdpOK(M), NEW psi \in SUBSET StatesOf(M), NEW zero,
         zero = performProb0E(M, StatesOf(M), psi),
         NEW s \in performProbGreater0E(M, StatesOf(M) \ psi, zero)
  PROVE  \E f \in Schedulers(M) : s \notin Surely(ChainOf(M, f), psi)
<1> DEFINE S == StatesOf(M)
           g == computeSchedulerProb1E(M, S, S \ psi, zero)
           f == [t \in S |-> IF t \in zero THEN StayingRow(M, t, zero) ELSE g[t]]
           C == ChainOf(M, f)
           R == performProbGreater0E(M, S \ psi, zero)
<1>1. IsGreater0A(performProbGreater0A(M, S, psi), M, S, psi)
  BY Greater0AIsLeast DEF MdpOK
<1>2. zero \in SUBSET S /\ zero \cap psi = {} /\ S \ psi \in SUBSET S
  BY <1>1 DEF IsGreater0A, performProb0E
<1>3. IsGreater0E(R, M, S \ psi, zero)
  BY <1>2, Greater0EIsLeast DEF MdpOK
<1>4. IsScheduler(g, M) /\ \E current : ReachesAlong(g, current, M, S, S \ psi, zero)
  BY <1>2, SearchReaches
<1> HIDE DEF g, R
<1>5. PICK current : ReachesAlong(g, current, M, S, S \ psi, zero)
  BY <1>4
<1>6. ASSUME NEW p \in S \ psi, NEW r \in Rows(M, p), Meets(M.rows[p][r], current)
      PROVE  p \in current
  <2>1. Progresses(M.rows[p][r], S, current)
    BY <1>6 DEF Progresses, MdpOK, GraphOK
  <2> QED
    BY <1>5, <2>1 DEF ReachesAlong
<1>7. R \subseteq current /\ current \in SUBSET S
  BY <1>3, <1>5, <1>6 DEF IsGreater0E, ReachesAlong
<1>8. IsScheduler(f, M)
  <2>1. ASSUME NEW t \in S
        PROVE  f[t] \in Rows(M, t) /\ f[t] \in Nat
    <3>1. M.rows[t] \in Seq(SUBSET S) /\ Rows(M, t) \subseteq Nat
      BY DEF MdpOK, Rows
    <3>2. t \in zero => \E r \in Rows(M, t) : M.rows[t][r] \subseteq zero
      BY <1>1 DEF IsGreater0A, performProb0E, Meets, MdpOK, GraphOK
    <3>3. t \in zero => StayingRow(M, t, zero) \in Rows(M, t)
      BY <3>1, <3>2, StayingRowStays
    <3> QED
      BY <1>4, <3>1, <3>3 DEF IsScheduler
  <2> QED
    BY <2>1 DEF IsScheduler
<1>9. \A t \in zero : f[t] = StayingRow(M, t, zero)
  BY <1>2
<1>10. \A t \in current \ zero : f[t] = g[t]
  BY <1>7
<1> HIDE DEF f
<1>11. zero \subseteq Never(C, psi)
  BY <1>8, <1>9, MinimumAttained
<1>12. IsChain(C) /\ StatesOf(C) = S /\ \A t \in S : C.rows[t][1] = M.rows[t][f[t]]
  BY <1>8, ChainOfScheduler
<1> HIDE DEF C
<1> DEFINE D == {t \in S : t \notin Surely(C, psi)}
<1>13. zero \subseteq D
  BY <1>2, <1>11, <1>12, SurelyNotNever
<1>14. ASSUME NEW p \in current \ zero, Meets(M.rows[p][g[p]], D)
       PROVE  p \in D
  <2>1. p \in S /\ p \notin psi
    BY <1>5, <1>7 DEF ReachesAlong
  <2>2. PICK t \in C.rows[p][1] : t \in D
    BY <1>10, <1>12, <1>14, <2>1 DEF Meets
  <2> QED
    BY <1>12, <2>1, <2>2, NextOfSurely
<1>15. D \in SUBSET S
  OBVIOUS
<1>16. current \subseteq D
  <2> HIDE DEF D
  <2> QED
    BY <1>5, <1>13, <1>14, <1>15 DEF ReachesAlong
<1>17. f \in Schedulers(M)
  BY <1>8, ChainOfScheduler
<1> QED
  BY <1>7, <1>16, <1>17 DEF R, C

(* The scheduler of a bound attains it in every state at once.             *)
LEMMA BoundsAttained ==
  ASSUME NEW M, MdpOK(M), NEW psi \in SUBSET StatesOf(M)
  PROVE  /\ computeUntilProbabilities(M, TRUE, psi).zero
              = Never(ChainOf(M, computeUntilProbabilities(M, TRUE, psi).scheduler), psi)
         /\ computeUntilProbabilities(M, FALSE, psi).one
              = Surely(ChainOf(M, computeUntilProbabilities(M, FALSE, psi).scheduler), psi)
<1> DEFINE S == StatesOf(M)
           least == computeUntilProbabilities(M, TRUE, psi)
           most == computeUntilProbabilities(M, FALSE, psi)
           C == ChainOf(M, least.scheduler)
           D == ChainOf(M, most.scheduler)
           zero == performProb0E(M, S, psi)
           one == performProb1E(M, S, psi)
<1>1. least.zero = zero /\ most.one = one
  BY UntilValues
<1>2. least.scheduler = [s \in S |-> IF s \in zero THEN StayingRow(M, s, zero) ELSE 1]
  <2>1. QualitativeStateSets(M, TRUE, S, psi).zero = zero
    BY DEF QualitativeStateSets, performProb01Min
  <2>2. least.scheduler = extendScheduler(M, TRUE, QualitativeStateSets(M, TRUE, S, psi), S, psi)
    BY DEF computeUntilProbabilities
  <2> DEFINE sets == QualitativeStateSets(M, TRUE, S, psi)
  <2> HIDE DEF sets, zero, least
  <2>3. extendScheduler(M, TRUE, sets, S, psi)
          = [s \in StatesOf(M) |-> IF s \in sets.zero THEN StayingRow(M, s, sets.zero) ELSE 1]
    BY DEF extendScheduler
  <2>4. sets.zero = zero /\ least.scheduler = extendScheduler(M, TRUE, sets, S, psi)
    BY <2>1, <2>2 DEF sets
  <2> QED
    BY <2>3, <2>4
<1>3. most.scheduler = computeSchedulerProb1E(M, one, S, psi)
  <2>1. QualitativeStateSets(M, FALSE, S, psi).one = one
    BY DEF QualitativeStateSets, performProb01Max
  <2>2. most.scheduler = extendScheduler(M, FALSE, QualitativeStateSets(M, FALSE, S, psi), S, psi)
    BY DEF computeUntilProbabilities
  <2> HIDE DEF one, most, S
  <2> QED
    BY <2>1, <2>2 DEF extendScheduler
<1>4. IsScheduler(least.scheduler, M) /\ IsScheduler(most.scheduler, M)
  BY ProbSchedules
<1>5. zero \in SUBSET S
  BY DEF performProb0E
<1> HIDE DEF least, most, zero, one
<1>6. \A s \in zero : least.scheduler[s] = StayingRow(M, s, zero)
  BY <1>2, <1>5
<1>7. zero \subseteq Never(C, psi)
  BY <1>4, <1>6, MinimumAttained DEF zero
<1>8. one \subseteq Surely(D, psi)
  BY <1>3, MaximumAttained DEF one
<1>9. ChainIn(C, M) /\ ChainIn(D, M) /\ StatesOf(C) = S /\ StatesOf(D) = S
  BY <1>4, ChainOfScheduler
<1> HIDE DEF C, D
<1>10. psi = psi \cap S /\ GraphOK(M)
  BY DEF MdpOK
<1>11. ASSUME NEW s \in S
       PROVE  (s \in Never(C, psi) => s \in least.zero) /\ (s \in Surely(D, psi) => s \in most.one)
  BY <1>9, <1>10, BoundsOfChain DEF least, most
<1>12. Never(C, psi) \subseteq S /\ Surely(D, psi) \subseteq S
  <2>1. Never(C, psi) \subseteq S
    BY <1>9 DEF Never
  <2>2. IsChain(D)
    BY <1>9 DEF ChainIn
  <2>3. Surely(D, psi) \subseteq S
    BY <1>9, <2>2, SurelyNotNever
  <2> QED
    BY <2>1, <2>3
<1> QED
  BY <1>1, <1>7, <1>8, <1>11, <1>12 DEF C, D, least, most

(* The bounds are the extremal values of the schedulers.                   *)
LEMMA BoundsExact ==
  ASSUME NEW M, MdpOK(M), NEW psi \in SUBSET StatesOf(M), NEW s \in StatesOf(M)
  PROVE  /\ s \in performProb01Min(M, StatesOf(M), psi).zero
              <=> \E f \in Schedulers(M) : s \in Never(ChainOf(M, f), psi)
         /\ s \in performProb01Min(M, StatesOf(M), psi).one
              <=> \A f \in Schedulers(M) : s \in Surely(ChainOf(M, f), psi)
         /\ s \in performProb01Max(M, StatesOf(M), psi).zero
              <=> \A f \in Schedulers(M) : s \in Never(ChainOf(M, f), psi)
         /\ s \in performProb01Max(M, StatesOf(M), psi).one
              <=> \E f \in Schedulers(M) : s \in Surely(ChainOf(M, f), psi)
<1> DEFINE S == StatesOf(M)
           least == computeUntilProbabilities(M, TRUE, psi)
           most == computeUntilProbabilities(M, FALSE, psi)
           zero == performProb0E(M, S, psi)
<1>1. /\ performProb01Min(M, S, psi).zero = least.zero /\ performProb01Min(M, S, psi).one = least.one
      /\ performProb01Max(M, S, psi).zero = most.zero /\ performProb01Max(M, S, psi).one = most.one
  BY UntilValues DEF performProb01Min, performProb01Max
<1>2. /\ least.zero = zero /\ least.one = S \ performProbGreater0E(M, S \ psi, zero)
      /\ most.zero = S \ performProbGreater0E(M, S, psi)
  BY UntilValues DEF performProb0A
<1>3. /\ least.scheduler \in Schedulers(M) /\ most.scheduler \in Schedulers(M)
      /\ least.zero = Never(ChainOf(M, least.scheduler), psi)
      /\ most.one = Surely(ChainOf(M, most.scheduler), psi)
  <2>1. IsScheduler(least.scheduler, M) /\ IsScheduler(most.scheduler, M)
    BY ProbSchedules
  <2>2. /\ least.zero = Never(ChainOf(M, least.scheduler), psi)
        /\ most.one = Surely(ChainOf(M, most.scheduler), psi)
    BY BoundsAttained
  <2> HIDE DEF least, most
  <2> QED
    BY <2>1, <2>2, ChainOfScheduler
<1>4. ASSUME NEW f \in Schedulers(M)
      PROVE  /\ s \in most.zero => s \in Never(ChainOf(M, f), psi)
             /\ s \in Never(ChainOf(M, f), psi) => s \in least.zero
             /\ s \in Surely(ChainOf(M, f), psi) => s \in most.one
             /\ s \in least.one => s \in Surely(ChainOf(M, f), psi)
  <2>1. IsScheduler(f, M)
    BY SchedulersAre
  <2>2. ChainIn(ChainOf(M, f), M) /\ GraphOK(M) /\ psi = psi \cap S
    BY <2>1, ChainOfScheduler DEF MdpOK
  <2> QED
    BY <2>2, BoundsOfChain
<1>5. s \notin least.one => \E f \in Schedulers(M) : s \notin Surely(ChainOf(M, f), psi)
  BY <1>2, LossAttained
<1>6. s \notin most.zero => \E f \in Schedulers(M) : s \notin Never(ChainOf(M, f), psi)
  BY <1>2, PositiveAttained
<1> HIDE DEF least, most, zero
<1> QED
  BY <1>1, <1>3, <1>4, <1>5, <1>6

(* Whatever the sketch, the states that the analysis of a family gives the *)
(* values 0 and 1 are those where the best memoryless scheduler attains    *)
(* them, for the minimum and for the maximum.                              *)
THEOREM ValuesAreExact == Spec => []ValuesExact
<1>1. ASSUME IInv
      PROVE  ValuesExact
  <2>1. SUFFICES ASSUME JustBuilt
                 PROVE  ValuesExact
    BY DEF ValuesExact
  <2>2. MdpOK(mdp)
    BY <1>1, <2>1 DEF IInv, FamilyInv, IsModel, JustBuilt
  <2> DEFINE target   == Target(mdp)
             outcomes == {Outcome01(ChainOf(mdp, f), target) : f \in Schedulers(mdp)}
             least    == performProb01Min(mdp, StatesOf(mdp), target)
             most     == performProb01Max(mdp, StatesOf(mdp), target)
  <2>3. target \in SUBSET StatesOf(mdp)
    BY DEF Target
  <2> HIDE DEF target
  <2>4. ASSUME NEW s \in StatesOf(mdp)
        PROVE  /\ s \in least.zero <=> \E f \in Schedulers(mdp) : s \in Never(ChainOf(mdp, f), target)
               /\ s \in least.one  <=> \A f \in Schedulers(mdp) : s \in Surely(ChainOf(mdp, f), target)
               /\ s \in most.zero  <=> \A f \in Schedulers(mdp) : s \in Never(ChainOf(mdp, f), target)
               /\ s \in most.one   <=> \E f \in Schedulers(mdp) : s \in Surely(ChainOf(mdp, f), target)
    BY <2>2, <2>3, BoundsExact
  <2>5. \A f : /\ Outcome01(ChainOf(mdp, f), target).never = Never(ChainOf(mdp, f), target)
               /\ Outcome01(ChainOf(mdp, f), target).surely = Surely(ChainOf(mdp, f), target)
    BY DEF Outcome01
  <2>6. ASSUME NEW s
        PROVE  /\ (\E o \in outcomes : s \in o.never)
                    <=> \E f \in Schedulers(mdp) : s \in Never(ChainOf(mdp, f), target)
               /\ (\A o \in outcomes : s \in o.never)
                    <=> \A f \in Schedulers(mdp) : s \in Never(ChainOf(mdp, f), target)
               /\ (\E o \in outcomes : s \in o.surely)
                    <=> \E f \in Schedulers(mdp) : s \in Surely(ChainOf(mdp, f), target)
               /\ (\A o \in outcomes : s \in o.surely)
                    <=> \A f \in Schedulers(mdp) : s \in Surely(ChainOf(mdp, f), target)
    BY <2>5
  <2> HIDE DEF outcomes, least, most
  <2>7. \A s \in StatesOf(mdp) :
          /\ s \in least.zero <=> \E o \in outcomes : s \in o.never
          /\ s \in least.one  <=> \A o \in outcomes : s \in o.surely
          /\ s \in most.zero  <=> \A o \in outcomes : s \in o.never
          /\ s \in most.one   <=> \E o \in outcomes : s \in o.surely
    BY <2>4, <2>6
  <2> QED
    BY <2>7 DEF ValuesExact, target, outcomes, least, most
<1> QED
  BY <1>1, SpecIInv, PTL

(* Whatever the sketch, the scheduler that is extracted with a bound of a  *)
(* family attains it in every state at once.                               *)
THEOREM SchedulersAttain == Spec => []SchedulerAttains
<1>1. ASSUME IInv
      PROVE  SchedulerAttains
  <2>1. SUFFICES ASSUME JustBuilt, NEW minimize \in BOOLEAN
                 PROVE  LET result  == computeUntilProbabilities(mdp, minimize, Target(mdp))
                            outcome == Outcome01(ChainOf(mdp, result.scheduler), Target(mdp))
                        IN  IF minimize THEN result.zero = outcome.never
                            ELSE result.one = outcome.surely
    BY DEF SchedulerAttains
  <2>2. MdpOK(mdp)
    BY <1>1, <2>1 DEF IInv, FamilyInv, IsModel, JustBuilt
  <2>3. Target(mdp) \in SUBSET StatesOf(mdp)
    BY DEF Target
  <2>4. /\ computeUntilProbabilities(mdp, TRUE, Target(mdp)).zero
             = Never(ChainOf(mdp, computeUntilProbabilities(mdp, TRUE, Target(mdp)).scheduler), Target(mdp))
        /\ computeUntilProbabilities(mdp, FALSE, Target(mdp)).one
             = Surely(ChainOf(mdp, computeUntilProbabilities(mdp, FALSE, Target(mdp)).scheduler), Target(mdp))
    BY <2>2, <2>3, BoundsAttained
  <2>5. minimize = TRUE \/ minimize = FALSE
    OBVIOUS
  <2> QED
    BY <2>4, <2>5 DEF Outcome01
<1> QED
  BY <1>1, SpecIInv, PTL

-----------------------------------------------------------------------------
(***************************************************************************)
(* Chains that agree on the states reached from i give i the same value.   *)
(***************************************************************************)
AgreeWithin(C, D, N) == \A s \in N : C.rows[s][1] = D.rows[s][1] /\ C.rows[s][1] \subseteq N

(* What one chain reaches from a state the other one reaches too.          *)
LEMMA ReachesAlike ==
  ASSUME NEW C, IsChain(C), NEW D, IsChain(D), NEW N \in SUBSET StatesOf(C), N \in SUBSET StatesOf(D),
         AgreeWithin(C, D, N), NEW target, NEW u, target \cap N = u \cap N, NEW i \in N
  PROVE  /\ ReachableFrom(C, i) \subseteq N /\ ReachableFrom(D, i) = ReachableFrom(C, i)
         /\ Avoiding(C, target, i) \subseteq N /\ Avoiding(D, u, i) = Avoiding(C, target, i)
<1>1. /\ i \in StatesOf(C) /\ i \in StatesOf(D)
      /\ \A t \in N : C.rows[t][1] \subseteq N /\ D.rows[t][1] \subseteq N /\ C.rows[t][1] = D.rows[t][1]
      /\ \A t \in N : t \in target <=> t \in u
  BY DEF AgreeWithin
<1> DEFINE RC == ReachableFrom(C, i)
           RD == ReachableFrom(D, i)
           AC == Avoiding(C, target, i)
           AD == Avoiding(D, u, i)
<1>2. /\ RC \in SUBSET StatesOf(C) /\ i \in RC /\ \A t \in RC : C.rows[t][1] \subseteq RC
      /\ \A X \in SUBSET StatesOf(C) : i \in X /\ (\A t \in X : C.rows[t][1] \subseteq X) => RC \subseteq X
  BY <1>1, ReachableInChain
<1>3. /\ RD \in SUBSET StatesOf(D) /\ i \in RD /\ \A t \in RD : D.rows[t][1] \subseteq RD
      /\ \A X \in SUBSET StatesOf(D) : i \in X /\ (\A t \in X : D.rows[t][1] \subseteq X) => RD \subseteq X
  BY <1>1, ReachableInChain
<1>4. /\ AC \in SUBSET StatesOf(C) /\ i \in AC /\ \A t \in AC \ target : C.rows[t][1] \subseteq AC
      /\ \A X \in SUBSET StatesOf(C) :
           i \in X /\ (\A t \in X \ target : C.rows[t][1] \subseteq X) => AC \subseteq X
  BY <1>1, AvoidingInChain
<1>5. /\ AD \in SUBSET StatesOf(D) /\ i \in AD /\ \A t \in AD \ u : D.rows[t][1] \subseteq AD
      /\ \A X \in SUBSET StatesOf(D) :
           i \in X /\ (\A t \in X \ u : D.rows[t][1] \subseteq X) => AD \subseteq X
  BY <1>1, AvoidingInChain
<1> HIDE DEF RC, RD, AC, AD
<1>6. RC \subseteq N /\ RD \subseteq N /\ AC \subseteq N /\ AD \subseteq N
  BY <1>1, <1>2, <1>3, <1>4, <1>5
<1>7. RC \subseteq RD
  <2>1. RD \in SUBSET StatesOf(C) /\ \A t \in RD : C.rows[t][1] \subseteq RD
    BY <1>1, <1>3, <1>6
  <2> QED
    BY <1>2, <1>3, <2>1
<1>8. RD \subseteq RC
  <2>1. RC \in SUBSET StatesOf(D) /\ \A t \in RC : D.rows[t][1] \subseteq RC
    BY <1>1, <1>2, <1>6
  <2> QED
    BY <1>2, <1>3, <2>1
<1>9. AC \subseteq AD
  <2>1. AD \in SUBSET StatesOf(C) /\ \A t \in AD \ target : C.rows[t][1] \subseteq AD
    BY <1>1, <1>5, <1>6
  <2> QED
    BY <1>4, <1>5, <2>1
<1>10. AD \subseteq AC
  <2>1. AC \in SUBSET StatesOf(D) /\ \A t \in AC \ u : D.rows[t][1] \subseteq AC
    BY <1>1, <1>4, <1>6
  <2> QED
    BY <1>4, <1>5, <2>1
<1> QED
  BY <1>6, <1>7, <1>8, <1>9, <1>10 DEF RC, RD, AC, AD

(* So it has the same value in both.                                       *)
LEMMA ValuesAlike ==
  ASSUME NEW C, IsChain(C), NEW D, IsChain(D), NEW N \in SUBSET StatesOf(C), N \in SUBSET StatesOf(D),
         AgreeWithin(C, D, N), NEW target, NEW u, target \cap N = u \cap N, NEW i \in N
  PROVE  /\ i \in Never(C, target) <=> i \in Never(D, u)
         /\ i \in Surely(C, target) <=> i \in Surely(D, u)
<1>1. \A s \in N : s \in Never(C, target) <=> s \in Never(D, u)
  <2> SUFFICES ASSUME NEW s \in N
               PROVE  s \in Never(C, target) <=> s \in Never(D, u)
    OBVIOUS
  <2>1. ReachableFrom(C, s) \subseteq N /\ ReachableFrom(D, s) = ReachableFrom(C, s)
    BY ReachesAlike
  <2>2. s \in Never(C, target) <=> ReachableFrom(C, s) \cap target = {}
    BY NeverInChain
  <2>3. s \in Never(D, u) <=> ReachableFrom(D, s) \cap u = {}
    BY NeverInChain
  <2> QED
    BY <2>1, <2>2, <2>3
<1>2. Avoiding(C, target, i) \subseteq N /\ Avoiding(D, u, i) = Avoiding(C, target, i)
  BY ReachesAlike
<1>3. i \in Surely(C, target) <=> Avoiding(C, target, i) \cap Never(C, target) = {}
  BY SurelyInChain
<1>4. i \in Surely(D, u) <=> Avoiding(D, u, i) \cap Never(D, u) = {}
  BY SurelyInChain
<1> QED
  BY <1>1, <1>2, <1>3, <1>4

(* The holes of the states that an initial state reaches are relevant for it. *)
SchedulerOf(i) ==
  \A s \in ReachableFrom(sketch, i) :
    sketch.hole[s] # 0 => i \in sketch.initial_states[sketch.hole[s]]

Within(M, i) == {s \in StatesOf(M) : s \in ReachableFrom(sketch, i)}

(* What an initial state reaches in a model, it reaches in the sketch.     *)
LEMMA WithinSketch ==
  ASSUME sketch \in Sketches, NEW F, NEW M, IsModel(M, F), NEW i \in sketch.initial
  PROVE  /\ i \in Within(M, i) /\ Within(M, i) \in SUBSET StatesOf(M)
         /\ \A s \in Within(M, i) : \A r \in Rows(M, s) : M.rows[s][r] \subseteq Within(M, i)
<1>1. /\ GraphOK(sketch) /\ StatesOf(sketch) = DOMAIN sketch.rows
      /\ i \in DOMAIN sketch.rows /\ i \in StatesOf(M)
  BY SketchType DEF GraphOK, StatesOf, Rows, Quotient, IsModel
<1>2. IsReached(ReachableFrom(sketch, i), sketch, {i}, AllRows(sketch))
  <2>1. \A s \in StatesOf(sketch) : AllRows(sketch)[s] \subseteq Rows(sketch, s)
    BY DEF AllRows
  <2> QED
    BY <1>1, <2>1, ReachedStates DEF ReachableFrom
<1>3. /\ i \in ReachableFrom(sketch, i) /\ ReachableFrom(sketch, i) \in SUBSET StatesOf(sketch)
      /\ \A s \in ReachableFrom(sketch, i) : \A r \in Rows(sketch, s) :
           sketch.rows[s][r] \subseteq ReachableFrom(sketch, i)
  BY <1>2 DEF IsReached, AllRows
<1>4. ASSUME NEW s \in Within(M, i), NEW r \in Rows(M, s)
      PROVE  M.rows[s][r] \subseteq Within(M, i)
  <2>1. s \in StatesOf(M) /\ s \in ReachableFrom(sketch, i) /\ s \in DOMAIN sketch.rows
    BY <1>4 DEF Within, IsModel
  <2>2. PICK k \in Selected(F)[s] : RowIs(M, s, r, k)
    BY <1>4, <2>1 DEF IsModel
  <2>3. k \in Rows(sketch, s)
    BY <2>1, <2>2 DEF Selected, Rows
  <2>4. M.rows[s][r] \subseteq ReachableFrom(sketch, i)
    BY <1>3, <2>1, <2>2, <2>3 DEF RowIs
  <2>5. M.rows[s][r] \subseteq StatesOf(M)
    BY <1>4, <2>1 DEF IsModel, MdpOK, GraphOK
  <2> QED
    BY <2>4, <2>5 DEF Within
<1> QED
  BY <1>1, <1>3, <1>4 DEF Within

(* The states of a constraint are those of a scheduler.                    *)
LEMMA ConstraintStates ==
  ASSUME sketch \in Sketches, NEW c \in Constraint, NEW prop, prop = sketch.constraint[c]
  PROVE  /\ prop.minimizing \in BOOLEAN /\ prop.strict \in BOOLEAN
         /\ prop.state \in sketch.initial /\ SchedulerOf(prop.state)
         /\ prop.other_state \in sketch.initial /\ SchedulerOf(prop.other_state)
<1>1. sketch.constraint[c] \in [minimizing : BOOLEAN, strict : BOOLEAN,
                                state : sketch.initial, other_state : sketch.initial]
  BY SketchesAssumption
<1>2. \A i \in {sketch.constraint[c].state, sketch.constraint[c].other_state} : SchedulerOf(i)
  BY SketchesAssumption DEF SchedulerOf
<1> QED
  BY <1>1, <1>2

(* No two actions of a state have the same option.                         *)
LEMMA OneRowEach ==
  ASSUME sketch \in Sketches, NEW s \in DOMAIN sketch.rows, sketch.hole[s] # 0,
         NEW j \in DOMAIN sketch.rows[s], NEW k \in DOMAIN sketch.rows[s],
         sketch.options[s][j] = sketch.options[s][k]
  PROVE  j = k
<1>1. sketch.options[s] \in Injection(DOMAIN sketch.rows[s], Options[sketch.hole[s]])
  BY SketchesAssumption
<1> QED
  BY <1>1 DEF Injection, IsInjective

(* Two elements of a set with at most one are the same.                    *)
LEMMA AtMostOne ==
  ASSUME NEW S, IsFiniteSet(S), Cardinality(S) <= 1, NEW x \in S, NEW y \in S
  PROVE  x = y
<1> SUFFICES ASSUME x # y
             PROVE  FALSE
  OBVIOUS
<1>1. Cardinality({x, y}) = 2 /\ {x, y} \subseteq S
  <2>1. Cardinality({x} \cup {y}) = Cardinality({x}) + 1
    BY FS_AddElement, FS_Singleton
  <2>2. Cardinality({x}) = 1 /\ {x} \cup {y} = {x, y}
    BY FS_Singleton
  <2> QED
    BY <2>1, <2>2
<1>2. Cardinality({x, y}) <= Cardinality(S) /\ Cardinality(S) \in Nat
  BY <1>1, FS_Subset, FS_CardinalityType
<1> QED
  BY <1>1, <1>2

(* Does an assignment take the options that a selection is left with?      *)
Fills(a, selection) == \A h \in Hole : selection[h] # {} => a[h] \in selection[h]

(* An assignment that fills a consistent selection follows its scheduler.  *)
LEMMA FollowsScheduler ==
  ASSUME sketch \in Sketches, Matched(sketch), NEW F \in Family, NEW M, IsModel(M, F),
         NEW a \in Members(F), NEW f, IsScheduler(f, M),
         NEW i \in sketch.initial, SchedulerOf(i),
         Consistent1(scheduler_selection(M, f, i)), Fills(a, scheduler_selection(M, f, i)),
         NEW C, C = ChainOf(M, f), NEW D, D = AssignmentChain(sketch, a)
  PROVE  /\ i \in Never(C, Target(M)) <=> i \in Never(D, sketch.target)
         /\ i \in Surely(C, Target(M)) <=> i \in Surely(D, sketch.target)
<1> DEFINE selection == scheduler_selection(M, f, i)
           N == Within(M, i) \cap StatesOf(Induced(M, f))
<1>1. /\ MdpOK(M) /\ GraphOK(M) /\ StatesOf(M) \subseteq DOMAIN sketch.rows
      /\ M.initial = sketch.initial /\ M.initial \subseteq StatesOf(M)
  BY DEF IsModel, MdpOK
<1>2. /\ IsChain(C) /\ StatesOf(C) = StatesOf(M)
      /\ \A s \in StatesOf(M) : C.rows[s][1] = M.rows[s][f[s]] /\ f[s] \in Rows(M, s)
  BY <1>1, ChainOfScheduler DEF IsScheduler
<1>3. /\ IsChain(D) /\ StatesOf(D) = DOMAIN sketch.rows
      /\ \A s \in DOMAIN sketch.rows : sketch.hole[s] # 0 =>
           \E r \in DOMAIN sketch.rows[s] : /\ D.rows[s][1] = sketch.rows[s][r]
                                            /\ sketch.options[s][r] = a[sketch.hole[s]]
  BY AssignmentChainIn DEF ChainIn
<1>4. /\ GraphOK(Induced(M, f)) /\ M.initial \subseteq StatesOf(Induced(M, f))
      /\ StatesOf(Induced(M, f)) \subseteq StatesOf(M)
      /\ \A s \in StatesOf(Induced(M, f)) : /\ Rows(Induced(M, f), s) = {1}
                                            /\ Induced(M, f).rows[s][1] = M.rows[s][f[s]]
  BY <1>1, InducedStates
<1>5. /\ i \in Within(M, i) /\ Within(M, i) \in SUBSET StatesOf(M)
      /\ \A s \in Within(M, i) : \A r \in Rows(M, s) : M.rows[s][r] \subseteq Within(M, i)
  BY WithinSketch
<1>6. i \in N /\ N \in SUBSET StatesOf(C) /\ N \in SUBSET StatesOf(D)
  BY <1>1, <1>2, <1>3, <1>4, <1>5
<1>7. ASSUME NEW s \in N
      PROVE  M.rows[s][f[s]] \subseteq N
  <2>1. M.rows[s][f[s]] \subseteq Within(M, i)
    BY <1>2, <1>5, <1>7
  <2>2. Induced(M, f).rows[s][1] \subseteq StatesOf(Induced(M, f))
    BY <1>4, <1>7 DEF GraphOK
  <2> QED
    BY <1>4, <1>7, <2>1, <2>2
<1>8. ASSUME NEW s \in N
      PROVE  D.rows[s][1] = M.rows[s][f[s]]
  <2>1. /\ s \in StatesOf(M) /\ s \in DOMAIN sketch.rows /\ f[s] \in Rows(M, s)
        /\ s \in ReachableFrom(sketch, i) /\ s \in StatesOf(Induced(M, f))
    BY <1>1, <1>2, <1>5, <1>8 DEF Within
  <2>2. PICK k \in Selected(F)[s] : RowIs(M, s, f[s], k)
    BY <2>1 DEF IsModel
  <2>3. k \in DOMAIN sketch.rows[s]
    BY <2>1, <2>2 DEF Selected
  <2>4. CASE sketch.hole[s] = 0
    <3>1. D.rows[s] = sketch.rows[s] /\ k = 1
      BY <2>1, <2>3, <2>4, SketchType DEF AssignmentChain
    <3> QED
      BY <2>2, <3>1 DEF RowIs
  <2>5. CASE sketch.hole[s] # 0
    <3> DEFINE h == sketch.hole[s]
    <3>1. h \in Hole /\ i \in sketch.initial_states[h] /\ s \in StatesOfHole(M, h)
      BY <2>1, <2>5, SketchType DEF SchedulerOf, StatesOfHole
    <3>2. M.options[s][f[s]] \in selection[h]
      BY <2>1, <3>1 DEF scheduler_selection
    <3>3. a[h] \in selection[h]
      BY <3>1, <3>2 DEF Fills
    <3>4. IsFiniteSet(selection[h]) /\ Cardinality(selection[h]) <= 1
      <4>1. selection[h] \subseteq F[h]
        BY <3>1, SelectionOfScheduler
      <4>2. IsFiniteSet(F[h])
        BY <3>1, OptionsAssumption, FS_Subset DEF Family
      <4> QED
        BY <3>1, <4>1, <4>2, FS_Subset DEF Consistent1
    <3>5. a[h] = M.options[s][f[s]]
      <4> HIDE DEF selection
      <4> QED
        BY <3>2, <3>3, <3>4, AtMostOne
    <3>6. PICK r \in DOMAIN sketch.rows[s] :
            D.rows[s][1] = sketch.rows[s][r] /\ sketch.options[s][r] = a[h]
      BY <1>3, <2>1, <2>5
    <3>7. sketch.options[s][k] = a[h]
      BY <2>2, <2>5, <3>5 DEF RowIs
    <3>8. r = k
      BY <2>1, <2>3, <2>5, <3>6, <3>7, OneRowEach
    <3> QED
      BY <2>2, <3>6, <3>8 DEF RowIs
  <2> QED
    BY <2>4, <2>5
<1>9. AgreeWithin(C, D, N)
  <2> SUFFICES ASSUME NEW s \in N
               PROVE  C.rows[s][1] = D.rows[s][1] /\ C.rows[s][1] \subseteq N
    BY DEF AgreeWithin
  <2>1. s \in StatesOf(M)
    BY <1>2, <1>6
  <2> QED
    BY <1>2, <1>7, <1>8, <2>1
<1>10. Target(M) \cap N = sketch.target \cap N
  BY <1>2, <1>6 DEF Target
<1> DEFINE T == Target(M)
           U == sketch.target
<1>11. T \cap N = U \cap N
  BY <1>10
<1> HIDE DEF N, T, U
<1>12. /\ i \in Never(C, T) <=> i \in Never(D, U)
       /\ i \in Surely(C, T) <=> i \in Surely(D, U)
  <2>1. IsChain(C) /\ IsChain(D)
    BY <1>2, <1>3
  <2>2. N \in SUBSET StatesOf(C) /\ N \in SUBSET StatesOf(D) /\ i \in N
    BY <1>6
  <2> QED
    BY <2>1, <2>2, <1>9, <1>11, ValuesAlike
<1> QED
  BY <1>12 DEF T, U

-----------------------------------------------------------------------------
(***************************************************************************)
(* Selections that are said to satisfy a constraint.                       *)
(***************************************************************************)
(* The value of an assignment in a state, for reaching the target.         *)
MemberValue(a, s) == IF s \in Surely(AssignmentChain(sketch, a), sketch.target) THEN 1 ELSE 0

(* What the lemmas below take: a sketch whose chains have values 0 and 1,  *)
(* a family, and its model with such values.                               *)
QualitativeModel(M, F) ==
  /\ sketch \in Sketches /\ Matched(sketch) /\ sat = SatOf(sketch) /\ sat # None
  /\ F \in Family /\ IsModel(M, F) /\ Qualitative(M)

(* The value of a member is between the bounds of its family.              *)
LEMMA MemberBetween ==
  ASSUME NEW F, NEW M, QualitativeModel(M, F), NEW a \in Members(F), NEW m \in BOOLEAN,
         NEW result, result = computeUntilProbabilities(M, m, Target(M)), NEW s \in StatesOf(M)
  PROVE  /\ MemberValue(a, s) \in {0, 1} /\ ValueAt(result, s) \in {0, 1}
         /\ m => ValueAt(result, s) <= MemberValue(a, s)
         /\ ~ m => MemberValue(a, s) <= ValueAt(result, s)
         /\ m /\ s \notin result.one => s \in result.zero
         /\ ~ m /\ s \in result.zero => MemberValue(a, s) = 0
<1>1. MemberValues(M, a)
  BY MembersHaveValues DEF QualitativeModel
<1>2. CASE m = TRUE
  <2>1. result = computeUntilProbabilities(M, TRUE, Target(M))
    BY <1>2
  <2>2. s \in result.one => s \in Surely(AssignmentChain(sketch, a), sketch.target)
    BY <1>1, <2>1 DEF MemberValues
  <2>3. s \notin result.one => s \in result.zero
    <3>1. MaybeStates(M, QualitativeStateSets(M, TRUE, StatesOf(M), Target(M))) = {}
      BY DEF QualitativeModel, Qualitative
    <3> DEFINE sets == QualitativeStateSets(M, TRUE, StatesOf(M), Target(M))
    <3>2. sets.zero = result.zero /\ sets.one = result.one
      <4>1. result = [zero |-> sets.zero, one |-> sets.one,
                      scheduler |-> extendScheduler(M, TRUE, sets, StatesOf(M), Target(M))]
        BY <2>1 DEF computeUntilProbabilities
      <4> HIDE DEF sets
      <4> QED
        BY <4>1
    <3> HIDE DEF sets
    <3>3. StatesOf(M) \ (sets.zero \cup sets.one) = {}
      BY <3>1 DEF MaybeStates, sets
    <3> QED
      BY <3>2, <3>3
  <2>4. /\ MemberValue(a, s) \in {0, 1} /\ ValueAt(result, s) \in {0, 1}
        /\ ValueAt(result, s) = 1 => s \in result.one
        /\ s \in Surely(AssignmentChain(sketch, a), sketch.target) => MemberValue(a, s) = 1
    BY DEF MemberValue, ValueAt
  <2>5. ValueAt(result, s) <= MemberValue(a, s)
    BY <2>2, <2>4
  <2> QED
    BY <1>2, <2>3, <2>4, <2>5
<1>3. CASE m = FALSE
  <2>1. result = computeUntilProbabilities(M, FALSE, Target(M))
    BY <1>3
  <2>2. /\ s \in Surely(AssignmentChain(sketch, a), sketch.target) => s \in result.one
        /\ s \in result.zero => s \notin Surely(AssignmentChain(sketch, a), sketch.target)
    BY <1>1, <2>1 DEF MemberValues
  <2> QED
    BY <1>3, <2>2 DEF MemberValue, ValueAt
<1> QED
  BY <1>2, <1>3

(* An assignment that fills the selection of the scheduler of a bound has  *)
(* the bound as its value.                                                 *)
LEMMA SelectedValue ==
  ASSUME NEW F, NEW M, QualitativeModel(M, F), NEW a \in Members(F), NEW m \in BOOLEAN,
         NEW result, result = computeUntilProbabilities(M, m, Target(M)),
         NEW i \in sketch.initial, SchedulerOf(i),
         Consistent1(scheduler_selection(M, result.scheduler, i)),
         Fills(a, scheduler_selection(M, result.scheduler, i))
  PROVE  /\ MemberValue(a, i) = ValueAt(result, i)
         /\ i \in result.zero => MemberValue(a, i) = 0
         /\ i \in StatesOf(M)
<1> DEFINE f == result.scheduler
           C == ChainOf(M, f)
           D == AssignmentChain(sketch, a)
<1>1. /\ sketch \in Sketches /\ Matched(sketch) /\ F \in Family /\ IsModel(M, F)
      /\ MdpOK(M) /\ Target(M) \in SUBSET StatesOf(M) /\ i \in StatesOf(M)
  BY DEF QualitativeModel, IsModel, Target
<1>2. IsScheduler(f, M)
  BY <1>1, ProbSchedules
<1>3. /\ i \in Never(C, Target(M)) <=> i \in Never(D, sketch.target)
      /\ i \in Surely(C, Target(M)) <=> i \in Surely(D, sketch.target)
  BY <1>1, <1>2, FollowsScheduler
<1>4. MemberValues(M, a)
  BY MembersHaveValues DEF QualitativeModel
<1>5. /\ MemberValue(a, i) \in {0, 1} /\ ValueAt(result, i) \in {0, 1}
      /\ m => ValueAt(result, i) <= MemberValue(a, i)
      /\ ~ m => MemberValue(a, i) <= ValueAt(result, i)
      /\ m /\ i \notin result.one => i \in result.zero
      /\ ~ m /\ i \in result.zero => MemberValue(a, i) = 0
  BY <1>1, MemberBetween
<1>6. i \in Never(D, sketch.target) => i \notin Surely(D, sketch.target)
  BY <1>1, <1>4 DEF MemberValues
<1>7. CASE m = TRUE
  <2>1. result.zero = Never(C, Target(M))
    BY <1>1, <1>7, BoundsAttained
  <2> HIDE DEF C
  <2>2. i \in result.zero => MemberValue(a, i) = 0
    <3>1. i \in result.zero => i \in Never(D, sketch.target)
      BY <1>3, <2>1
    <3> QED
      BY <1>6, <3>1 DEF MemberValue
  <2>3. i \in result.one => ValueAt(result, i) = 1
    BY DEF ValueAt
  <2>4. /\ MemberValue(a, i) \in {0, 1} /\ ValueAt(result, i) \in {0, 1}
        /\ ValueAt(result, i) <= MemberValue(a, i)
        /\ i \notin result.one => i \in result.zero
    BY <1>5, <1>7
  <2>5. MemberValue(a, i) = ValueAt(result, i)
    <3>1. CASE i \in result.one
      BY <2>3, <2>4, <3>1
    <3>2. CASE i \notin result.one
      BY <2>2, <2>4, <3>2
    <3> QED
      BY <3>1, <3>2
  <2> QED
    BY <1>1, <2>2, <2>5
<1>8. CASE m = FALSE
  <2>1. result.one = Surely(C, Target(M))
    BY <1>1, <1>8, BoundsAttained
  <2> HIDE DEF C
  <2>2. MemberValue(a, i) = ValueAt(result, i)
    BY <1>3, <2>1 DEF MemberValue, ValueAt
  <2> QED
    BY <1>1, <1>5, <1>8, <2>2
<1> QED
  BY <1>7, <1>8

(* A selection of no inconsistent hole is consistent.                      *)
LEMMA NoneInconsistent ==
  ASSUME NEW F \in Family, NEW selection, \A h \in Hole : selection[h] \subseteq F[h],
         Inconsistent(selection) = {}
  PROVE  Consistent1(selection)
<1> SUFFICES ASSUME NEW h \in Hole
             PROVE  Cardinality(selection[h]) <= 1
  BY DEF Consistent1
<1>1. IsFiniteSet(selection[h]) /\ selection[h] \subseteq F[h]
  BY OptionsAssumption, FS_Subset DEF Family
<1>2. Cardinality(selection[h]) \in Nat /\ ~ Cardinality(selection[h]) > 1
  BY <1>1, FS_CardinalityType DEF Inconsistent
<1> QED
  BY <1>2

(* A consistent selection that is part of another one is filled with it.   *)
LEMMA FillsPart ==
  ASSUME NEW F \in Family, NEW part, NEW whole, NEW a, Consistent1(whole), Fills(a, whole),
         \A h \in Hole : part[h] \subseteq whole[h] /\ whole[h] \subseteq F[h]
  PROVE  Consistent1(part) /\ Fills(a, part)
<1> SUFFICES ASSUME NEW h \in Hole
             PROVE  Cardinality(part[h]) <= 1 /\ (part[h] # {} => a[h] \in part[h])
  BY DEF Consistent1, Fills
<1>1. IsFiniteSet(whole[h]) /\ part[h] \subseteq whole[h]
  BY OptionsAssumption, FS_Subset DEF Family
<1>2. Cardinality(whole[h]) <= 1 /\ (whole[h] # {} => a[h] \in whole[h])
  BY DEF Consistent1, Fills
<1>3. /\ Cardinality(part[h]) <= Cardinality(whole[h])
      /\ Cardinality(part[h]) \in Nat /\ Cardinality(whole[h]) \in Nat
  BY <1>1, FS_Subset, FS_CardinalityType
<1>4. \A x \in part[h] : x = a[h]
  BY <1>1, <1>2, AtMostOne
<1> QED
  BY <1>1, <1>2, <1>3, <1>4

(* The elements of two sequences one after the other.                      *)
LEMMA ConcatElements ==
  ASSUME NEW T, NEW s \in Seq(T), NEW t \in Seq(T), NEW k \in DOMAIN (s \o t)
  PROVE  (\E i \in DOMAIN s : (s \o t)[k] = s[i]) \/ (\E i \in DOMAIN t : (s \o t)[k] = t[i])
<1>1. CASE k <= Len(s)
  BY <1>1
<1>2. CASE k > Len(s)
  <2>1. k - Len(s) \in DOMAIN t /\ (s \o t)[k] = t[k - Len(s)]
    BY <1>2
  <2> QED
    BY <2>1
<1> QED
  BY <1>1, <1>2

Satisfying(selection, F, c) == \A a \in Members(F) : Fills(a, selection) => a \in sat[c]

(* The consistent scheduler of an undecided property satisfies it.         *)
LEMMA PropertySolutions ==
  ASSUME NEW M, QualitativeModel(M, family), NEW c \in Constraint, c \notin HyperConstraint,
         NEW prop, prop = sketch.constraint[c],
         NEW primary, primary = computeUntilProbabilities(M, prop.minimizing, Target(M)),
         Holds(prop, primary),
         NEW k \in DOMAIN UndecidedProperty(M, prop, primary).solutions
  PROVE  /\ Satisfying(UndecidedProperty(M, prop, primary).solutions[k], family, c)
         /\ UndecidedProperty(M, prop, primary).solutions \in Seq([Hole -> SUBSET Option])
<1> DEFINE selection == scheduler_selection(M, primary.scheduler, prop.state)
           used == Inconsistent(selection)
           solutions == UndecidedProperty(M, prop, primary).solutions
<1>1. /\ sketch \in Sketches /\ family \in Family /\ IsModel(M, family) /\ Matched(sketch)
      /\ sat = SatOf(sketch) /\ sat # None
      /\ MdpOK(M) /\ Target(M) \in SUBSET StatesOf(M)
  BY DEF QualitativeModel, IsModel, Target
<1>2. /\ prop.minimizing \in BOOLEAN /\ prop.strict \in BOOLEAN
      /\ prop.state \in sketch.initial /\ SchedulerOf(prop.state)
  BY <1>1, ConstraintStates
<1>3. \A h \in Hole : selection[h] \subseteq family[h]
  <2>1. IsScheduler(primary.scheduler, M)
    BY <1>1, <1>2, ProbSchedules
  <2> QED
    BY <1>1, <1>2, <2>1, SelectionOfScheduler
<1>4. selection \in [Hole -> SUBSET Option]
  <2>1. selection = [h \in Hole |-> selection[h]]
    BY DEF scheduler_selection
  <2>2. \A h \in Hole : family[h] \subseteq Option
    BY <1>1 DEF Family
  <2> HIDE DEF selection
  <2>3. \A h \in Hole : selection[h] \in SUBSET Option
    BY <1>3, <2>2
  <2> QED
    BY <2>1, <2>3
<1>5. solutions = IF used = {} THEN <<selection>> ELSE << >>
  BY DEF UndecidedProperty
<1>0. selection = scheduler_selection(M, primary.scheduler, prop.state)
  OBVIOUS
<1> HIDE DEF selection, solutions
<1>6. used = {} /\ solutions[k] = selection /\ solutions \in Seq([Hole -> SUBSET Option])
  <2>1. k \in DOMAIN solutions
    BY DEF solutions
  <2> HIDE DEF used
  <2>2. used = {}
    BY <1>5, <2>1
  <2>3. solutions = <<selection>>
    BY <1>5, <2>2
  <2> QED
    BY <1>4, <2>1, <2>2, <2>3
<1>7. Consistent1(selection)
  BY <1>1, <1>3, <1>6, NoneInconsistent
<1>8. ASSUME NEW a \in Members(family), Fills(a, selection)
      PROVE  a \in sat[c]
  <2>1. /\ MemberValue(a, prop.state) = ValueAt(primary, prop.state)
        /\ prop.state \in primary.zero => MemberValue(a, prop.state) = 0
    BY <1>0, <1>2, <1>7, <1>8, SelectedValue
  <2>2. a \in sat[c] <=> Satisfies(sketch, c, Surely(AssignmentChain(sketch, a), sketch.target))
    BY <1>1, MembersHaveValues
  <2>3. a \in sat[c] <=> MemberValue(a, prop.state) = (IF prop.minimizing THEN 0 ELSE 1)
    BY <2>2 DEF Satisfies, MemberValue
  <2> QED
    BY <1>2, <2>1, <2>3 DEF Holds, ValueAt
<1> QED
  BY <1>6, <1>8 DEF Satisfying, solutions

(* The value of a member compares as the values of the schedulers it fills. *)
LEMMA ComparedValues ==
  ASSUME NEW M, QualitativeModel(M, family), NEW c \in Constraint, c \in HyperConstraint,
         NEW prop, prop = sketch.constraint[c], NEW a \in Members(family), NEW v, NEW w,
         Compare(prop, v, w), v \in {0, 1}, w \in {0, 1},
         prop.minimizing => MemberValue(a, prop.state) <= v /\ w <= MemberValue(a, prop.other_state),
         ~ prop.minimizing => v <= MemberValue(a, prop.state) /\ MemberValue(a, prop.other_state) <= w
  PROVE  a \in sat[c]
<1>1. /\ sketch \in Sketches /\ family \in Family /\ IsModel(M, family) /\ Matched(sketch)
      /\ sat = SatOf(sketch) /\ sat # None
  BY DEF QualitativeModel
<1>2. prop.minimizing \in BOOLEAN /\ prop.strict \in BOOLEAN
  BY <1>1, ConstraintStates
<1>3. \A s : MemberValue(a, s) \in {0, 1}
  BY DEF MemberValue
<1>4. Compare(prop, MemberValue(a, prop.state), MemberValue(a, prop.other_state))
  BY <1>2, <1>3, ComparesValues
<1>5. a \in sat[c] <=> Satisfies(sketch, c, Surely(AssignmentChain(sketch, a), sketch.target))
  BY <1>1, MembersHaveValues
<1> QED
  BY <1>4, <1>5 DEF Satisfies, MemberValue

(* The consistent schedulers of an undecided hyperproperty satisfy it,     *)
(* alone where the bound of one direction does, and joined.                *)
LEMMA HyperpropertySolutions ==
  ASSUME NEW M, QualitativeModel(M, family), NEW c \in Constraint, c \in HyperConstraint,
         NEW prop, prop = sketch.constraint[c],
         NEW primary, primary = computeUntilProbabilities(M, prop.minimizing, Target(M)),
         NEW secondary, secondary = computeUntilProbabilities(M, ~ prop.minimizing, Target(M)),
         Compare(prop, ValueAt(primary, prop.state), ValueAt(secondary, prop.other_state)),
         NEW R, R = UndecidedHyperproperty(M, prop, primary, secondary), ~ R.promoted
  PROVE  /\ R.solutions \in Seq([Hole -> SUBSET Option])
         /\ \A k \in DOMAIN R.solutions : Satisfying(R.solutions[k], family, c)
<1> DEFINE first1  == scheduler_selection(M, primary.scheduler, prop.state)
           first2  == scheduler_selection(M, secondary.scheduler, prop.other_state)
           joint   == Joint(first1, first2)
           open    == Inconsistent(joint)
           used1   == UsedHoles(open, first1)
           used2   == UsedHoles(open, first2)
           scores1 == ScoresOf(M, primary, prop.minimizing, used1, joint, prop.state)
           scores2 == ScoresOf(M, secondary, ~ prop.minimizing, used2, joint, prop.other_state)
           second2 == IF AllZero(used2, scores2) THEN Promoted(first2, first1) ELSE first2
           second1 == IF AllZero(used1, scores1) THEN Promoted(first1, second2) ELSE first1
           at1 == prop.state
           at2 == prop.other_state
           feasible1 == Compare(prop, ValueAt(primary, at1), ValueAt(primary, at2)) /\ Consistent1(second1)
           feasible2 == Compare(prop, ValueAt(secondary, at1), ValueAt(secondary, at2)) /\ Consistent1(second2)
           list1 == IF feasible1 THEN <<second1>> ELSE << >>
           list2 == IF feasible2 THEN <<second2>> ELSE << >>
           list3 == IF open = {} THEN <<Joint(second1, second2)>> ELSE << >>
           U == UndecidedHyperproperty(M, prop, primary, secondary)
<1>1. /\ R.solutions = list1 \o list2 \o list3
      /\ feasible1 => second1 = first1
      /\ feasible2 => second2 = first2
  <2> DEFINE chosen == \/ feasible1 /\ second1 # first1
                       \/ feasible2 /\ second2 # first2
             none == \/ used1 # {} /\ scores1.scored = {}
                     \/ used2 # {} /\ scores2.scored = {}
             all == list1 \o list2 \o list3
             both == Joint(second1, second2)
  <2>0. U = [feasibility |-> "None", solutions |-> all, promoted |-> chosen, max_of_none |-> none,
             primary_scores |-> scores1, secondary_scores |-> scores2, joint_selection |-> both]
    BY Zenon DEF UndecidedHyperproperty
  <2>3. R = U /\ ~ R.promoted
    OBVIOUS
  <2> HIDE DEF U, chosen, none, all, both, scores1, scores2
  <2>1. U.solutions = all
    BY <2>0
  <2>2. U.promoted = chosen
    BY <2>0
  <2> HIDE DEF list1, list2, list3, feasible1, feasible2, second1, second2, first1, first2
  <2>4. R.solutions = list1 \o list2 \o list3
    BY <2>1, <2>3 DEF all
  <2>5. ~ (feasible1 /\ second1 # first1) /\ ~ (feasible2 /\ second2 # first2)
    BY <2>2, <2>3 DEF chosen
  <2> QED
    BY <2>4, <2>5
<1>2. /\ sketch \in Sketches /\ family \in Family /\ IsModel(M, family) /\ Matched(sketch)
      /\ MdpOK(M) /\ Target(M) \in SUBSET StatesOf(M)
  BY DEF QualitativeModel, IsModel, Target
<1>3. /\ prop.minimizing \in BOOLEAN /\ (~ prop.minimizing) \in BOOLEAN
      /\ at1 \in sketch.initial /\ SchedulerOf(at1) /\ at2 \in sketch.initial /\ SchedulerOf(at2)
  BY <1>2, ConstraintStates
<1>4. IsScheduler(primary.scheduler, M) /\ IsScheduler(secondary.scheduler, M)
  BY <1>2, <1>3, ProbSchedules
<1>5. ASSUME NEW h \in Hole
      PROVE  /\ first1[h] \subseteq family[h] /\ first2[h] \subseteq family[h]
             /\ second1[h] \subseteq family[h] /\ second2[h] \subseteq family[h]
  <2>1. first1[h] \subseteq family[h] /\ first2[h] \subseteq family[h]
    BY <1>2, <1>3, <1>4, SelectionOfScheduler
  <2> HIDE DEF first1, first2
  <2>2. second2[h] \subseteq family[h]
    BY <1>2, <2>1, PromotedType
  <2> HIDE DEF second2
  <2>3. second1[h] \subseteq family[h]
    BY <1>2, <2>1, PromotedType
  <2> QED
    BY <2>1, <2>2, <2>3
<1>6. joint = [h \in Hole |-> first1[h] \cup first2[h]]
  BY DEF Joint
<1>7. open = {} => second1 = first1 /\ second2 = first2
  <2>1. open = {} => used1 = {} /\ used2 = {}
    BY DEF UsedHoles
  <2> HIDE DEF open, used1, used2, scores1, scores2, first1, first2
  <2>2. /\ used1 = {} => ~ AllZero(used1, scores1)
        /\ used2 = {} => ~ AllZero(used2, scores2)
    BY DEF AllZero
  <2>3. open = {} => second2 = first2
    BY <2>1, <2>2
  <2>4. open = {} => second1 = first1
    BY <2>1, <2>2
  <2> QED
    BY <2>3, <2>4
<1>8. /\ second1 \in [Hole -> SUBSET Option] /\ second2 \in [Hole -> SUBSET Option]
      /\ Joint(second1, second2) \in [Hole -> SUBSET Option]
  <2>0. \A h \in Hole : family[h] \subseteq Option
    BY <1>2 DEF Family
  <2>1. \A h \in Hole : second1[h] \in SUBSET Option /\ second2[h] \in SUBSET Option
    <3> HIDE DEF second1, second2
    <3> QED
      BY <2>0, <1>5
  <2>2. first1 = [h \in Hole |-> first1[h]] /\ first2 = [h \in Hole |-> first2[h]]
    BY DEF scheduler_selection
  <2> HIDE DEF first1, first2
  <2>3. second2 = [h \in Hole |-> second2[h]]
    BY <2>2 DEF Promoted
  <2> HIDE DEF second2
  <2>4. second1 = [h \in Hole |-> second1[h]]
    BY <2>2 DEF Promoted
  <2> HIDE DEF second1
  <2> QED
    BY <2>1, <2>3, <2>4 DEF Joint
<1>9. /\ first1 = scheduler_selection(M, primary.scheduler, at1)
      /\ first2 = scheduler_selection(M, secondary.scheduler, at2)
  OBVIOUS
<1> HIDE DEF second1, second2, first1, first2, joint
<1>10. ASSUME NEW a \in Members(family), Consistent1(first1), Fills(a, first1)
       PROVE  MemberValue(a, at1) = ValueAt(primary, at1)
  BY <1>3, <1>9, <1>10, SelectedValue
<1>11. ASSUME NEW a \in Members(family), Consistent1(first2), Fills(a, first2)
       PROVE  MemberValue(a, at2) = ValueAt(secondary, at2)
  <2> DEFINE n == ~ prop.minimizing
  <2>1. n \in BOOLEAN /\ secondary = computeUntilProbabilities(M, n, Target(M))
    BY <1>3
  <2> HIDE DEF n
  <2> QED
    BY <1>3, <1>9, <1>11, <2>1, SelectedValue
<1>12. \A s : ValueAt(primary, s) \in {0, 1} /\ ValueAt(secondary, s) \in {0, 1}
  BY DEF ValueAt
<1>13. at1 \in StatesOf(M) /\ at2 \in StatesOf(M)
  BY <1>2, <1>3 DEF IsModel, MdpOK
<1>14. ASSUME NEW a \in Members(family), NEW s \in StatesOf(M)
       PROVE  /\ MemberValue(a, s) \in {0, 1}
              /\ prop.minimizing => /\ ValueAt(primary, s) <= MemberValue(a, s)
                                    /\ MemberValue(a, s) <= ValueAt(secondary, s)
              /\ ~ prop.minimizing => /\ MemberValue(a, s) <= ValueAt(primary, s)
                                      /\ ValueAt(secondary, s) <= MemberValue(a, s)
  <2>1. /\ MemberValue(a, s) \in {0, 1}
        /\ prop.minimizing => ValueAt(primary, s) <= MemberValue(a, s)
        /\ ~ prop.minimizing => MemberValue(a, s) <= ValueAt(primary, s)
    BY <1>3, MemberBetween
  <2>2. /\ ~ prop.minimizing => ValueAt(secondary, s) <= MemberValue(a, s)
        /\ ~ ~ prop.minimizing => MemberValue(a, s) <= ValueAt(secondary, s)
    BY <1>3, MemberBetween
  <2> QED
    BY <2>1, <2>2
<1>22. /\ feasible1 => /\ second1 = first1 /\ Consistent1(second1)
                        /\ Compare(prop, ValueAt(primary, at1), ValueAt(primary, at2))
       /\ feasible2 => /\ second2 = first2 /\ Consistent1(second2)
                        /\ Compare(prop, ValueAt(secondary, at1), ValueAt(secondary, at2))
  <2>1. feasible1 => Consistent1(second1) /\ Compare(prop, ValueAt(primary, at1), ValueAt(primary, at2))
    OBVIOUS
  <2>2. feasible2 => Consistent1(second2) /\ Compare(prop, ValueAt(secondary, at1), ValueAt(secondary, at2))
    OBVIOUS
  <2> HIDE DEF feasible1, feasible2
  <2>3. (feasible1 => second1 = first1) /\ (feasible2 => second2 = first2)
    BY <1>1
  <2> QED
    BY <2>1, <2>2, <2>3, Zenon
<1> HIDE DEF feasible1, feasible2
<1>15. feasible1 => Satisfying(second1, family, c)
  <2> SUFFICES ASSUME feasible1, NEW a \in Members(family), Fills(a, second1)
               PROVE  a \in sat[c]
    BY DEF Satisfying
  <2>0. Consistent1(first1) /\ Fills(a, first1)
    BY <1>22
  <2>1. MemberValue(a, at1) = ValueAt(primary, at1)
    BY <1>10, <2>0
  <2>2. Compare(prop, ValueAt(primary, at1), ValueAt(primary, at2))
    BY <1>22
  <2>3. /\ prop.minimizing => /\ MemberValue(a, at1) <= ValueAt(primary, at1)
                              /\ ValueAt(primary, at2) <= MemberValue(a, at2)
        /\ ~ prop.minimizing => /\ ValueAt(primary, at1) <= MemberValue(a, at1)
                                /\ MemberValue(a, at2) <= ValueAt(primary, at2)
    BY <1>12, <1>13, <1>14, <2>1
  <2> QED
    BY <1>12, <2>2, <2>3, ComparedValues
<1>16. feasible2 => Satisfying(second2, family, c)
  <2> SUFFICES ASSUME feasible2, NEW a \in Members(family), Fills(a, second2)
               PROVE  a \in sat[c]
    BY DEF Satisfying
  <2>0. Consistent1(first2) /\ Fills(a, first2)
    BY <1>22
  <2>1. MemberValue(a, at2) = ValueAt(secondary, at2)
    BY <1>11, <2>0
  <2>2. Compare(prop, ValueAt(secondary, at1), ValueAt(secondary, at2))
    BY <1>22
  <2>3. /\ prop.minimizing => /\ MemberValue(a, at1) <= ValueAt(secondary, at1)
                              /\ ValueAt(secondary, at2) <= MemberValue(a, at2)
        /\ ~ prop.minimizing => /\ ValueAt(secondary, at1) <= MemberValue(a, at1)
                                /\ MemberValue(a, at2) <= ValueAt(secondary, at2)
    BY <1>12, <1>13, <1>14, <2>1
  <2> QED
    BY <1>12, <2>2, <2>3, ComparedValues
<1>17. open = {} => Satisfying(Joint(second1, second2), family, c)
  <2> SUFFICES ASSUME open = {}, NEW a \in Members(family), Fills(a, Joint(second1, second2))
               PROVE  a \in sat[c]
    BY DEF Satisfying
  <2>1. Joint(second1, second2) = joint /\ Fills(a, joint)
    BY <1>7 DEF joint
  <2>2. \A h \in Hole : /\ first1[h] \subseteq joint[h] /\ first2[h] \subseteq joint[h]
                        /\ joint[h] \subseteq family[h]
    BY <1>5, <1>6
  <2>3. Consistent1(joint)
    BY <1>2, <2>2, NoneInconsistent
  <2>4. /\ Consistent1(first1) /\ Fills(a, first1)
        /\ Consistent1(first2) /\ Fills(a, first2)
    BY <1>2, <2>1, <2>2, <2>3, FillsPart
  <2>5. MemberValue(a, at1) = ValueAt(primary, at1) /\ MemberValue(a, at2) = ValueAt(secondary, at2)
    BY <1>10, <1>11, <2>4
  <2>6. /\ MemberValue(a, at1) <= ValueAt(primary, at1) /\ ValueAt(primary, at1) <= MemberValue(a, at1)
        /\ MemberValue(a, at2) <= ValueAt(secondary, at2) /\ ValueAt(secondary, at2) <= MemberValue(a, at2)
    BY <1>12, <2>5
  <2> QED
    BY <1>12, <2>6, ComparedValues
<1> HIDE DEF open
<1> DEFINE T == {t \in [Hole -> SUBSET Option] : Satisfying(t, family, c)}
<1>18. list1 \in Seq(T) /\ list2 \in Seq(T) /\ list3 \in Seq(T)
  <2>1. /\ feasible1 => second1 \in T
        /\ feasible2 => second2 \in T
        /\ open = {} => Joint(second1, second2) \in T
    BY <1>8, <1>15, <1>16, <1>17
  <2> DEFINE both == Joint(second1, second2)
  <2> HIDE DEF T, both
  <2>2. /\ feasible1 => <<second1>> \in Seq(T)
        /\ feasible2 => <<second2>> \in Seq(T)
        /\ open = {} => <<both>> \in Seq(T)
        /\ << >> \in Seq(T)
    BY <2>1 DEF both
  <2> QED
    BY <2>2 DEF both
<1> HIDE DEF list1, list2, list3
<1>19. R.solutions \in Seq(T)
  <2> HIDE DEF T
  <2>1. list1 \o list2 \in Seq(T)
    BY <1>18
  <2>2. (list1 \o list2) \o list3 \in Seq(T)
    BY <1>18, <2>1
  <2> QED
    BY <1>1, <2>2
<1>20. R.solutions \in Seq([Hole -> SUBSET Option])
  BY <1>19
<1>21. ASSUME NEW k \in DOMAIN R.solutions
       PROVE  Satisfying(R.solutions[k], family, c)
  <2>1. R.solutions[k] \in T
    <3> HIDE DEF T
    <3> QED
      BY <1>19
  <2> QED
    BY <2>1
<1> QED
  BY <1>20, <1>21

(* Every selection listed for a checked constraint satisfies it.           *)
LEMMA CheckSolutions ==
  ASSUME NEW M, QualitativeModel(M, family), NEW c \in Constraint, ~ Check(M, c).promoted
  PROVE  /\ Check(M, c).solutions \in Seq([Hole -> SUBSET Option])
         /\ \A k \in DOMAIN Check(M, c).solutions : Satisfying(Check(M, c).solutions[k], family, c)
<1> DEFINE prop == sketch.constraint[c]
           P == computeUntilProbabilities(M, prop.minimizing, Target(M))
           Q == computeUntilProbabilities(M, ~ prop.minimizing, Target(M))
<1>1. /\ sketch \in Sketches /\ family \in Family /\ IsModel(M, family) /\ Matched(sketch)
      /\ sat = SatOf(sketch) /\ sat # None
  BY DEF QualitativeModel
<1>2. Check(M, c).feasibility \in CheckConstraint(SketchTask, family, c)
  BY <1>1, VerdictSound
<1>3. ASSUME Check(M, c) = Decided("True")
      PROVE  /\ Decided("True").solutions \in Seq([Hole -> SUBSET Option])
             /\ \A k \in DOMAIN Decided("True").solutions :
                  Satisfying(Decided("True").solutions[k], family, c)
  <2>1. Decided("True").solutions = <<NoSelection>> /\ Decided("True").feasibility = "True"
    BY DEF Decided
  <2>2. Members(family) \subseteq sat[c]
    BY <1>2, <1>3, <2>1 DEF CheckConstraint, Feasibility, SketchTask
  <2>3. NoSelection \in [Hole -> SUBSET Option]
    BY DEF NoSelection
  <2>4. Satisfying(NoSelection, family, c)
    BY <2>2 DEF Satisfying
  <2> HIDE DEF NoSelection
  <2> DEFINE S == [Hole -> SUBSET Option]
             found == Decided("True").solutions
  <2>5. found \in Seq(S) /\ \A k \in DOMAIN found : found[k] = NoSelection
    <3>1. found = <<NoSelection>> /\ NoSelection \in S
      BY <2>1, <2>3
    <3> HIDE DEF found, S
    <3> QED
      BY <3>1
  <2> QED
    BY <2>4, <2>5
<1>4. /\ Decided("False").solutions \in Seq([Hole -> SUBSET Option])
      /\ DOMAIN Decided("False").solutions = {}
  <2>1. Decided("False").solutions = << >>
    BY DEF Decided
  <2> DEFINE S == [Hole -> SUBSET Option]
             found == Decided("False").solutions
  <2> HIDE DEF found, S
  <2>2. found \in Seq(S)
    <3>1. << >> \in Seq(S)
      BY EmptySeq
    <3> QED
      BY <2>1, <3>1 DEF found
  <2>3. DOMAIN found = {}
    BY <2>1 DEF found
  <2> QED
    BY <2>2, <2>3 DEF found, S
<1>5. CASE c \notin HyperConstraint
  <2> DEFINE U == UndecidedProperty(M, prop, P)
  <2>1. Check(M, c) = IF ~ Holds(prop, P) THEN Decided("False")
                      ELSE IF Holds(prop, Q) THEN Decided("True")
                      ELSE U
    BY <1>5 DEF Check, check_property
  <2>2. Holds(prop, P) => \A k \in DOMAIN U.solutions :
          /\ U.solutions \in Seq([Hole -> SUBSET Option])
          /\ Satisfying(U.solutions[k], family, c)
    BY <1>5, PropertySolutions
  <2>3. \/ U.solutions = << >>
        \/ U.solutions = <<scheduler_selection(M, P.scheduler, prop.state)>>
    BY DEF UndecidedProperty
  <2> DEFINE selection == scheduler_selection(M, P.scheduler, prop.state)
  <2> HIDE DEF U, P, Q, prop, selection
  <2>4. ASSUME Holds(prop, P)
        PROVE  U.solutions \in Seq([Hole -> SUBSET Option])
    <3>1. CASE U.solutions = << >>
      BY <3>1
    <3>2. CASE U.solutions = <<selection>>
      <4>1. 1 \in DOMAIN U.solutions
        BY <3>2
      <4> QED
        BY <2>2, <2>4, <4>1
    <3> QED
      BY <2>3, <3>1, <3>2 DEF selection
  <2> DEFINE L == Check(M, c)
  <2>5. L = Decided("False") \/ L = Decided("True") \/ (Holds(prop, P) /\ L = U)
    BY <2>1
  <2> QED
    <3> HIDE DEF L
    <3>1. CASE L = Decided("False")
      BY <1>4, <3>1 DEF L
    <3>2. CASE L = Decided("True")
      BY <1>3, <3>2 DEF L
    <3>3. CASE Holds(prop, P) /\ L = U
      BY <2>2, <2>4, <3>3 DEF L
    <3> QED
      BY <2>5, <3>1, <3>2, <3>3
<1>6. CASE c \in HyperConstraint
  <2> DEFINE U == UndecidedHyperproperty(M, prop, P, Q)
             possible == Compare(prop, ValueAt(P, prop.state), ValueAt(Q, prop.other_state))
  <2>1. Check(M, c)
          = IF ~ possible THEN Decided("False")
            ELSE IF Compare(prop, ValueAt(Q, prop.state), ValueAt(P, prop.other_state)) THEN Decided("True")
            ELSE U
    BY <1>6 DEF Check, check_hyperproperty
  <2>2. possible /\ ~ U.promoted =>
          /\ U.solutions \in Seq([Hole -> SUBSET Option])
          /\ \A k \in DOMAIN U.solutions : Satisfying(U.solutions[k], family, c)
    BY <1>6, HyperpropertySolutions
  <2> HIDE DEF U, P, Q, prop, possible
  <2> DEFINE L == Check(M, c)
  <2>3. L = Decided("False") \/ L = Decided("True") \/ (possible /\ L = U)
    BY <2>1
  <2> QED
    <3> HIDE DEF L
    <3>1. CASE L = Decided("False")
      BY <1>4, <3>1 DEF L
    <3>2. CASE L = Decided("True")
      BY <1>3, <3>2 DEF L
    <3>3. CASE possible /\ L = U
      BY <2>2, <3>3 DEF L
    <3> QED
      BY <2>3, <3>1, <3>2, <3>3
<1> QED
  BY <1>5, <1>6

-----------------------------------------------------------------------------
(***************************************************************************)
(* The selections of a group of constraints, and of all groups.            *)
(***************************************************************************)
Selections == [Hole -> SUBSET Option]

(* A selection that satisfies a constraint which is not infeasible.        *)
SolvedBy(t, c) == feasibility[c] \in {"True", "None"} /\ Satisfying(t, family, c)

SolvesGroup(t, g) == t \in Selections /\ \E c \in disjoint_indexes[g] : SolvedBy(t, c)

SolutionsOK ==
  \A c \in Constraint :
    /\ results[c].solutions \in Seq(Selections)
    /\ \A k \in DOMAIN results[c].solutions : SolvedBy(results[c].solutions[k], c)

(* A fold is defined on all sets of indices.                               *)
Iterates(g, n, D, base, combine) ==
  /\ g \in [SUBSET (1..n) -> D] /\ g[{}] = base
  /\ \A s \in SUBSET (1..n) : s # {} =>
       /\ Max(s) \in 1..n /\ g[s \ {Max(s)}] \in D
       /\ g[s] = combine[Max(s)][g[s \ {Max(s)}]]

(* There is such a function.                                               *)
LEMMA FoldIterates ==
  ASSUME NEW n \in Nat, NEW D, NEW base \in D, NEW combine \in [1..n -> [D -> D]]
  PROVE  \E g : Iterates(g, n, D, base, combine)
<1>1. PICK g : Folds(g, n, D, base, combine)
  BY FoldExists
<1>2. /\ g \in [SUBSET (1..n) -> D]
      /\ \A s \in SUBSET (1..n) :
           g[s] = IF s = {} THEN base ELSE combine[Max(s)][g[s \ {Max(s)}]]
  BY <1>1 DEF Folds
<1>3. g[{}] = base
  BY <1>2
<1>4. ASSUME NEW s \in SUBSET (1..n), s # {}
      PROVE  /\ Max(s) \in 1..n /\ g[s \ {Max(s)}] \in D
             /\ g[s] = combine[Max(s)][g[s \ {Max(s)}]]
  <2>1. Max(s) \in 1..n
    BY <1>4, GreatestOf
  <2> QED
    BY <1>2, <1>4, <2>1
<1> QED
  BY <1>2, <1>3, <1>4 DEF Iterates

(* The selections of a group are those of its constraints.                 *)
LEMMA GroupSolutions ==
  ASSUME sketch \in Sketches, SolutionsOK, NEW g \in Group
  PROVE  GroupSelections(g) \in Seq({t \in Selections : SolvesGroup(t, g)})
<1> DEFINE S == disjoint_indexes[g]
           P == Ascending(S)
           n == Cardinality(S)
           D == Seq({t \in Selections : SolvesGroup(t, g)})
           base == << >>
           Op(found, c) == found \o results[c].solutions
           combine == [k \in 1..n |-> [d \in D |-> Op(d, P[k])]]
           Eq(f) == f = [s \in SUBSET (1..n) |->
                           IF s = {} THEN base ELSE Op(f[s \ {Max(s)}], P[Max(s)])]
           iter == CHOOSE f : Eq(f)
<1>1. S \in SUBSET Nat /\ IsFiniteSet(S) /\ S \subseteq Constraint
  <2>1. S \subseteq Constraint
    BY GroupsAssumption DEF Group
  <2> QED
    BY <2>1, SketchesAssumption, FS_Subset
<1>2. n \in Nat /\ P \in [1..n -> S]
  BY <1>1, FS_CardinalityType, AscendingSet
<1> HIDE DEF P, n
<1>3. base \in D
  <2> DEFINE T == {t \in Selections : SolvesGroup(t, g)}
  <2> HIDE DEF T
  <2>1. << >> \in Seq(T)
    BY EmptySeq
  <2> QED
    BY <2>1 DEF T
<1>4. ASSUME NEW c \in S, NEW d \in D
      PROVE  Op(d, c) \in D
  <2> DEFINE T == {t \in Selections : SolvesGroup(t, g)}
             new == results[c].solutions
  <2>1. new \in Seq(Selections) /\ \A k \in DOMAIN new : SolvedBy(new[k], c)
    BY <1>1 DEF SolutionsOK
  <2>2. \A k \in DOMAIN new : new[k] \in T
    <3>1. \A k \in DOMAIN new : new[k] \in Selections
      BY <2>1
    <3> HIDE DEF new
    <3> QED
      BY <2>1, <3>1 DEF SolvesGroup
  <2> HIDE DEF T, new
  <2>3. new \in Seq(T)
    <3>1. Len(new) \in Nat /\ DOMAIN new = 1..Len(new) /\ new = [k \in DOMAIN new |-> new[k]]
      BY <2>1
    <3> QED
      BY <2>2, <3>1
  <2>4. d \in Seq(T)
    BY DEF T
  <2>5. d \o new \in Seq(T)
    BY <2>3, <2>4
  <2> QED
    BY <2>5 DEF T, new
<1> HIDE DEF D, base
<1>5. combine \in [1..n -> [D -> D]]
  <2>1. \A k \in 1..n : \A d \in D : Op(d, P[k]) \in D
    BY <1>2, <1>4
  <2> QED
    BY <2>1
<1>6. GroupSelections(g) = iter[1..n]
  <2>1. DOMAIN P = 1..n
    BY <1>2
  <2>2. GroupSelections(g)
          = (CHOOSE f : f = [s \in SUBSET DOMAIN P |->
                               IF s = {} THEN base ELSE Op(f[s \ {Max(s)}], P[Max(s)])])[DOMAIN P]
    BY DEF GroupSelections, P, base, FoldLeft, MapThenFoldSet
  <2> HIDE DEF Op
  <2> QED
    BY <2>1, <2>2
<1> HIDE DEF Op
<1>7. Eq(iter)
  <2>0. PICK f : Iterates(f, n, D, base, combine)
    <3> HIDE DEF combine
    <3> QED
      BY <1>2, <1>3, <1>5, FoldIterates
  <2>1. /\ f \in [SUBSET (1..n) -> D] /\ f[{}] = base
        /\ \A s \in SUBSET (1..n) : s # {} =>
             /\ Max(s) \in 1..n /\ f[s \ {Max(s)}] \in D
             /\ f[s] = combine[Max(s)][f[s \ {Max(s)}]]
    <3> HIDE DEF combine
    <3> QED
      BY <2>0 DEF Iterates
  <2>2. \A s \in SUBSET (1..n) : s # {} => f[s] = Op(f[s \ {Max(s)}], P[Max(s)])
    BY <2>1
  <2>3. f = [s \in SUBSET (1..n) |-> f[s]]
    BY <2>1
  <2>4. Eq(f)
    BY <2>1, <2>2, <2>3
  <2> HIDE DEF Eq
  <2> QED
    BY <2>4
<1>8. FoldsWithin(iter, n, D, base, combine)
  <2> HIDE DEF iter
  <2>1. iter[{}] = base
    BY <1>7
  <2>2. ASSUME NEW s \in SUBSET (1..n), s # {}, iter[s \ {Max(s)}] \in D
        PROVE  iter[s] = combine[Max(s)][iter[s \ {Max(s)}]]
    <3>1. Max(s) \in 1..n
      BY <1>2, <2>2, GreatestOf
    <3>2. iter[s] = Op(iter[s \ {Max(s)}], P[Max(s)])
      BY <1>7, <2>2
    <3> QED
      BY <2>2, <3>1, <3>2
  <2> HIDE DEF combine
  <2> QED
    BY <2>1, <2>2 DEF FoldsWithin
<1> HIDE DEF combine, iter
<1>9. PICK trace : IsTrace(trace, n, D, base, combine, iter[1..n])
  BY <1>2, <1>3, <1>5, <1>8, FoldTrace
<1>10. trace[n] \in D /\ trace[n] = iter[1..n]
  BY <1>2, <1>9 DEF IsTrace
<1> QED
  BY <1>6, <1>10 DEF D

(* An assignment that fills two selections that agree fills both.          *)
LEMMA JointFills ==
  ASSUME NEW x, NEW y, Agree(x, y), NEW a, Fills(a, Joint(x, y))
  PROVE  Fills(a, x) /\ Fills(a, y)
<1> SUFFICES ASSUME NEW h \in Hole
             PROVE  (x[h] # {} => a[h] \in x[h]) /\ (y[h] # {} => a[h] \in y[h])
  BY DEF Fills
<1>1. Joint(x, y)[h] = x[h] \cup y[h] /\ (x[h] = {} \/ y[h] = {} \/ x[h] = y[h])
  BY DEF Joint, Agree
<1>2. x[h] \cup y[h] # {} => a[h] \in x[h] \cup y[h]
  BY <1>1 DEF Fills
<1> QED
  BY <1>1, <1>2

(* Merging joins selections of both sides that agree.                      *)
MergedOf(saved, found) ==
  {t \in Selections : \E i \in DOMAIN saved : \E k \in DOMAIN found :
     Agree(saved[i], found[k]) /\ t = Joint(saved[i], found[k])}

(* Merging two lists joins pairs that agree                                *)
(* (update_primary_feasibility_groups).                                    *)
LEMMA MergeElements ==
  ASSUME NEW saved \in Seq(Selections), NEW found \in Seq(Selections)
  PROVE  MergeSelections(saved, found) \in Seq(MergedOf(saved, found))
<1> DEFINE n == Len(saved)
           T == MergedOf(saved, found)
           D == Seq(T)
           Agreeing(a) == Ascending({i \in DOMAIN found : Agree(a, found[i])})
           base == << >>
           Op(joined, a) == joined \o [i \in DOMAIN Agreeing(a) |-> Joint(a, found[Agreeing(a)[i]])]
           combine == [k \in 1..n |-> [d \in D |-> Op(d, saved[k])]]
           Eq(f) == f = [s \in SUBSET (1..n) |->
                           IF s = {} THEN base ELSE Op(f[s \ {Max(s)}], saved[Max(s)])]
           iter == CHOOSE f : Eq(f)
<1>1. n \in Nat /\ DOMAIN saved = 1..n /\ \A k \in 1..n : saved[k] \in Selections
  OBVIOUS
<1> HIDE DEF n, T
<1>2. base \in D
  BY EmptySeq
<1>3. ASSUME NEW k \in 1..n, NEW d \in D
      PROVE  Op(d, saved[k]) \in D
  <2> DEFINE a == saved[k]
             I == {i \in DOMAIN found : Agree(a, found[i])}
             A == Ascending(I)
             new == [i \in DOMAIN A |-> Joint(a, found[A[i]])]
             m == Cardinality(I)
  <2>1. I \in SUBSET Nat /\ IsFiniteSet(I)
    <3>1. DOMAIN found = 1..Len(found) /\ Len(found) \in Nat
      OBVIOUS
    <3>2. IsFiniteSet(1..Len(found))
      BY <3>1, FS_Interval
    <3> QED
      BY <3>1, <3>2, FS_Subset
  <2>2. m \in Nat /\ A \in [1..m -> I] /\ DOMAIN A = 1..m
    <3> HIDE DEF I
    <3> QED
      BY <2>1, FS_CardinalityType, AscendingSet
  <2> HIDE DEF A, m
  <2>3. ASSUME NEW i \in 1..m
        PROVE  Joint(a, found[A[i]]) \in T
    <3>1. A[i] \in DOMAIN found /\ Agree(a, found[A[i]])
      BY <2>2
    <3>2. a \in Selections /\ found[A[i]] \in Selections
      BY <1>1, <3>1
    <3>3. Joint(a, found[A[i]]) \in Selections
      BY <3>2 DEF Joint, Selections
    <3> QED
      BY <1>1, <3>1, <3>3 DEF T, MergedOf
  <2>4. new \in [1..m -> T]
    <3> HIDE DEF a
    <3> QED
      BY <2>2, <2>3
  <2> HIDE DEF new
  <2>5. new \in Seq(T)
    BY <2>2, <2>4
  <2>6. d \o new \in Seq(T)
    BY <2>5
  <2> QED
    BY <2>6 DEF new, A
<1> HIDE DEF D, base
<1>4. combine \in [1..n -> [D -> D]]
  BY <1>3
<1>5. MergeSelections(saved, found) = iter[1..n]
  <2>1. MergeSelections(saved, found)
          = (CHOOSE f : f = [s \in SUBSET DOMAIN saved |->
                               IF s = {} THEN base ELSE Op(f[s \ {Max(s)}], saved[Max(s)])])[DOMAIN saved]
    BY DEF MergeSelections, base, FoldLeft, MapThenFoldSet
  <2> HIDE DEF Op
  <2> QED
    BY <1>1, <2>1
<1> HIDE DEF Op
<1>6. Eq(iter)
  <2>0. PICK f : Iterates(f, n, D, base, combine)
    <3> HIDE DEF combine
    <3> QED
      BY <1>1, <1>2, <1>4, FoldIterates
  <2>1. /\ f \in [SUBSET (1..n) -> D] /\ f[{}] = base
        /\ \A s \in SUBSET (1..n) : s # {} =>
             /\ Max(s) \in 1..n /\ f[s \ {Max(s)}] \in D
             /\ f[s] = combine[Max(s)][f[s \ {Max(s)}]]
    <3> HIDE DEF combine
    <3> QED
      BY <2>0 DEF Iterates
  <2>2. \A s \in SUBSET (1..n) : s # {} => f[s] = Op(f[s \ {Max(s)}], saved[Max(s)])
    BY <2>1
  <2>3. f = [s \in SUBSET (1..n) |-> f[s]]
    BY <2>1
  <2>4. Eq(f)
    BY <2>1, <2>2, <2>3
  <2> HIDE DEF Eq
  <2> QED
    BY <2>4
<1>7. FoldsWithin(iter, n, D, base, combine)
  <2> HIDE DEF iter
  <2>1. iter[{}] = base
    BY <1>6
  <2>2. ASSUME NEW s \in SUBSET (1..n), s # {}, iter[s \ {Max(s)}] \in D
        PROVE  iter[s] = combine[Max(s)][iter[s \ {Max(s)}]]
    <3>1. Max(s) \in 1..n
      BY <1>1, <2>2, GreatestOf
    <3>2. iter[s] = Op(iter[s \ {Max(s)}], saved[Max(s)])
      BY <1>6, <2>2
    <3> QED
      BY <2>2, <3>1, <3>2
  <2> HIDE DEF combine
  <2> QED
    BY <2>1, <2>2 DEF FoldsWithin
<1> HIDE DEF combine, iter
<1>8. PICK trace : IsTrace(trace, n, D, base, combine, iter[1..n])
  BY <1>1, <1>2, <1>4, <1>7, FoldTrace
<1>9. trace[n] \in D /\ trace[n] = iter[1..n]
  BY <1>1, <1>8 DEF IsTrace
<1> QED
  BY <1>5, <1>9 DEF D, T

(* What joins two selections satisfies the groups of both.                 *)
LEMMA JointSolves ==
  ASSUME NEW x, NEW y, Agree(x, y), NEW t \in Selections, t = Joint(x, y), NEW g
  PROVE  SolvesGroup(x, g) \/ SolvesGroup(y, g) => SolvesGroup(t, g)
<1>1. ASSUME NEW c
      PROVE  SolvedBy(x, c) \/ SolvedBy(y, c) => SolvedBy(t, c)
  <2>1. \A a : Fills(a, t) => Fills(a, x) /\ Fills(a, y)
    BY JointFills
  <2> QED
    BY <2>1 DEF SolvedBy, Satisfying
<1> QED
  BY <1>1 DEF SolvesGroup

(* The merged selections satisfy every group that was evaluated.           *)
EvaluatedGroup(g) == \E c \in disjoint_indexes[g] : feasibility[c] # "unchecked"

(* By the fold over the groups: each merged selection is a merge of one of *)
(* the groups before with one of this group, and keeps what both satisfy.  *)
LEMMA SatSelections ==
  ASSUME sketch \in Sketches, SolutionsOK
  PROVE  /\ sat_selections \in Seq(Selections)
         /\ \A i \in DOMAIN sat_selections : \A g \in Group :
              EvaluatedGroup(g) => SolvesGroup(sat_selections[i], g)
<1> DEFINE P == Ascending(Group)
           n == Cardinality(Group)
           D == Seq(Selections)
           base == <<NoSelection>>
           Op(saved, g) ==
             IF \A c \in disjoint_indexes[g] : feasibility[c] = "unchecked" THEN saved
             ELSE MergeSelections(saved, GroupSelections(g))
           combine == [k \in 1..n |-> [d \in D |-> Op(d, P[k])]]
           Eq(f) == f = [s \in SUBSET (1..n) |->
                           IF s = {} THEN base ELSE Op(f[s \ {Max(s)}], P[Max(s)])]
           iter == CHOOSE f : Eq(f)
<1>1. Group \in SUBSET Nat /\ IsFiniteSet(Group)
  <2>1. Len(disjoint_indexes) \in Nat /\ Group = 1..Len(disjoint_indexes)
    BY GroupsAssumption DEF Group
  <2> QED
    BY <2>1, FS_Interval
<1>2. n \in Nat /\ P \in [1..n -> Group] /\ \A g \in Group : \E j \in 1..n : P[j] = g
  BY <1>1, FS_CardinalityType, AscendingSet
<1> HIDE DEF P, n
<1>3. base \in D
  <2>1. NoSelection \in Selections
    BY DEF NoSelection, Selections
  <2> HIDE DEF NoSelection
  <2> QED
    BY <2>1
<1> HIDE DEF base
<1>4. ASSUME NEW g \in Group, EvaluatedGroup(g), NEW saved \in D
      PROVE  /\ MergeSelections(saved, GroupSelections(g)) \in Seq(Selections)
             /\ \A i \in DOMAIN MergeSelections(saved, GroupSelections(g)) :
                  LET t == MergeSelections(saved, GroupSelections(g))[i]
                  IN  /\ SolvesGroup(t, g)
                      /\ \E j \in DOMAIN saved : \A k : SolvesGroup(saved[j], k) => SolvesGroup(t, k)
  <2> DEFINE found == GroupSelections(g)
             merged == MergeSelections(saved, found)
  <2>1. found \in Seq({t \in Selections : SolvesGroup(t, g)})
    BY GroupSolutions
  <2> HIDE DEF found
  <2>2. found \in Seq(Selections) /\ \A k \in DOMAIN found : SolvesGroup(found[k], g)
    BY <2>1
  <2>3. merged \in Seq(MergedOf(saved, found))
    BY <2>2, MergeElements
  <2> HIDE DEF merged
  <2>4. merged \in Seq(Selections)
    <3>1. MergedOf(saved, found) \subseteq Selections
      BY DEF MergedOf
    <3> QED
      BY <2>3, <3>1
  <2>5. ASSUME NEW i \in DOMAIN merged
        PROVE  /\ SolvesGroup(merged[i], g)
               /\ \E j \in DOMAIN saved : \A k : SolvesGroup(saved[j], k) => SolvesGroup(merged[i], k)
    <3>1. merged[i] \in MergedOf(saved, found)
      BY <2>3
    <3>2. PICK j \in DOMAIN saved : \E k \in DOMAIN found :
            Agree(saved[j], found[k]) /\ merged[i] = Joint(saved[j], found[k])
      BY <3>1 DEF MergedOf
    <3>3. PICK k \in DOMAIN found : Agree(saved[j], found[k]) /\ merged[i] = Joint(saved[j], found[k])
      BY <3>2
    <3>4. merged[i] \in Selections
      BY <3>1 DEF MergedOf
    <3>5. \A q : SolvesGroup(saved[j], q) \/ SolvesGroup(found[k], q) => SolvesGroup(merged[i], q)
      BY <3>3, <3>4, JointSolves
    <3> QED
      BY <2>2, <3>5
  <2> QED
    BY <2>4, <2>5 DEF merged, found
<1>5. ASSUME NEW g \in Group, NEW saved \in D
      PROVE  Op(saved, g) \in D
  <2>1. CASE EvaluatedGroup(g)
    BY <1>4, <2>1
  <2>2. CASE ~ EvaluatedGroup(g)
    <3>1. \A c \in disjoint_indexes[g] : feasibility[c] = "unchecked"
      BY <2>2 DEF EvaluatedGroup
    <3> HIDE DEF D
    <3> QED
      BY <3>1
  <2> QED
    BY <2>1, <2>2
<1> HIDE DEF D
<1>6. combine \in [1..n -> [D -> D]]
  <2>1. \A k \in 1..n : \A d \in D : Op(d, P[k]) \in D
    BY <1>2, <1>5
  <2> HIDE DEF Op
  <2> QED
    BY <2>1
<1>7. sat_selections = iter[1..n]
  <2>1. DOMAIN P = 1..n
    BY <1>2
  <2>2. sat_selections
          = (CHOOSE f : f = [s \in SUBSET DOMAIN P |->
                               IF s = {} THEN base ELSE Op(f[s \ {Max(s)}], P[Max(s)])])[DOMAIN P]
    BY DEF sat_selections, P, base, FoldLeft, MapThenFoldSet
  <2> HIDE DEF Op
  <2> QED
    BY <2>1, <2>2
<1>8. \A saved, g : Op(saved, g) = IF EvaluatedGroup(g) THEN MergeSelections(saved, GroupSelections(g))
                                   ELSE saved
  BY DEF EvaluatedGroup
<1> HIDE DEF Op
<1>9. Eq(iter)
  <2>0. PICK f : Iterates(f, n, D, base, combine)
    <3> HIDE DEF combine
    <3> QED
      BY <1>2, <1>3, <1>6, FoldIterates
  <2>1. /\ f \in [SUBSET (1..n) -> D] /\ f[{}] = base
        /\ \A s \in SUBSET (1..n) : s # {} =>
             /\ Max(s) \in 1..n /\ f[s \ {Max(s)}] \in D
             /\ f[s] = combine[Max(s)][f[s \ {Max(s)}]]
    <3> HIDE DEF combine
    <3> QED
      BY <2>0 DEF Iterates
  <2>2. \A s \in SUBSET (1..n) : s # {} => f[s] = Op(f[s \ {Max(s)}], P[Max(s)])
    BY <2>1
  <2>3. f = [s \in SUBSET (1..n) |-> f[s]]
    BY <2>1
  <2>4. Eq(f)
    BY <2>1, <2>2, <2>3
  <2> HIDE DEF Eq
  <2> QED
    BY <2>4
<1>10. FoldsWithin(iter, n, D, base, combine)
  <2> HIDE DEF iter
  <2>1. iter[{}] = base
    BY <1>9
  <2>2. ASSUME NEW s \in SUBSET (1..n), s # {}, iter[s \ {Max(s)}] \in D
        PROVE  iter[s] = combine[Max(s)][iter[s \ {Max(s)}]]
    <3>1. Max(s) \in 1..n
      BY <1>2, <2>2, GreatestOf
    <3>2. iter[s] = Op(iter[s \ {Max(s)}], P[Max(s)])
      BY <1>9, <2>2
    <3> QED
      BY <2>2, <3>1, <3>2
  <2> HIDE DEF combine
  <2> QED
    BY <2>1, <2>2 DEF FoldsWithin
<1> HIDE DEF iter
<1>11. PICK trace : IsTrace(trace, n, D, base, combine, iter[1..n])
  <2> HIDE DEF combine
  <2> QED
    BY <1>2, <1>3, <1>6, <1>10, FoldTrace
<1>12. /\ trace \in [0..n -> D] /\ trace[n] = iter[1..n]
       /\ \A k \in 1..n : trace[k] = Op(trace[k - 1], P[k])
  <2>1. /\ trace \in [0..n -> D] /\ trace[n] = iter[1..n]
        /\ \A k \in 1..n : trace[k] = combine[k][trace[k - 1]]
    <3> HIDE DEF combine
    <3> QED
      BY <1>11 DEF IsTrace
  <2>2. \A k \in 1..n : k - 1 \in 0..n
    BY <1>2
  <2> QED
    BY <2>1, <2>2
<1> HIDE DEF combine
<1> DEFINE Good(k) == \A i \in DOMAIN trace[k] : \A j \in 1..k :
                        EvaluatedGroup(P[j]) => SolvesGroup(trace[k][i], P[j])
           B == {k \in 0..n : ~ Good(k)}
<1>13. ASSUME NEW k \in 1..n, Good(k - 1)
       PROVE  Good(k)
  <2> SUFFICES ASSUME NEW i \in DOMAIN trace[k], NEW j \in 1..k, EvaluatedGroup(P[j])
               PROVE  SolvesGroup(trace[k][i], P[j])
    OBVIOUS
  <2>1. k - 1 \in 0..n /\ trace[k - 1] \in D /\ j \in 1..n /\ (j = k \/ j \in 1..(k - 1))
    BY <1>2, <1>12
  <2>2. P[k] \in Group
    BY <1>2
  <2>3. CASE EvaluatedGroup(P[k])
    <3>1. trace[k] = MergeSelections(trace[k - 1], GroupSelections(P[k]))
      BY <1>8, <1>12, <2>3
    <3>2. /\ SolvesGroup(trace[k][i], P[k])
          /\ \E m \in DOMAIN trace[k - 1] : \A q : SolvesGroup(trace[k - 1][m], q) => SolvesGroup(trace[k][i], q)
      BY <1>4, <2>1, <2>2, <2>3, <3>1
    <3> QED
      BY <1>13, <2>1, <3>2
  <2>4. CASE ~ EvaluatedGroup(P[k])
    <3>1. trace[k] = trace[k - 1]
      BY <1>8, <1>12, <2>4
    <3> QED
      BY <1>13, <2>1, <2>4, <3>1
  <2> QED
    BY <2>3, <2>4
<1>14. B = {}
  <2>1. SUFFICES ASSUME B # {}
                 PROVE  FALSE
    OBVIOUS
  <2>2. Good(0)
    OBVIOUS
  <2> HIDE DEF Good
  <2>3. PICK k \in B : \A j \in B : k <= j
    <3>1. B \in SUBSET Nat
      OBVIOUS
    <3> HIDE DEF B
    <3> QED
      BY <2>1, <3>1, LeastNatural
  <2>4. k \in 1..n /\ k - 1 \in 0..n /\ k - 1 \notin B
    BY <1>2, <2>2, <2>3
  <2> QED
    BY <1>13, <2>3, <2>4
<1>15. Good(n) /\ trace[n] \in D
  <2>1. n \in 0..n
    BY <1>2
  <2> HIDE DEF Good
  <2> QED
    BY <1>12, <1>14, <2>1
<1> DEFINE found == sat_selections
<1>16. found = trace[n]
  BY <1>7, <1>12
<1> HIDE DEF found
<1>17. ASSUME NEW i \in DOMAIN found, NEW g \in Group, EvaluatedGroup(g)
       PROVE  SolvesGroup(found[i], g)
  <2>1. PICK j \in 1..n : P[j] = g
    BY <1>2
  <2> QED
    BY <1>15, <1>16, <1>17, <2>1
<1> QED
  BY <1>15, <1>16, <1>17 DEF found, D

-----------------------------------------------------------------------------
(***************************************************************************)
(* An undecided constraint has a hole to split on.                         *)
(***************************************************************************)

(* The bounds of a state are the same in both directions.                  *)
SameValue(M, i) ==
  LET least == computeUntilProbabilities(M, TRUE, Target(M))
      most  == computeUntilProbabilities(M, FALSE, Target(M))
  IN  (i \in least.zero <=> i \in most.zero) /\ (i \in least.one <=> i \in most.one)

(* The rows of a state with a trivial hole, or without one, are the same.  *)
LEMMA TrivialRows ==
  ASSUME sketch \in Sketches, family \in Family, NEW M, IsModel(M, family), NEW s \in StatesOf(M),
         sketch.hole[s] = 0 \/ Trivial(family, sketch.hole[s]),
         NEW r \in Rows(M, s), NEW t \in Rows(M, s)
  PROVE  M.rows[s][r] = M.rows[s][t]
<1>1. s \in DOMAIN sketch.rows
  BY DEF IsModel
<1>2. PICK j \in Selected(family)[s] : RowIs(M, s, r, j)
  BY DEF IsModel
<1>3. PICK k \in Selected(family)[s] : RowIs(M, s, t, k)
  BY DEF IsModel
<1>4. /\ j \in DOMAIN sketch.rows[s] /\ k \in DOMAIN sketch.rows[s]
      /\ sketch.hole[s] # 0 => /\ sketch.options[s][j] \in family[sketch.hole[s]]
                               /\ sketch.options[s][k] \in family[sketch.hole[s]]
  BY <1>1 DEF Selected
<1>5. CASE sketch.hole[s] = 0
  <2>1. j = 1 /\ k = 1
    BY <1>1, <1>4, <1>5, SketchType
  <2> QED
    BY <1>2, <1>3, <2>1 DEF RowIs
<1>6. CASE sketch.hole[s] # 0
  <2> DEFINE h == sketch.hole[s]
  <2>1. h \in Hole
    BY <1>1, <1>6, SketchType
  <2>2. IsFiniteSet(family[h]) /\ Cardinality(family[h]) = 1
    BY <1>6, <2>1, OptionsAssumption, FS_Subset DEF Family, Trivial
  <2>3. sketch.options[s][j] = sketch.options[s][k]
    <3> HIDE DEF h
    <3>1. Cardinality(family[h]) <= 1
      BY <2>2
    <3>2. sketch.options[s][j] \in family[h] /\ sketch.options[s][k] \in family[h]
      BY <1>4, <1>6 DEF h
    <3> QED
      BY <2>2, <3>1, <3>2, AtMostOne
  <2>4. j = k
    BY <1>1, <1>4, <1>6, <2>3, OneRowEach
  <2> QED
    BY <1>2, <1>3, <2>4 DEF RowIs
<1> QED
  BY <1>5, <1>6

(* If no hole is scored when all are, the value is decided.                *)
LEMMA UnscoredValue ==
  ASSUME sketch \in Sketches, family \in Family, NEW M, IsModel(M, family),
         NEW i \in sketch.initial, SchedulerOf(i), NEW result, NEW minimizing, NEW joint,
         ScoresOf(M, result, minimizing, {}, joint, i).scored = {}
  PROVE  SameValue(M, i)
<1> DEFINE N == Within(M, i)
           T == Target(M)
           holes == RelevantHoles(i)
           assigned == OptionsToScore({}, joint)
           visited == VisitedStates(M, result.scheduler, i, minimizing)
           scores == ScoresOf(M, result, minimizing, {}, joint, i)
<1>1. /\ MdpOK(M) /\ T \in SUBSET StatesOf(M) /\ i \in StatesOf(M)
  BY DEF IsModel, Target
<1>2. /\ i \in N /\ N \in SUBSET StatesOf(M)
      /\ \A s \in N : \A r \in Rows(M, s) : M.rows[s][r] \subseteq N
  BY WithinSketch
<1>3. /\ scores = estimate_scheduler_difference(M, result, visited, holes, assigned)
      /\ holes \in SUBSET Hole /\ \A h \in Hole : assigned[h] = family[h]
  <2>1. HolesToScore({}, i) = holes
    BY DEF HolesToScore
  <2>2. \A h \in Hole : assigned[h] = family[h]
    BY DEF OptionsToScore
  <2>3. holes \in SUBSET Hole
    BY DEF RelevantHoles
  <2> HIDE DEF holes, assigned
  <2> QED
    BY <2>1, <2>2, <2>3 DEF ScoresOf, assigned
<1> HIDE DEF N, T, holes, assigned, visited, scores
<1>4. /\ ScoresOK(scores, family, holes)
      /\ \A h \in scores.positive : \E s \in visited : s \in StatesOfHole(M, h)
      /\ \A h \in holes : (\E s \in StatesOfHole(M, h) : \E r \in Rows(M, s) :
                             M.options[s][r] \in assigned[h]) => h \in scores.scored
  <2>1. holes \in SUBSET Hole
    BY <1>3
  <2>2. scores = estimate_scheduler_difference(M, result, visited, holes, assigned)
    BY <1>3
  <2> QED
    BY <2>1, <2>2, ScoresType
<1>5. ASSUME NEW s \in N
      PROVE  sketch.hole[s] = 0 \/ Trivial(family, sketch.hole[s])
  <2> SUFFICES ASSUME sketch.hole[s] # 0, ~ Trivial(family, sketch.hole[s])
               PROVE  FALSE
    OBVIOUS
  <2> DEFINE h == sketch.hole[s]
  <2>1. s \in StatesOf(M) /\ s \in ReachableFrom(sketch, i) /\ s \in DOMAIN sketch.rows
    BY <1>2 DEF N, Within, IsModel
  <2>2. h \in Hole /\ i \in sketch.initial_states[h]
    BY <2>1, SketchType DEF SchedulerOf
  <2>3. h \in holes
    BY <2>2 DEF RelevantHoles, holes
  <2>4. s \in StatesOfHole(M, h) /\ 1 \in Rows(M, s)
    BY <1>1, <2>1 DEF StatesOfHole, MdpOK
  <2> HIDE DEF h
  <2>5. M.options[s][1] \in assigned[h]
    BY <1>3, <2>2, <2>4, OptionOfRow
  <2> QED
    BY <1>4, <2>3, <2>4, <2>5 DEF scores
<1>6. ASSUME NEW f \in Schedulers(M), NEW g \in Schedulers(M)
      PROVE  /\ i \in Never(ChainOf(M, f), T) <=> i \in Never(ChainOf(M, g), T)
             /\ i \in Surely(ChainOf(M, f), T) <=> i \in Surely(ChainOf(M, g), T)
  <2> DEFINE C == ChainOf(M, f)
             D == ChainOf(M, g)
  <2>1. IsScheduler(f, M) /\ IsScheduler(g, M)
    BY <1>1, SchedulersAre
  <2>2. /\ IsChain(C) /\ StatesOf(C) = StatesOf(M)
        /\ IsChain(D) /\ StatesOf(D) = StatesOf(M)
        /\ \A s \in StatesOf(M) : C.rows[s][1] = M.rows[s][f[s]] /\ D.rows[s][1] = M.rows[s][g[s]]
    BY <1>1, <2>1, ChainOfScheduler
  <2>3. ASSUME NEW s \in N
        PROVE  C.rows[s][1] = D.rows[s][1] /\ C.rows[s][1] \subseteq N
    <3>1. s \in StatesOf(M) /\ f[s] \in Rows(M, s) /\ g[s] \in Rows(M, s)
      BY <1>2, <2>1 DEF IsScheduler
    <3>2. M.rows[s][f[s]] = M.rows[s][g[s]]
      BY <1>5, <3>1, TrivialRows
    <3> QED
      BY <1>2, <2>2, <3>1, <3>2
  <2> HIDE DEF C, D
  <2>4. AgreeWithin(C, D, N)
    BY <2>3 DEF AgreeWithin
  <2>5. /\ i \in Never(C, T) <=> i \in Never(D, T)
        /\ i \in Surely(C, T) <=> i \in Surely(D, T)
    BY <1>2, <2>2, <2>4, ValuesAlike
  <2> QED
    BY <2>5 DEF C, D
<1>7. PICK f \in Schedulers(M) : TRUE
  BY <1>1, ProbSchedules, ChainOfScheduler
<1> DEFINE least == computeUntilProbabilities(M, TRUE, T)
           most == computeUntilProbabilities(M, FALSE, T)
<1>8. /\ i \in least.zero <=> \E g \in Schedulers(M) : i \in Never(ChainOf(M, g), T)
      /\ i \in least.one  <=> \A g \in Schedulers(M) : i \in Surely(ChainOf(M, g), T)
      /\ i \in most.zero  <=> \A g \in Schedulers(M) : i \in Never(ChainOf(M, g), T)
      /\ i \in most.one   <=> \E g \in Schedulers(M) : i \in Surely(ChainOf(M, g), T)
  <2>1. /\ performProb01Min(M, StatesOf(M), T).zero = least.zero
        /\ performProb01Min(M, StatesOf(M), T).one = least.one
        /\ performProb01Max(M, StatesOf(M), T).zero = most.zero
        /\ performProb01Max(M, StatesOf(M), T).one = most.one
    BY UntilValues DEF performProb01Min, performProb01Max
  <2> HIDE DEF least, most
  <2> QED
    BY <1>1, <2>1, BoundsExact
<1> HIDE DEF least, most
<1>9. (i \in least.zero <=> i \in most.zero) /\ (i \in least.one <=> i \in most.one)
  BY <1>6, <1>7, <1>8
<1> QED
  BY <1>9 DEF SameValue, least, most, T

(* An undecided constraint has a scored hole.                              *)
Scored(result, c) ==
  result.primary_scores.scored # {} \/ (c \in HyperConstraint /\ result.secondary_scores.scored # {})

(* If no hole were scored, the primary and the secondary bounds would be   *)
(* the same at the states of the constraint, and it would be decided.      *)
LEMMA UndecidedScored ==
  ASSUME sketch \in Sketches, family \in Family, NEW M, IsModel(M, family), NEW c \in Constraint,
         Check(M, c).feasibility = "None"
  PROVE  Scored(Check(M, c), c)
<1> DEFINE prop == sketch.constraint[c]
           P == computeUntilProbabilities(M, prop.minimizing, Target(M))
           Q == computeUntilProbabilities(M, ~ prop.minimizing, Target(M))
           first1 == scheduler_selection(M, P.scheduler, prop.state)
           first2 == scheduler_selection(M, Q.scheduler, prop.other_state)
<1>1. /\ prop.minimizing \in BOOLEAN /\ prop.state \in sketch.initial /\ prop.other_state \in sketch.initial
      /\ SchedulerOf(prop.state) /\ SchedulerOf(prop.other_state)
  BY ConstraintStates
<1>2. IsScheduler(P.scheduler, M) /\ IsScheduler(Q.scheduler, M)
  <2>1. MdpOK(M) /\ Target(M) \in SUBSET StatesOf(M) /\ (~ prop.minimizing) \in BOOLEAN
    BY <1>1 DEF IsModel, Target
  <2> HIDE DEF prop
  <2> QED
    BY <1>1, <2>1, ProbSchedules
<1>3. ASSUME NEW i, SameValue(M, i)
      PROVE  (i \in P.zero <=> i \in Q.zero) /\ (i \in P.one <=> i \in Q.one)
  <2> DEFINE m == prop.minimizing
  <2>1. m = TRUE \/ m = FALSE
    BY <1>1
  <2>2. CASE m = TRUE
    <3>1. (~ m) = FALSE
      BY <2>2
    <3> QED
      BY <1>3, <2>2, <3>1 DEF SameValue
  <2>3. CASE m = FALSE
    <3>1. (~ m) = TRUE
      BY <2>3
    <3> QED
      BY <1>3, <2>3, <3>1 DEF SameValue
  <2> QED
    BY <2>1, <2>2, <2>3
<1>5. \A f \in {"True", "False"} : Decided(f).feasibility = f
  BY DEF Decided
<1>6. CASE c \notin HyperConstraint
  <2> DEFINE U == UndecidedProperty(M, prop, P)
             used == Inconsistent(first1)
             scores == ScoresOf(M, P, prop.minimizing, used, first1, prop.state)
  <2>1. Check(M, c) = IF ~ Holds(prop, P) THEN Decided("False")
                      ELSE IF Holds(prop, Q) THEN Decided("True")
                      ELSE U
    BY <1>6 DEF Check, check_property
  <2>2. U.primary_scores = scores
    BY DEF UndecidedProperty
  <2>3. used # {} => scores.scored # {}
    <3>1. UndecidedOK(U, c) /\ U.primary_consistent = (used = {})
      <4>1. UndecidedOK(U, c)
        BY <1>1, <1>2, <1>6, UndecidedPropertyType
      <4>2. U.primary_consistent = (used = {})
        BY DEF UndecidedProperty
      <4> QED
        BY <4>1, <4>2
    <3> HIDE DEF U, scores, used
    <3> QED
      BY <1>6, <2>2, <3>1 DEF UndecidedOK
  <2>4. used = {} /\ scores.scored = {} => SameValue(M, prop.state)
    <3> HIDE DEF used, P, prop, first1
    <3> QED
      BY <1>1, UnscoredValue
  <2>5. SameValue(M, prop.state) => (Holds(prop, P) <=> Holds(prop, Q))
    BY <1>3 DEF Holds
  <2> HIDE DEF U, P, Q, prop, used, scores
  <2>6. Check(M, c) = U /\ ~ (Holds(prop, P) <=> Holds(prop, Q))
    BY <1>5, <2>1
  <2> QED
    BY <2>2, <2>3, <2>4, <2>5, <2>6 DEF Scored
<1>7. CASE c \in HyperConstraint
  <2> DEFINE U == UndecidedHyperproperty(M, prop, P, Q)
             joint == Joint(first1, first2)
             open == Inconsistent(joint)
             used1 == UsedHoles(open, first1)
             used2 == UsedHoles(open, first2)
             scores1 == ScoresOf(M, P, prop.minimizing, used1, joint, prop.state)
             scores2 == ScoresOf(M, Q, ~ prop.minimizing, used2, joint, prop.other_state)
             Sat(R, S) == Compare(prop, ValueAt(R, prop.state), ValueAt(S, prop.other_state))
  <2>1. Check(M, c) = IF ~ Sat(P, Q) THEN Decided("False")
                      ELSE IF Sat(Q, P) THEN Decided("True")
                      ELSE U
    BY <1>7 DEF Check, check_hyperproperty
  <2>2. U.primary_scores = scores1 /\ U.secondary_scores = scores2
    <3>1. U.primary_scores = scores1
      BY DEF UndecidedHyperproperty
    <3>2. U.secondary_scores = scores2
      BY DEF UndecidedHyperproperty
    <3> QED
      BY <3>1, <3>2
  <2>3. (used1 # {} => scores1.scored # {}) /\ (used2 # {} => scores2.scored # {})
    <3>1. UndecidedOK(U, c)
      BY <1>1, <1>2, <1>7, UndecidedHyperpropertyType
    <3>2. U.max_of_none = (\/ used1 # {} /\ scores1.scored = {}
                           \/ used2 # {} /\ scores2.scored = {})
      BY DEF UndecidedHyperproperty
    <3> HIDE DEF U, scores1, scores2, used1, used2
    <3> QED
      BY <3>1, <3>2 DEF UndecidedOK
  <2>4. /\ used1 = {} /\ scores1.scored = {} => SameValue(M, prop.state)
        /\ used2 = {} /\ scores2.scored = {} => SameValue(M, prop.other_state)
    <3> HIDE DEF used1, used2, P, Q, prop, joint
    <3> QED
      BY <1>1, UnscoredValue
  <2>5. SameValue(M, prop.state) /\ SameValue(M, prop.other_state) => (Sat(P, Q) <=> Sat(Q, P))
    <3> SUFFICES ASSUME SameValue(M, prop.state), SameValue(M, prop.other_state)
                 PROVE  Sat(P, Q) <=> Sat(Q, P)
      OBVIOUS
    <3>1. /\ ValueAt(P, prop.state) = ValueAt(Q, prop.state)
          /\ ValueAt(P, prop.other_state) = ValueAt(Q, prop.other_state)
      BY <1>3 DEF ValueAt
    <3> HIDE DEF P, Q, prop
    <3> QED
      BY <3>1
  <2> HIDE DEF U, P, Q, prop, used1, used2, scores1, scores2, Sat
  <2>6. Check(M, c) = U /\ ~ (Sat(P, Q) <=> Sat(Q, P))
    BY <1>5, <2>1
  <2> QED
    BY <1>7, <2>2, <2>3, <2>4, <2>5, <2>6 DEF Scored
<1> QED
  BY <1>6, <1>7

-----------------------------------------------------------------------------
(***************************************************************************)
(* What the results say of a family whose values are 0 and 1: the second   *)
(* part of the invariant.                                                  *)
(***************************************************************************)

(* The selections listed for a constraint satisfy it, none is listed for   *)
(* one that is infeasible, and an undecided one has scores.                *)
CheckedWell(result, c) ==
  /\ sat # None /\ ~ result.promoted =>
       /\ result.solutions \in Seq(Selections)
       /\ \A k \in DOMAIN result.solutions : Satisfying(result.solutions[k], family, c)
  /\ result.feasibility = "False" => result.solutions = << >>
  /\ result.feasibility = "None" => Scored(result, c)

(* A family that is split is undecided.                                    *)
Undecided(f) == OverallFeasibility(f) \notin {"True", "False"}

ResultsInv ==
  /\ status = "checking" => Qualitative(mdp)
  /\ status \notin {"new", "failed"} =>
       \A c \in Constraint : results[c] = Unchecked \/ CheckedWell(results[c], c)
  /\ status \in {"selected", "undecided"} => Undecided(feasibility)
  /\ status = "selected" => sat_selections # << >>

(* An infeasible constraint lists no selection.                            *)
LEMMA InfeasibleSolutions ==
  ASSUME NEW M, NEW c, Check(M, c).feasibility = "False"
  PROVE  Check(M, c).solutions = << >>
<1> DEFINE prop == sketch.constraint[c]
           P == computeUntilProbabilities(M, prop.minimizing, Target(M))
           Q == computeUntilProbabilities(M, ~ prop.minimizing, Target(M))
<1>1. /\ Decided("False").solutions = << >> /\ Decided("True").feasibility = "True"
  BY DEF Decided
<1>2. CASE c \notin HyperConstraint
  <2> DEFINE U == UndecidedProperty(M, prop, P)
  <2>1. Check(M, c) = IF ~ Holds(prop, P) THEN Decided("False")
                      ELSE IF Holds(prop, Q) THEN Decided("True")
                      ELSE U
    BY <1>2 DEF Check, check_property
  <2>2. U.feasibility = "None"
    BY DEF UndecidedProperty
  <2> HIDE DEF U, P, Q, prop
  <2> QED
    BY <1>1, <2>1, <2>2
<1>3. CASE c \in HyperConstraint
  <2> DEFINE U == UndecidedHyperproperty(M, prop, P, Q)
             Sat(R, S) == Compare(prop, ValueAt(R, prop.state), ValueAt(S, prop.other_state))
  <2>1. Check(M, c) = IF ~ Sat(P, Q) THEN Decided("False")
                      ELSE IF Sat(Q, P) THEN Decided("True")
                      ELSE U
    BY <1>3 DEF Check, check_hyperproperty
  <2>2. U.feasibility = "None"
    BY DEF UndecidedHyperproperty
  <2> HIDE DEF U, P, Q, prop, Sat
  <2> QED
    BY <1>1, <2>1, <2>2
<1> QED
  BY <1>2, <1>3

(* A constraint is checked well.                                           *)
LEMMA CheckWell ==
  ASSUME IInv, ResultsInv, status = "checking", NEW c \in Constraint
  PROVE  CheckedWell(Check(mdp, c), c)
<1>1. /\ sketch \in Sketches /\ family \in Family /\ IsModel(mdp, family) /\ Qualitative(mdp)
      /\ sat # None => Matched(sketch) /\ sat = SatOf(sketch)
  BY DEF IInv, SatInv, FamilyInv, ResultsInv
<1>2. ASSUME sat # None, ~ Check(mdp, c).promoted
      PROVE  /\ Check(mdp, c).solutions \in Seq(Selections)
             /\ \A k \in DOMAIN Check(mdp, c).solutions :
                  Satisfying(Check(mdp, c).solutions[k], family, c)
  <2>1. QualitativeModel(mdp, family)
    BY <1>1, <1>2 DEF QualitativeModel
  <2> QED
    BY <1>2, <2>1, CheckSolutions DEF Selections
<1>3. Check(mdp, c).feasibility = "False" => Check(mdp, c).solutions = << >>
  BY InfeasibleSolutions
<1>4. Check(mdp, c).feasibility = "None" => Scored(Check(mdp, c), c)
  BY <1>1, UndecidedScored
<1> QED
  BY <1>2, <1>3, <1>4 DEF CheckedWell

(* A result is kept.                                                       *)
LEMMA CheckedKept ==
  ASSUME NEW result, NEW c, CheckedWell(result, c), UNCHANGED <<sat, family>>, result = results'[c]
  PROVE  CheckedWell(results[c], c)'
BY DEF CheckedWell, Satisfying

(* What is said of the results, when they are left alone.                  *)
LEMMA ResultsKept ==
  ASSUME ResultsInv, UNCHANGED <<sketch, sat, family, mdp, results>>,
         status \notin {"new", "failed"}, status' = "checking" => status = "checking"
  PROVE  /\ status' = "checking" => Qualitative(mdp)'
         /\ \A c \in Constraint : (results[c] = Unchecked \/ CheckedWell(results[c], c))'
<1>1. Qualitative(mdp)' = Qualitative(mdp)
  BY DEF Qualitative, Target
<1>2. ASSUME NEW c \in Constraint
      PROVE  (results[c] = Unchecked \/ CheckedWell(results[c], c))'
  <2>1. results[c] = Unchecked \/ CheckedWell(results[c], c)
    BY DEF ResultsInv
  <2>2. CheckedWell(results[c], c) => CheckedWell(results[c], c)'
    BY CheckedKept
  <2> QED
    BY <2>1, <2>2 DEF Unchecked
<1> QED
  BY <1>1, <1>2 DEF ResultsInv

(* The feasibilities and the merged selections are read from the results.  *)
SelectionsOf(r) ==
  FoldLeft(LAMBDA saved, g :
             IF \A c \in disjoint_indexes[g] :
                  [d \in Constraint |-> r[d].feasibility][c] = "unchecked" THEN saved
             ELSE MergeSelections(saved,
                    FoldLeft(LAMBDA found, c : found \o r[c].solutions, << >>,
                             Ascending(disjoint_indexes[g]))),
           <<NoSelection>>, Ascending(Group))

(* They are kept with the results.                                         *)
LEMMA SelectionsKept ==
  ASSUME UNCHANGED results
  PROVE  feasibility' = feasibility /\ sat_selections' = sat_selections
<1>1. feasibility' = feasibility
  BY DEF feasibility
<1>2. sat_selections = SelectionsOf(results)
  BY DEF sat_selections, GroupSelections, feasibility, SelectionsOf,
         FoldLeft, MapThenFoldSet
<1>3. sat_selections' = SelectionsOf(results')
  BY DEF sat_selections, GroupSelections, feasibility, SelectionsOf,
         FoldLeft, MapThenFoldSet
<1> QED
  BY <1>1, <1>2, <1>3

(* Initially nothing is checked.                                           *)
LEMMA InitResultsInv == Init => ResultsInv
BY DEF Init, ResultsInv

(* The cases are the actions of Next.                                      *)
LEMMA StepResultsInv == IInv /\ ResultsInv /\ [Next]_vars => ResultsInv'
<1> SUFFICES ASSUME IInv, ResultsInv, [Next]_vars
             PROVE  ResultsInv'
  OBVIOUS
<1>1. CASE Build
  <2>1. /\ results' = [c \in Constraint |-> Unchecked]
        /\ status' = IF Qualitative(mdp') THEN "checking" ELSE "numeric"
        /\ UNCHANGED sketch
    BY <1>1 DEF Build
  <2>2. Qualitative(mdp)' = Qualitative(mdp')
    BY <2>1 DEF Qualitative, Target
  <2>3. \A c \in Constraint : (results[c] = Unchecked)'
    BY <2>1 DEF Unchecked
  <2> QED
    BY <2>1, <2>2, <2>3 DEF ResultsInv
<1>2. CASE FailDeadlock
  <2>1. status' = "failed"
    BY <1>2 DEF FailDeadlock
  <2> QED
    BY <2>1 DEF ResultsInv
<1>3. CASE CheckConstraints
  <2>1. /\ status = "checking" /\ UNCHANGED <<sketch, sat, family, indices, mdp, status>>
        /\ \E c \in Constraint : results' = [results EXCEPT ![c] = Check(mdp, c)]
    BY <1>3 DEF CheckConstraints
  <2>2. PICK c \in Constraint : results' = [results EXCEPT ![c] = Check(mdp, c)]
    BY <2>1
  <2>3. CheckedWell(Check(mdp, c), c)
    BY <2>1, CheckWell
  <2>4. results = [d \in Constraint |-> results[d]]
    BY <2>1 DEF IInv, FamilyInv
  <2>5. results'[c] = Check(mdp, c) /\ \A d \in Constraint \ {c} : results'[d] = results[d]
    BY <2>2, <2>4
  <2>6. ASSUME NEW d \in Constraint
        PROVE  (results[d] = Unchecked \/ CheckedWell(results[d], d))'
    <3>1. CASE d = c
      BY <2>1, <2>3, <2>5, <3>1, CheckedKept
    <3>2. CASE d # c
      <4>1. (results[d] = Unchecked \/ CheckedWell(results[d], d)) /\ results'[d] = results[d]
        BY <2>1, <2>5, <3>2 DEF ResultsInv
      <4>2. CheckedWell(results[d], d) => CheckedWell(results[d], d)'
        BY <2>1, <4>1, CheckedKept
      <4> QED
        BY <4>1, <4>2 DEF Unchecked
    <3> QED
      BY <3>1, <3>2
  <2>7. Qualitative(mdp)'
    BY <2>1 DEF ResultsInv, Qualitative, Target
  <2> QED
    BY <2>1, <2>6, <2>7 DEF ResultsInv
<1>4. CASE Conclude
  <2>1. /\ status = "checking" /\ status' = Verdict
        /\ UNCHANGED <<sketch, sat, family, mdp, results>>
    BY <1>4 DEF Conclude
  <2>2. /\ status' \in {"satisfied", "refuted", "selected", "undecided"}
        /\ status' \in {"selected", "undecided"} => Undecided(feasibility)
        /\ status' = "selected" => sat_selections # << >>
    BY <2>1 DEF Verdict, Undecided
  <2>3. /\ \A c \in Constraint : (results[c] = Unchecked \/ CheckedWell(results[c], c))'
    BY <2>1, <2>2, ResultsKept
  <2>4. Undecided(feasibility)' = Undecided(feasibility) /\ sat_selections' = sat_selections
    BY <2>1, SelectionsKept
  <2> QED
    BY <2>2, <2>3, <2>4 DEF ResultsInv
<1>5. CASE SplitFamily
  <2>1. /\ status \in {"selected", "undecided"} /\ status' = "split"
        /\ UNCHANGED <<sketch, sat, family, mdp, results>>
    BY <1>5 DEF SplitFamily
  <2> QED
    BY <2>1, ResultsKept DEF ResultsInv
<1>6. CASE Descend
  <2>1. status' = "new"
    BY <1>6 DEF Descend
  <2> QED
    BY <2>1 DEF ResultsInv
<1>7. CASE UNCHANGED vars \/ Finished
  <2>1. UNCHANGED <<sketch, sat, family, indices, mdp, results, parts, status>>
    BY <1>7 DEF Finished, vars
  <2>2. Undecided(feasibility)' = Undecided(feasibility) /\ sat_selections' = sat_selections
    BY <2>1, SelectionsKept
  <2>3. CASE status \in {"new", "failed"}
    BY <2>1, <2>3 DEF ResultsInv
  <2>4. CASE status \notin {"new", "failed"}
    BY <2>1, <2>2, <2>4, ResultsKept DEF ResultsInv
  <2> QED
    BY <2>3, <2>4
<1> QED
  BY <1>1, <1>2, <1>3, <1>4, <1>5, <1>6, <1>7 DEF Next

(* Both parts of the invariant hold in every behaviour.                    *)
LEMMA SpecResultsInv == Spec => [](IInv /\ ResultsInv)
<1>1. Init => IInv /\ ResultsInv
  BY InitIInv, InitResultsInv
<1>2. IInv /\ ResultsInv /\ [Next]_vars => (IInv /\ ResultsInv)'
  BY StepIInv, StepResultsInv
<1> QED
  BY <1>1, <1>2, PTL DEF Spec

-----------------------------------------------------------------------------
(***************************************************************************)
(* The selections of an undecided family, and its splits.                  *)
(***************************************************************************)

(* Whatever the sketch, the assignment that improving() takes from an      *)
(* undecided family satisfies a constraint of every group that was         *)
(* evaluated, if no selection was made consistent (the merged selections   *)
(* of update_primary_feasibility_groups).                                  *)
THEOREM SelectionsAreRight == Spec => []SelectionsSatisfy
<1>1. ASSUME IInv, ResultsInv, sat # None, status = "selected", Promotions = {},
             NEW a \in SelectedAssignments(sat_selections[1])
      PROVE  a \in SatSelected(SketchTask, family, feasibility)
  <2>1. /\ sketch \in Sketches
        /\ \A c \in Constraint : results[c] = Unchecked \/ ResultOK(results[c], c)
        /\ \A c \in Constraint : results[c] = Unchecked \/ CheckedWell(results[c], c)
    BY <1>1 DEF IInv, SatInv, FamilyInv, ResultsInv
  <2>2. \A c \in Constraint : ~ results[c].promoted
    BY <1>1 DEF Promotions
  <2>3. ASSUME NEW c \in Constraint
        PROVE  /\ results[c].solutions \in Seq(Selections)
               /\ \A k \in DOMAIN results[c].solutions : SolvedBy(results[c].solutions[k], c)
    <3>1. CASE results[c].solutions = << >>
      BY <3>1
    <3>2. CASE results[c].solutions # << >>
      <4>1. results[c] # Unchecked
        BY <3>2 DEF Unchecked
      <4>2. ResultOK(results[c], c) /\ CheckedWell(results[c], c)
        BY <2>1, <4>1
      <4>3. /\ results[c].solutions \in Seq(Selections)
            /\ \A k \in DOMAIN results[c].solutions :
                 Satisfying(results[c].solutions[k], family, c)
            /\ results[c].feasibility # "False"
        BY <1>1, <2>2, <3>2, <4>2 DEF CheckedWell
      <4>4. feasibility[c] \in {"True", "None"}
        BY <4>2, <4>3, FeasibilityOf DEF ResultOK, Feasibility
      <4> QED
        BY <4>3, <4>4 DEF SolvedBy
    <3> QED
      BY <3>1, <3>2
  <2>4. SolutionsOK
    BY <2>3 DEF SolutionsOK
  <2> DEFINE found == sat_selections
  <2>5. /\ found \in Seq(Selections) /\ found # << >>
        /\ \A i \in DOMAIN found : \A g \in Group :
             EvaluatedGroup(g) => SolvesGroup(found[i], g)
    BY <1>1, <2>1, <2>4, SatSelections DEF ResultsInv
  <2>6. a \in Members(family) /\ Fills(a, found[1])
    BY <1>1 DEF SelectedAssignments, Fills
  <2> HIDE DEF found
  <2>7. 1 \in DOMAIN found
    BY <2>5
  <2>8. ASSUME NEW g \in Group, ~ \A c \in disjoint_indexes[g] : feasibility[c] = "unchecked"
        PROVE  \E c \in disjoint_indexes[g] :
                 feasibility[c] = "True" \/ (feasibility[c] = "None" /\ a \in sat[c])
    <3>1. SolvesGroup(found[1], g)
      BY <2>5, <2>7, <2>8 DEF EvaluatedGroup
    <3>2. PICK c \in disjoint_indexes[g] : SolvedBy(found[1], c)
      BY <3>1 DEF SolvesGroup
    <3> QED
      BY <2>6, <3>2 DEF SolvedBy, Satisfying
  <2>9. SketchTask.sat = sat
    BY DEF SketchTask
  <2> QED
    BY <2>6, <2>8, <2>9 DEF SatSelected
<1>2. IInv /\ ResultsInv => SelectionsSatisfy
  BY <1>1 DEF SelectionsSatisfy
<1> QED
  BY <1>2, SpecResultsInv, PTL

(* There is an order of the core options.                                  *)
LEMMA SplitAtSome ==
  ASSUME family \in Family, NEW h \in Hole, NEW core, core \subseteq family[h]
  PROVE  SplitAt(family, h, core) # {}
<1>1. IsFiniteSet(core)
  <2>1. core \subseteq Option
    BY DEF Family
  <2> QED
    BY <2>1, OptionsAssumption, FS_Subset
<1>2. Bijection(1..Cardinality(core), core) # {}
  BY <1>1, FS_CardinalityType DEF ExistsBijection
<1> QED
  BY <1>2 DEF SplitAt

(* A scored hole has a core option.                                        *)
LEMMA SplitOnCoreSome ==
  ASSUME family \in Family, NEW scores, ScoresOK(scores, family, Splitters(family)),
         scores.scored # {}, NEW primary, NEW minimizing
  PROVE  SplitOnCore(scores, primary, minimizing) # {}
<1>1. PICK h \in BestHoles(scores) : h \in scores.scored /\ h \in Hole
  BY DEF BestHoles, ScoresOK, Splitters
<1>2. PICK o \in CoreSuboptions(scores, h, primary, minimizing) : {o} \subseteq family[h]
  BY <1>1 DEF CoreSuboptions, ScoresOK
<1>3. PICK p : p \in SplitAt(family, h, {o})
  BY <1>1, <1>2, SplitAtSome
<1>4. p \in UNION {SplitAt(family, h, {u}) : u \in CoreSuboptions(scores, h, primary, minimizing)}
  BY <1>2, <1>3
<1> QED
  BY <1>1, <1>4 DEF SplitOnCore

(* split() finds a split for a constraint with scores.                     *)
LEMMA SplitSome ==
  ASSUME family \in Family, NEW c \in Constraint, UndecidedOK(results[c], c), ScoredHoles(c) # {}
  PROVE  split(c) # {}
<1> DEFINE primary == results[c].primary_scores
           secondary == results[c].secondary_scores
           minimizing == sketch.constraint[c].minimizing
<1>1. ScoresOK(primary, family, Splitters(family))
  BY DEF UndecidedOK
<1>2. \A h \in primary.scored : h \in Hole
  BY <1>1 DEF ScoresOK, Splitters
<1>3. CASE c \notin HyperConstraint
  <2>1. primary.scored # {}
    BY <1>3 DEF ScoredHoles
  <2>2. CASE results[c].primary_consistent
    BY <1>1, <1>3, <2>1, <2>2, SplitOnCoreSome DEF split, SplitOnProperty
  <2>3. CASE ~ results[c].primary_consistent
    <3>1. PICK h \in BestHoles(primary) : h \in Hole
      BY <1>1, <1>2, <2>1 DEF BestHoles, ScoresOK
    <3>2. results[c].primary_selection[h] \subseteq family[h]
      BY <1>3, <3>1 DEF UndecidedOK
    <3>3. Enumerate(h, results[c].primary_selection[h]) # {}
      BY <3>1, <3>2, SplitAtSome DEF Enumerate
    <3> QED
      BY <1>3, <2>3, <3>1, <3>3 DEF split, SplitOnProperty
  <2> QED
    BY <2>2, <2>3
<1>4. CASE c \in HyperConstraint
  <2>1. /\ ScoresOK(secondary, family, Splitters(family))
        /\ \A h \in Hole : results[c].joint_selection[h] \subseteq family[h]
    BY <1>4 DEF UndecidedOK
  <2>2. primary.scored # {} \/ secondary.scored # {}
    BY <1>4 DEF ScoredHoles
  <2>3. primary.positive \subseteq primary.scored /\ secondary.positive \subseteq secondary.scored
    BY <1>1, <2>1 DEF ScoresOK
  <2>4. split(c) = IF secondary.positive = {} /\ primary.scored # {}
                   THEN SplitOnCore(primary, TRUE, minimizing)
                   ELSE IF primary.positive = {} /\ secondary.scored # {}
                   THEN SplitOnCore(secondary, FALSE, minimizing)
                   ELSE UNION {UNION {SplitOnPair(c, h, k) : k \in secondary.positive} :
                                 h \in primary.positive}
    BY <1>4 DEF split, SplitOnHyperproperty
  <2>5. CASE secondary.positive = {} /\ primary.scored # {}
    BY <1>1, <2>4, <2>5, SplitOnCoreSome
  <2>6. CASE primary.positive = {} /\ secondary.scored # {}
    BY <2>1, <2>4, <2>5, <2>6, SplitOnCoreSome
  <2>7. ASSUME NEW h \in primary.positive, NEW k \in secondary.positive
        PROVE  SplitOnPair(c, h, k) # {}
    <3>1. h \in primary.scored /\ k \in secondary.scored /\ h \in Hole
      BY <1>2, <2>3, <2>7
    <3>2. CASE h = k
      <4>1. Enumerate(h, results[c].joint_selection[h]) # {}
        BY <2>1, <3>1, SplitAtSome DEF Enumerate
      <4> QED
        BY <3>2, <4>1 DEF SplitOnPair
    <3>3. CASE h # k
      <4>1. PICK o \in CoreSuboptions(primary, h, TRUE, minimizing) : TRUE
        BY <1>1, <3>1 DEF CoreSuboptions, ScoresOK
      <4>2. PICK u \in CoreSuboptions(secondary, k, FALSE, minimizing) : TRUE
        BY <2>1, <3>1 DEF CoreSuboptions, ScoresOK
      <4> DEFINE Of(x) == {Quarters(family, h, x, k, y) :
                             y \in CoreSuboptions(secondary, k, FALSE, minimizing)}
      <4>3. SplitOnPair(c, h, k)
              = UNION {Of(x) : x \in CoreSuboptions(primary, h, TRUE, minimizing)}
        BY <3>3 DEF SplitOnPair
      <4>4. Quarters(family, h, o, k, u) \in Of(o)
        BY <4>2
      <4> HIDE DEF Of, primary, secondary, minimizing
      <4> QED
        BY <4>1, <4>3, <4>4
    <3> QED
      BY <3>2, <3>3
  <2>8. CASE /\ ~ (secondary.positive = {} /\ primary.scored # {})
             /\ ~ (primary.positive = {} /\ secondary.scored # {})
    <3>1. PICK h \in primary.positive : TRUE
      BY <2>2, <2>3, <2>8
    <3>2. PICK k \in secondary.positive : TRUE
      BY <2>2, <2>3, <2>8
    <3>3. PICK p : p \in SplitOnPair(c, h, k)
      BY <2>7, <3>1, <3>2
    <3>4. p \in split(c)
      <4> HIDE DEF primary, secondary, minimizing
      <4>1. p \in UNION {SplitOnPair(c, h, j) : j \in secondary.positive}
        BY <3>2, <3>3
      <4>2. p \in UNION {UNION {SplitOnPair(c, i, j) : j \in secondary.positive} :
                           i \in primary.positive}
        BY <3>1, <4>1
      <4> QED
        BY <2>4, <2>8, <4>2
    <3> QED
      BY <3>4
  <2> QED
    BY <2>5, <2>6, <2>8
<1> QED
  BY <1>3, <1>4

(* An undecided family has an undecided constraint.                        *)
LEMMA UndecidedSome ==
  ASSUME NEW f, Undecided(f)
  PROVE  UndecidedConstraints(f) # {}
<1>1. PICK g \in Group : GroupFeasibility(g, f) = "None"
  BY DEF Undecided, OverallFeasibility, LastAssigned
<1>2. ~ HasTrue(g, f) /\ HasNone(g, f)
  BY <1>1 DEF GroupFeasibility
<1>3. PICK c \in disjoint_indexes[g] : f[c] = "None"
  BY <1>2 DEF HasNone
<1>4. c \in Constraint /\ \A k \in Group : c \in disjoint_indexes[k] => k = g
  BY <1>3, GroupsAssumption, GroupType
<1> QED
  BY <1>2, <1>3, <1>4 DEF UndecidedConstraints

(* Every hole of a state has an action for each of its options.            *)
LEMMA MatchedHasRows ==
  ASSUME sketch \in Sketches, family \in Family, Matched(sketch)
  PROVE  ~ HasDeadlock(Quotient, Selected(family))
<1> DEFINE S == Subsystem(Quotient, Selected(family))
           sel == Selected(family)
<1>1. \A s \in DOMAIN sketch.rows : sel[s] \subseteq DOMAIN sketch.rows[s]
  BY DEF Selected
<1>2. IsReached(S, Quotient, sketch.initial, sel)
  <2>1. /\ GraphOK(Quotient) /\ sketch.initial \in SUBSET StatesOf(Quotient)
        /\ \A s \in StatesOf(Quotient) : sel[s] \subseteq Rows(Quotient, s)
    BY <1>1, SketchType DEF Rows, Quotient
  <2>2. S = getReachableStates(Quotient, sketch.initial, sel)
    BY DEF Subsystem, Quotient
  <2> HIDE DEF sel, S
  <2> QED
    BY <2>1, <2>2, ReachedStates
<1> HIDE DEF S
<1>3. S \in SUBSET (DOMAIN sketch.rows)
  BY <1>2, SketchType DEF IsReached
<1>4. ASSUME NEW s \in DOMAIN sketch.rows
      PROVE  sel[s] # {}
  <2>1. CASE sketch.hole[s] = 0
    <3>1. 1 \in DOMAIN sketch.rows[s]
      BY <2>1, SketchType
    <3> QED
      BY <2>1, <3>1 DEF Selected
  <2>2. CASE sketch.hole[s] # 0
    <3> DEFINE h == sketch.hole[s]
    <3>1. h \in Hole
      BY <2>2, SketchType
    <3>2. PICK o \in family[h] : o \in Options[h]
      BY <3>1 DEF Family
    <3>3. PICK r \in DOMAIN sketch.rows[s] : sketch.options[s][r] = o
      BY <2>2, <3>2 DEF Matched
    <3> QED
      BY <3>2, <3>3 DEF Selected
  <2> QED
    BY <2>1, <2>2
<1> HIDE DEF sel
<1> QED
  BY <1>3, <1>4 DEF HasDeadlock, S, sel

(* Whatever the sketch, none of the assertions of the analysis fails: an   *)
(* undecided constraint has a score for every hole of its inconsistent     *)
(* selections, an undecided family has a result to split on and that has a *)
(* split, and only a hole shared by states with different choices leaves a *)
(* state without actions.                                                  *)
THEOREM AssertionsAlwaysHold == Spec => []AssertionsHold
<1>1. ASSUME IInv, ResultsInv
      PROVE  AssertionsHold
  <2>1. /\ sketch \in Sketches /\ family \in Family /\ SatInv /\ FamilyInv
        /\ status \in {"new", "failed"} => results = None
    BY <1>1 DEF IInv, SatInv, FamilyInv
  <2>2. results # None => \A c \in Constraint : ~ results[c].max_of_none
    <3>1. ~ Unchecked.max_of_none
      BY DEF Unchecked
    <3> QED
      BY <2>1, <3>1 DEF FamilyInv, ResultOK
  <2>3. status = "failed" => ~ Matched(sketch)
    BY <2>1, MatchedHasRows DEF FamilyInv
  <2>4. ASSUME status \in {"selected", "undecided"}, NEW c \in Constraint, feasibility[c] = "None"
        PROVE  UndecidedOK(results[c], c) /\ ScoredHoles(c) # {}
    <3>1. results[c].feasibility = "None" /\ results[c] # Unchecked
      BY <2>4, FeasibilityOf
    <3>2. ResultOK(results[c], c) /\ CheckedWell(results[c], c)
      BY <1>1, <2>1, <2>4, <3>1 DEF FamilyInv, ResultsInv
    <3> QED
      BY <3>1, <3>2 DEF ResultOK, CheckedWell, Scored, ScoredHoles
  <2>5. ASSUME status \in {"selected", "undecided"}
        PROVE  BestResults # {}
    <3>1. PICK c \in UndecidedConstraints(feasibility) : TRUE
      BY <1>1, <2>5, UndecidedSome DEF ResultsInv
    <3>2. c \in Constraint /\ feasibility[c] = "None"
      BY <3>1 DEF UndecidedConstraints
    <3>3. ScoredHoles(c) # {}
      BY <2>4, <2>5, <3>2
    <3> QED
      BY <3>1, <3>3 DEF BestResults
  <2>6. ASSUME status \in {"selected", "undecided"}, NEW c \in BestResults
        PROVE  split(c) # {}
    <3>1. c \in UndecidedConstraints(feasibility)
      BY <2>6 DEF BestResults
    <3>2. c \in Constraint /\ feasibility[c] = "None"
      BY <3>1 DEF UndecidedConstraints
    <3> QED
      BY <2>1, <2>4, <2>6, <3>2, SplitSome
  <2> QED
    BY <2>2, <2>3, <2>5, <2>6 DEF AssertionsHold
<1> QED
  BY <1>1, SpecResultsInv, PTL

=============================================================================
