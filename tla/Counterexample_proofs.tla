------------------------ MODULE Counterexample_proofs ------------------------
(***************************************************************************)
(* The counterexample generator (module Counterexample) is correct for     *)
(* every quotient and request.  Its waves are expanded only when their     *)
(* holes are registered, each of them registers a hole, and no successor   *)
(* of an expanded state is overlooked (IInv).  And what a conflict         *)
(* excludes violates the property: the values of a sub-chain bound those   *)
(* of all the chains that contain it.                                      *)
(*                                                                         *)
(* Values are defined by recursion over the states.  What holds of them is *)
(* shown for the last state at which it would not: FromTheLast.            *)
(***************************************************************************)
EXTENDS Counterexample, TLAPS, SequenceTheorems, FiniteSetTheorems, WellFoundedInduction

-----------------------------------------------------------------------------
(* The invariant: beyond the properties, the states of the horizon can be  *)
(* expanded, those that block cannot.                                      *)
HorizonsSorted ==
  /\ \A s \in horizon : ~ Blocked(hole_wave, s)
  /\ \A s \in blocking : Blocked(hole_wave, s)

IInv ==
  /\ TypeOK
  /\ HorizonsSorted
  /\ WavesRegistered
  /\ EachWaveRegisters
  /\ ExplorationClosed

(* The states expanded so far are those of the waves.                      *)
LEMMA ExpandedIsUnion ==
  ASSUME TypeOK
  PROVE  /\ Len(wave_states) \in Nat \ {0} /\ DOMAIN wave_states = 1..Len(wave_states)
         /\ Current \in Nat
         /\ Expanded(Current) = UNION {wave_states[i] : i \in 1..Len(wave_states)}
<1>1. wave_states \in Seq(SUBSET State) /\ wave_states # << >>
  BY DEF TypeOK
<1>2. Len(wave_states) \in Nat \ {0} /\ DOMAIN wave_states = 1..Len(wave_states)
  BY <1>1
<1> QED
  BY <1>2 DEF Current, Expanded

(* The successors of a state are states.                                   *)
LEMMA RowType ==
  ASSUME NEW s \in State, NEW a \in Assignment
  PROVE  Row[s][a] \subseteq State
BY QuotientAssumption

-----------------------------------------------------------------------------
THEOREM InitInvariant == Init => IInv
<1> SUFFICES ASSUME Init PROVE IInv
  OBVIOUS
<1>1. request \in Request /\ request.family \in Family
  BY RequestsAssumption DEF Init, Request
<1>2. assignment \in Assignment
  BY <1>1 DEF Init, Members, Family, Assignment
<1>3. Current = 0 /\ Len(wave_states) = 1 /\ wave_states = << {} >>
  BY DEF Init, Current
<1>4. Expanded(Current) = {}
  BY <1>3 DEF Expanded
<1>5. Starts \subseteq State
  BY <1>1, QuotientAssumption DEF Starts, Request
<1>6. wave_states \in Seq(SUBSET State) /\ wave_states # << >> /\ DOMAIN wave_states = {1}
  BY <1>3
<1>7. TypeOK
  <2>1. hole_wave \in [Hole -> 0..Current] /\ wave \in 0..Current
    BY <1>3 DEF Init
  <2>2. horizon \subseteq State /\ blocking \subseteq State /\ horizon \cap blocking = {}
    BY <1>5 DEF Init
  <2> QED
    BY <1>1, <1>2, <1>4, <1>6, <2>1, <2>2 DEF TypeOK, Init
<1>8. HorizonsSorted
  BY DEF HorizonsSorted, Init
<1>9. WavesRegistered /\ EachWaveRegisters /\ ExplorationClosed
  BY <1>3, <1>4, <1>6 DEF WavesRegistered, EachWaveRegisters, ExplorationClosed
<1> QED
  BY <1>7, <1>8, <1>9 DEF IInv

(* A state of the horizon is expanded in the wave that is last.            *)
LEMMA ExpandInvariant == IInv /\ Expand => IInv'
<1> SUFFICES ASSUME IInv, Expand PROVE IInv'
  OBVIOUS
<1> USE DEF IInv
<1> DEFINE last == Len(wave_states)
<1>1. PICK s \in horizon :
        LET new == Row[s][assignment] \ Reached
        IN  /\ wave_states' = [wave_states EXCEPT ![last] = @ \cup {s}]
            /\ horizon' = (horizon \ {s}) \cup {t \in new : ~ Blocked(hole_wave, t)}
            /\ blocking' = blocking \cup {t \in new : Blocked(hole_wave, t)}
  BY DEF Expand
<1> DEFINE new == Row[s][assignment] \ Reached
<1>2. UNCHANGED <<request, assignment, hole_wave, wave, conflict>>
  BY DEF Expand
<1>3. /\ last \in Nat \ {0} /\ DOMAIN wave_states = 1..last /\ Current = last - 1
      /\ Expanded(Current) = UNION {wave_states[i] : i \in 1..last}
  BY ExpandedIsUnion DEF Current
<1>4. s \in State /\ Row[s][assignment] \subseteq State
  BY RowType DEF TypeOK
<1>5. /\ wave_states' \in Seq(SUBSET State) /\ Len(wave_states') = last
      /\ DOMAIN wave_states' = 1..last
      /\ wave_states'[last] = wave_states[last] \cup {s}
      /\ \A i \in 1..last : i # last => wave_states'[i] = wave_states[i]
  <2>1. wave_states \in Seq(SUBSET State) /\ last \in 1..Len(wave_states)
    BY <1>3 DEF TypeOK
  <2>2. wave_states[last] \cup {s} \in SUBSET State
    BY <1>4, <2>1
  <2>3. wave_states' = [wave_states EXCEPT ![last] = wave_states[last] \cup {s}]
    BY <1>1
  <2>4. /\ wave_states' \in Seq(SUBSET State) /\ Len(wave_states') = last
        /\ \A i \in 1..last : wave_states'[i] =
             IF i = last THEN wave_states[last] \cup {s} ELSE wave_states[i]
    BY <2>1, <2>2, <2>3, ExceptSeq
  <2>5. DOMAIN wave_states' = 1..last
    BY <2>4
  <2> QED
    BY <2>1, <2>4, <2>5
<1>6. Current' = Current
  BY <1>5 DEF Current
<1>7. Expanded(Current)' = Expanded(Current) \cup {s}
  <2>1. \A t : t \in Expanded(Current)' <=> \E i \in 1..last : t \in wave_states'[i]
    BY <1>3, <1>6 DEF Expanded
  <2>2. \A t : t \in Expanded(Current) <=> \E i \in 1..last : t \in wave_states[i]
    BY <1>3
  <2>3. last \in 1..last
    BY <1>3
  <2>4. \A t : (\E i \in 1..last : t \in wave_states'[i])
                 <=> (\E i \in 1..last : t \in wave_states[i]) \/ t = s
    BY <1>5, <2>3
  <2> QED
    BY <2>1, <2>2, <2>4
<1>8. Reached = Expanded(Current) \cup horizon \cup blocking
  BY DEF Reached
<1>9. /\ horizon \cap blocking = {} /\ Expanded(Current) \cap (horizon \cup blocking) = {}
      /\ horizon \subseteq State /\ blocking \subseteq State
  BY DEF TypeOK
<1>10. s \notin new /\ new \subseteq State /\ new \cap Reached = {}
  BY <1>4, <1>8
<1>11. TypeOK'
  <2>1. horizon' \subseteq State /\ blocking' \subseteq State /\ (horizon \cap blocking = {})'
    BY <1>1, <1>8, <1>9, <1>10
  <2>2. (Expanded(Current) \cap (horizon \cup blocking) = {})'
    BY <1>1, <1>7, <1>8, <1>9, <1>10
  <2>3. ASSUME NEW i \in 1..last, NEW j \in 1..last, i # j
        PROVE  wave_states'[i] \cap wave_states'[j] = {}
    <3>1. wave_states[i] \cap wave_states[j] = {}
      BY <1>3, <2>3 DEF TypeOK
    <3>2. s \notin wave_states[i] /\ s \notin wave_states[j]
      BY <1>3, <1>9
    <3> QED
      BY <1>5, <2>3, <3>1, <3>2
  <2>4. wave_states' # << >>
    BY <1>3, <1>5
  <2>5. hole_wave' \in [Hole -> 0..Current'] /\ wave' \in 0..Current'
    BY <1>2, <1>6 DEF TypeOK
  <2>6. \A i, j \in DOMAIN wave_states' : i # j => wave_states'[i] \cap wave_states'[j] = {}
    BY <1>5, <2>3
  <2> QED
    BY <1>2, <1>5, <2>1, <2>2, <2>4, <2>5, <2>6 DEF TypeOK
<1>12. HorizonsSorted'
  BY <1>1, <1>2 DEF HorizonsSorted, Blocked
<1>13. WavesRegistered'
  <2> SUFFICES ASSUME NEW i \in 1..last, NEW t \in wave_states'[i], NEW h \in state_to_holes[t]
               PROVE  hole_wave[h] > 0 /\ hole_wave[h] <= i - 1
    BY <1>2, <1>5 DEF WavesRegistered
  <2>1. CASE t \in wave_states[i]
    BY <1>3, <2>1 DEF WavesRegistered
  <2>2. CASE t \notin wave_states[i]
    <3>1. i = last /\ t = s
      BY <1>5, <2>2
    <3>2. hole_wave[h] # 0
      BY <3>1 DEF HorizonsSorted, Blocked
    <3>3. h \in Hole
      BY <1>4, <3>1, QuotientAssumption
    <3>4. hole_wave[h] \in 0..Current
      BY <3>3 DEF TypeOK
    <3> QED
      BY <1>3, <3>1, <3>2, <3>4
  <2> QED
    BY <2>1, <2>2
<1>14. EachWaveRegisters'
  BY <1>2, <1>6 DEF EachWaveRegisters
<1>15. ExplorationClosed'
  <2>1. horizon \ {s} \subseteq horizon' /\ blocking \subseteq blocking' /\ new \subseteq horizon' \cup blocking'
    BY <1>1
  <2>2. Reached \subseteq (Expanded(Current) \cup horizon \cup blocking)'
    BY <1>7, <1>8, <2>1
  <2>3. ASSUME NEW t \in Expanded(Current) \cup {s}
        PROVE  Row[t][assignment] \subseteq (Expanded(Current) \cup horizon \cup blocking)'
    <3>1. Row[t][assignment] \subseteq Reached \cup new
      BY <1>8 DEF ExplorationClosed
    <3> QED
      BY <2>1, <2>2, <3>1
  <2> QED
    BY <1>2, <1>7, <2>3 DEF ExplorationClosed
<1> QED
  BY <1>11, <1>12, <1>13, <1>14, <1>15

(* A new wave registers the hole of a state that blocks.                   *)
LEMMA StartWaveInvariant == IInv /\ StartWave => IInv'
<1> SUFFICES ASSUME IInv, StartWave PROVE IInv'
  OBVIOUS
<1> USE DEF IInv
<1> DEFINE last == Len(wave_states)
<1>1. PICK s \in BlockingCandidates :
        /\ hole_wave' = Register(s)
        /\ horizon' = Unblocked(hole_wave')
        /\ blocking' = StillBlocking(hole_wave')
  BY DEF StartWave
<1>2. /\ UNCHANGED <<request, assignment, wave, conflict>> /\ horizon = {}
      /\ wave_states' = Append(wave_states, {})
  BY DEF StartWave
<1>3. /\ last \in Nat \ {0} /\ DOMAIN wave_states = 1..last /\ Current = last - 1
      /\ Expanded(Current) = UNION {wave_states[i] : i \in 1..last}
  BY ExpandedIsUnion DEF Current
<1>4. /\ wave_states' \in Seq(SUBSET State) /\ Len(wave_states') = last + 1
      /\ DOMAIN wave_states' = 1..(last + 1) /\ wave_states'[last + 1] = {}
      /\ \A i \in 1..last : wave_states'[i] = wave_states[i]
  BY <1>2, <1>3 DEF TypeOK
<1>5. Current' = Current + 1
  BY <1>3, <1>4 DEF Current
<1>6. Expanded(Current)' = Expanded(Current)
  <2>1. Expanded(Current)' = UNION {wave_states'[i] : i \in 1..(last + 1)}
    BY <1>3, <1>5 DEF Expanded
  <2> QED
    BY <2>1, <1>3, <1>4
<1>7. /\ horizon' = {t \in blocking : ~ Blocked(hole_wave', t)}
      /\ blocking' = {t \in blocking : Blocked(hole_wave', t)}
  BY <1>1 DEF Unblocked, StillBlocking
<1>8. /\ hole_wave \in [Hole -> 0..Current] /\ blocking \subseteq State /\ wave \in 0..Current
      /\ Expanded(Current) \cap blocking = {}
  BY DEF TypeOK
<1>9. /\ hole_wave' \in [Hole -> 0..Current']
      /\ \A h \in Hole : hole_wave[h] # 0 => hole_wave'[h] = hole_wave[h]
  BY <1>1, <1>3, <1>5, <1>8 DEF Register
<1>10. TypeOK'
  <2>1. wave' \in 0..Current' /\ wave_states' # << >>
    BY <1>2, <1>3, <1>4, <1>5, <1>8
  <2>2. horizon' \subseteq State /\ blocking' \subseteq State /\ horizon' \cap blocking' = {}
    BY <1>7, <1>8
  <2>3. (Expanded(Current) \cap (horizon \cup blocking) = {})'
    BY <1>6, <1>7, <1>8
  <2>4. \A i, j \in DOMAIN wave_states' : i # j => wave_states'[i] \cap wave_states'[j] = {}
    <3> SUFFICES ASSUME NEW i \in 1..(last + 1), NEW j \in 1..(last + 1), i # j
                 PROVE  wave_states'[i] \cap wave_states'[j] = {}
      BY <1>4
    <3>1. CASE i = last + 1 \/ j = last + 1
      BY <1>4, <3>1
    <3>2. CASE i \in 1..last /\ j \in 1..last
      BY <1>3, <1>4, <3>2 DEF TypeOK
    <3> QED
      BY <1>3, <3>1, <3>2
  <2> QED
    BY <1>2, <1>4, <1>9, <2>1, <2>2, <2>3, <2>4 DEF TypeOK
<1>11. HorizonsSorted'
  BY <1>7 DEF HorizonsSorted, Blocked
<1>12. WavesRegistered'
  <2> SUFFICES ASSUME NEW i \in 1..(last + 1), NEW t \in wave_states'[i], NEW h \in state_to_holes[t]
               PROVE  hole_wave'[h] > 0 /\ hole_wave'[h] <= i - 1
    BY <1>4 DEF WavesRegistered
  <2>1. i \in 1..last /\ t \in wave_states[i]
    BY <1>3, <1>4
  <2>2. hole_wave[h] > 0 /\ hole_wave[h] <= i - 1
    BY <1>3, <2>1 DEF WavesRegistered
  <2>3. t \in State
    BY <1>3, <2>1 DEF TypeOK
  <2>4. h \in Hole
    BY <2>3, QuotientAssumption
  <2> QED
    BY <1>9, <2>2, <2>4
<1>13. EachWaveRegisters'
  <2> SUFFICES ASSUME NEW w \in 1..Current' PROVE \E h \in Hole : hole_wave'[h] = w
    BY DEF EachWaveRegisters
  <2>1. CASE w \in 1..Current
    BY <1>9, <2>1 DEF EachWaveRegisters
  <2>2. CASE w = Current + 1
    <3>1. s \in blocking /\ s \in State
      BY <1>8 DEF BlockingCandidates
    <3>2. PICK h \in state_to_holes[s] : hole_wave[h] = 0
      BY <3>1 DEF HorizonsSorted, Blocked
    <3>3. h \in Hole
      BY <3>1, <3>2, QuotientAssumption
    <3> QED
      BY <1>1, <2>2, <3>2, <3>3 DEF Register
  <2>3. w \in 1..(Current + 1) /\ Current \in Nat
    BY <1>3, <1>5
  <2> QED
    BY <2>1, <2>2, <2>3
<1>14. ExplorationClosed'
  BY <1>2, <1>6, <1>7 DEF ExplorationClosed
<1> QED
  BY <1>10, <1>11, <1>12, <1>13, <1>14

(* A check leaves the exploration as it is.                                *)
LEMMA CheckInvariant == IInv /\ Check => IInv'
<1> SUFFICES ASSUME IInv, Check PROVE IInv'
  OBVIOUS
<1> USE DEF IInv
<1>1. UNCHANGED <<request, assignment, hole_wave, wave_states, horizon, blocking>>
  BY DEF Check, exploration
<1>2. Current' = Current /\ Expanded(Current)' = Expanded(Current) /\ Current \in Nat
  BY <1>1, ExpandedIsUnion DEF Current, Expanded
<1>3. wave' \in 0..Current' /\ conflict' \in (SUBSET Hole) \cup {None}
  <2>1. wave \in 0..Current
    BY DEF TypeOK
  <2>2. CASE conflict' = CriticalHoles(wave) /\ UNCHANGED wave
    BY <1>2, <2>1, <2>2 DEF CriticalHoles
  <2>3. CASE wave # Current /\ wave' = wave + 1 /\ UNCHANGED conflict
    BY <1>2, <2>1, <2>3 DEF TypeOK
  <2> QED
    BY <2>2, <2>3 DEF Check
<1>4. TypeOK'
  BY <1>1, <1>2, <1>3 DEF TypeOK
<1>5. HorizonsSorted' /\ WavesRegistered' /\ EachWaveRegisters' /\ ExplorationClosed'
  BY <1>1, <1>2 DEF HorizonsSorted, WavesRegistered, EachWaveRegisters, ExplorationClosed, Blocked
<1> QED
  BY <1>4, <1>5

LEMMA StutterInvariant == IInv /\ UNCHANGED vars => IInv'
BY DEF vars, IInv, TypeOK, HorizonsSorted, Blocked, WavesRegistered, EachWaveRegisters,
       ExplorationClosed, Current, Expanded

-----------------------------------------------------------------------------
(* IInv holds in every reachable state of the generator: the waves are     *)
(* disjoint, are expanded only under registered holes and overlook no      *)
(* successor, for every quotient and request (prepareDtmc,                 *)
(* prepareReplicatedDtmc).                                                 *)
THEOREM Invariance == Spec => []IInv
<1>1. IInv /\ [Next]_vars => IInv'
  BY ExpandInvariant, StartWaveInvariant, CheckInvariant, StutterInvariant DEF Next, Terminated
<1> QED
  BY InitInvariant, <1>1, PTL DEF Spec

(* The variables have their types, and a state reached is in one place     *)
(* only: in one wave or on one of the horizons (reachable_flag).           *)
THEOREM TypeCorrect == Spec => []TypeOK
<1>1. IInv => TypeOK
  BY DEF IInv
<1> QED
  BY Invariance, <1>1, PTL

(* A wave holds only states whose holes are registered no later than it:   *)
(* the sub-chain of the first waves is the same for all the assignments    *)
(* that agree on the holes registered in them.                             *)
THEOREM WavesAreRegistered == Spec => []WavesRegistered
<1>1. IInv => WavesRegistered
  BY DEF IInv
<1> QED
  BY Invariance, <1>1, PTL

(* Every wave but the first registers a hole, so that the exploration of   *)
(* the chain has no more waves than there are holes.                       *)
THEOREM WavesAreBounded == Spec => []EachWaveRegisters
<1>1. IInv => EachWaveRegisters
  BY DEF IInv
<1> QED
  BY Invariance, <1>1, PTL

(* No successor of an expanded state is overlooked: once both horizons are *)
(* empty the waves hold all that is reachable.                             *)
THEOREM NothingOverlooked == Spec => []ExplorationClosed
<1>1. IInv => ExplorationClosed
  BY DEF IInv
<1> QED
  BY Invariance, <1>1, PTL

-----------------------------------------------------------------------------
(***************************************************************************)
(* Recursive definitions.                                                  *)
(***************************************************************************)
(* A set of natural numbers has a least element.                           *)
LEMMA LeastNatural ==
  ASSUME NEW S \in SUBSET Nat, S # {}
  PROVE  \E n \in S : \A k \in S : n <= k
<1>1. \E n \in S : \A k \in S : ~ (<<k, n>> \in OpToRel(<, Nat))
  BY WFMin, NatLessThanWellFounded
<1>2. PICK n \in S : \A k \in S : ~ (<<k, n>> \in OpToRel(<, Nat))
  BY <1>1
<1>3. \A k \in S : ~ (k < n)
  BY <1>2 DEF OpToRel
<1> QED
  BY <1>3

(* G gives the value for x by the values for arguments of smaller rank.    *)
Founded(G, D, V, rank, N) ==
  /\ G \in [[D -> V] -> [D -> V]]
  /\ N \in Nat /\ rank \in [D -> 0..N]
  /\ \A f, g \in [D -> V] : \A x \in D :
       (\A y \in D : rank[y] < rank[x] => f[y] = g[y]) => G[f][x] = G[g][x]

(* A function that is defined by what it is for arguments of smaller rank  *)
(* exists: start anywhere, and apply the definition often enough.          *)
LEMMA FixedPoint ==
  ASSUME NEW D, NEW V, NEW N, NEW rank, NEW G, Founded(G, D, V, rank, N), V # {}
  PROVE  \E f \in [D -> V] : G[f] = f
<1> USE DEF Founded
<1> DEFINE Fixed(f, n) == \A x \in D : rank[x] < n => G[f][x] = f[x]
           B == {n \in Nat : ~ \E f \in [D -> V] : Fixed(f, n)}
<1>1. B = {}
  <2>1. SUFFICES ASSUME B # {}
                 PROVE  FALSE
    OBVIOUS
  <2>2. PICK n \in B : \A k \in B : n <= k
    <3>1. B \in SUBSET Nat
      OBVIOUS
    <3> HIDE DEF B
    <3> QED
      BY <2>1, <3>1, LeastNatural
  <2>3. n # 0
    <3>1. PICK c : c \in V
      OBVIOUS
    <3>2. [x \in D |-> c] \in [D -> V]
      BY <3>1
    <3>3. Fixed([x \in D |-> c], 0)
      OBVIOUS
    <3> HIDE DEF Fixed
    <3> QED
      BY <3>2, <3>3
  <2>4. n - 1 \in Nat /\ n - 1 \notin B
    <3>1. n \in Nat
      OBVIOUS
    <3> HIDE DEF B
    <3> QED
      BY <2>2, <2>3, <3>1
  <2>5. PICK f \in [D -> V] : Fixed(f, n - 1)
    BY <2>4
  <2>6. G[f] \in [D -> V]
    OBVIOUS
  <2>7. Fixed(G[f], n)
    <3> SUFFICES ASSUME NEW x \in D, rank[x] < n
                 PROVE  G[G[f]][x] = G[f][x]
      OBVIOUS
    <3>1. ASSUME NEW y \in D, rank[y] < rank[x]
          PROVE  G[f][y] = f[y]
      <4>1. rank[y] < n - 1
        BY <3>1
      <4> QED
        BY <2>5, <4>1
    <3> QED
      BY <2>6, <3>1
  <2> HIDE DEF Fixed
  <2> QED
    BY <2>6, <2>7
<1>2. PICK f \in [D -> V] : Fixed(f, N + 1)
  <2>1. N + 1 \in Nat
    OBVIOUS
  <2> HIDE DEF Fixed
  <2> QED
    BY <1>1, <2>1
<1>3. \A x \in D : G[f][x] = f[x]
  BY <1>2
<1> QED
  BY <1>3

-----------------------------------------------------------------------------
(* Sums over a finite set.                                                 *)
Some(T) == CHOOSE x \in T : TRUE

Total(v, S) == MapThenSumSet(LAMBDA s : v[s], S)

IsSum(iter, v, S) ==
  \A T \in SUBSET S :
    iter[T] = IF T = {} THEN 0 ELSE v[Some(T)] + iter[T \ {Some(T)}]

LEMMA SmallerSubset ==
  ASSUME NEW S, IsFiniteSet(S), NEW T \in SUBSET S, T # {}
  PROVE  /\ Some(T) \in T /\ T \ {Some(T)} \in SUBSET S
         /\ Cardinality(T) \in Nat \ {0}
         /\ Cardinality(T \ {Some(T)}) = Cardinality(T) - 1
<1>1. Some(T) \in T
  BY DEF Some
<1>2. IsFiniteSet(T)
  BY FS_Subset
<1> QED
  BY <1>1, <1>2, FS_CardinalityType, FS_RemoveElement, FS_EmptySet

LEMMA SumExists ==
  ASSUME NEW S, IsFiniteSet(S), NEW v, \A s \in S : v[s] \in Nat
  PROVE  \E iter : /\ IsSum(iter, v, S)
                   /\ Total(v, S) = iter[S]
<1> DEFINE Body(f, T) == IF T = {} THEN 0 ELSE v[Some(T)] + f[T \ {Some(T)}]
           Eq(f) == f = [T \in SUBSET S |-> Body(f, T)]
           iter == CHOOSE f : Eq(f)
           D == SUBSET S
           G == [f \in [D -> Nat] |-> [T \in D |-> Body(f, T)]]
           rank == [T \in D |-> Cardinality(T)]
           N == Cardinality(S)
<1>1. rank \in [D -> 0..N] /\ N \in Nat
  <2>1. N \in Nat
    BY FS_CardinalityType
  <2>2. \A T \in D : Cardinality(T) \in 0..N
    BY <2>1, FS_Subset, FS_CardinalityType
  <2> QED
    BY <2>1, <2>2
<1>2. ASSUME NEW f \in [D -> Nat], NEW T \in D
      PROVE  Body(f, T) \in Nat
  <2>1. CASE T # {}
    <3>1. Some(T) \in S /\ T \ {Some(T)} \in D
      BY <2>1, SmallerSubset
    <3>2. v[Some(T)] \in Nat /\ f[T \ {Some(T)}] \in Nat
      BY <3>1
    <3> QED
      BY <2>1, <3>2
  <2> QED
    BY <2>1
<1>3. G \in [[D -> Nat] -> [D -> Nat]]
  <2> HIDE DEF Body
  <2> QED
    BY <1>2
<1>4. ASSUME NEW f \in [D -> Nat], NEW g \in [D -> Nat], NEW T \in D,
             \A U \in D : rank[U] < rank[T] => f[U] = g[U]
      PROVE  G[f][T] = G[g][T]
  <2>1. Body(f, T) = Body(g, T)
    <3>1. CASE T = {}
      BY <3>1
    <3>2. CASE T # {}
      <4>1. T \ {Some(T)} \in D /\ rank[T \ {Some(T)}] < rank[T]
        BY <3>2, SmallerSubset
      <4> QED
        BY <3>2, <1>4, <4>1
    <3> QED
      BY <3>1, <3>2
  <2> HIDE DEF Body
  <2> QED
    BY <2>1
<1>5. \E f : Eq(f)
  <2>1. \E f \in [D -> Nat] : G[f] = f
    <3>1. Founded(G, D, Nat, rank, N)
      <4> HIDE DEF D, G, rank, N
      <4> QED
        BY <1>1, <1>3, <1>4 DEF Founded
    <3>2. Nat # {}
      OBVIOUS
    <3> HIDE DEF D, G, rank, N
    <3> QED
      BY <3>1, <3>2, FixedPoint
  <2>2. PICK f \in [D -> Nat] : G[f] = f
    BY <2>1
  <2>3. Eq(f)
    <3> HIDE DEF Body
    <3> QED
      BY <2>2
  <2> QED
    BY <2>3
<1>6. Eq(iter)
  <2> HIDE DEF Eq
  <2> QED
    BY <1>5
<1>7. IsSum(iter, v, S)
  <2> HIDE DEF iter
  <2> QED
    BY <1>6 DEF IsSum
<1>8. Total(v, S) = iter[S]
  BY DEF Total, MapThenSumSet, MapThenFoldSet, Some
<1> QED
  BY <1>7, <1>8

(* A set that is a counterexample has a smallest one.                      *)
LEMMA SmallestSubset ==
  ASSUME NEW S, IsFiniteSet(S), NEW B \in SUBSET SUBSET S, B # {}
  PROVE  \E T \in B : \A U \in B : Cardinality(T) <= Cardinality(U)
<1> DEFINE C == {Cardinality(T) : T \in B}
<1>1. \A T \in B : Cardinality(T) \in Nat
  BY FS_Subset, FS_CardinalityType
<1>2. C \in SUBSET Nat /\ C # {}
  BY <1>1
<1>3. PICK n \in C : \A k \in C : n <= k
  <2> HIDE DEF C
  <2> QED
    BY <1>2, LeastNatural
<1> QED
  BY <1>3

LEMMA SumRange ==
  ASSUME NEW S, IsFiniteSet(S), NEW c \in Nat, NEW v, \A s \in S : v[s] \in 0..c,
         NEW iter, IsSum(iter, v, S)
  PROVE  iter[S] \in Nat /\ iter[S] <= c * Cardinality(S)
<1> DEFINE Good(T) == iter[T] \in Nat /\ iter[T] <= c * Cardinality(T)
           B == {T \in SUBSET S : ~ Good(T)}
<1> SUFFICES ASSUME B # {}
             PROVE  FALSE
  OBVIOUS
<1>1. PICK T \in B : \A U \in B : Cardinality(T) <= Cardinality(U)
  <2>1. B \in SUBSET SUBSET S
    OBVIOUS
  <2> HIDE DEF B
  <2> QED
    BY <2>1, SmallestSubset
<1>2. iter[T] = IF T = {} THEN 0 ELSE v[Some(T)] + iter[T \ {Some(T)}]
  BY DEF IsSum
<1>3. T # {}
  <2>1. T = {} => iter[T] = 0 /\ Cardinality(T) = 0
    BY <1>2, FS_EmptySet
  <2>2. ~ Good(T)
    OBVIOUS
  <2>3. c * 0 = 0
    OBVIOUS
  <2> QED
    BY <2>1, <2>2, <2>3
<1> DEFINE U == T \ {Some(T)}
<1>4. /\ Some(T) \in S /\ U \in SUBSET S
      /\ Cardinality(T) \in Nat \ {0} /\ Cardinality(U) = Cardinality(T) - 1
  BY <1>3, SmallerSubset
<1>5. Good(U)
  <2> HIDE DEF Good, U
  <2> QED
    BY <1>1, <1>4
<1>6. v[Some(T)] \in 0..c /\ iter[T] = v[Some(T)] + iter[U]
  BY <1>2, <1>3, <1>4
<1>7. Good(T)
  <2>1. ASSUME NEW n \in Nat \ {0}, NEW x \in 0..c, NEW y \in Nat, y <= c * (n - 1)
        PROVE  x + y \in Nat /\ x + y <= c * n
    <3>1. c * (n - 1) = c * n - c
      OBVIOUS
    <3> QED
      BY <2>1, <3>1
  <2> HIDE DEF U
  <2> QED
    BY <1>4, <1>5, <1>6, <2>1
<1> QED
  BY <1>7

LEMMA SumMonotone ==
  ASSUME NEW S, IsFiniteSet(S), NEW v, NEW w,
         \A s \in S : v[s] \in Nat /\ w[s] \in Nat /\ v[s] <= w[s],
         NEW f, NEW g, IsSum(f, v, S), IsSum(g, w, S)
  PROVE  f[S] \in Nat /\ g[S] \in Nat /\ f[S] <= g[S]
<1> DEFINE Good(T) == f[T] \in Nat /\ g[T] \in Nat /\ f[T] <= g[T]
           B == {T \in SUBSET S : ~ Good(T)}
<1> SUFFICES ASSUME B # {}
             PROVE  FALSE
  OBVIOUS
<1>1. PICK T \in B : \A U \in B : Cardinality(T) <= Cardinality(U)
  <2>1. B \in SUBSET SUBSET S
    OBVIOUS
  <2> HIDE DEF B
  <2> QED
    BY <2>1, SmallestSubset
<1>2. /\ f[T] = IF T = {} THEN 0 ELSE v[Some(T)] + f[T \ {Some(T)}]
      /\ g[T] = IF T = {} THEN 0 ELSE w[Some(T)] + g[T \ {Some(T)}]
  BY DEF IsSum
<1>3. T # {}
  BY <1>2
<1> DEFINE U == T \ {Some(T)}
<1>4. /\ Some(T) \in S /\ U \in SUBSET S
      /\ Cardinality(T) \in Nat \ {0} /\ Cardinality(U) = Cardinality(T) - 1
  BY <1>3, SmallerSubset
<1>5. Good(U)
  <2> HIDE DEF Good, U
  <2> QED
    BY <1>1, <1>4
<1>6. Good(T)
  <2>1. f[T] = v[Some(T)] + f[U] /\ g[T] = w[Some(T)] + g[U]
    BY <1>2, <1>3
  <2>2. v[Some(T)] \in Nat /\ w[Some(T)] \in Nat /\ v[Some(T)] <= w[Some(T)]
    BY <1>4
  <2> HIDE DEF U
  <2> QED
    BY <1>5, <2>1, <2>2
<1> QED
  BY <1>6

-----------------------------------------------------------------------------
(* Quotients of natural numbers.                                           *)
LEMMA QuotientAndRest ==
  ASSUME NEW x \in Nat, NEW n \in Nat \ {0}
  PROVE  /\ x \div n \in Nat
         /\ n * (x \div n) <= x
         /\ x < n * (x \div n) + n
OBVIOUS

LEMMA QuotientMonotone ==
  ASSUME NEW x \in Nat, NEW y \in Nat, x <= y, NEW n \in Nat \ {0}
  PROVE  x \div n <= y \div n
<1> DEFINE p == x \div n  q == y \div n
<1>1. p \in Nat /\ q \in Nat /\ n * p <= x /\ y < n * q + n
  BY QuotientAndRest
<1>2. ASSUME p >= q + 1
      PROVE  FALSE
  <2> HIDE DEF p, q
  <2>1. n * p >= n * (q + 1)
    BY <1>1, <1>2
  <2>2. n * (q + 1) = n * q + n
    BY <1>1
  <2>3. n * p \in Int /\ n * q \in Int
    BY <1>1
  <2> QED
    BY <1>1, <2>1, <2>2, <2>3
<1> HIDE DEF p, q
<1>3. p <= q
  BY <1>1, <1>2
<1> QED
  BY <1>3 DEF p, q

LEMMA QuotientBound ==
  ASSUME NEW x \in Nat, NEW c \in Nat, NEW n \in Nat \ {0}, x <= c * n
  PROVE  x \div n <= c
<1> DEFINE p == x \div n
<1>1. p \in Nat /\ n * p <= x
  BY QuotientAndRest
<1> HIDE DEF p
<1>2. ASSUME p >= c + 1
      PROVE  FALSE
  <2>1. n * p >= n * (c + 1)
    BY <1>1, <1>2
  <2>2. n * (c + 1) = c * n + n
    OBVIOUS
  <2>3. n * p \in Int /\ c * n \in Int
    BY <1>1
  <2> QED
    BY <1>1, <2>1, <2>2, <2>3
<1>3. p <= c
  BY <1>1, <1>2
<1> QED
  BY <1>3 DEF p

-----------------------------------------------------------------------------
(* Averages are what the values of a state's successors are combined to.   *)
LEMMA AverageOf ==
  ASSUME NEW v, NEW S
  PROVE  Average(v, S) = IF S = {} THEN 0 ELSE Total(v, S) \div Cardinality(S)
BY DEF Average, Total

LEMMA AverageRange ==
  ASSUME NEW S, IsFiniteSet(S), NEW c \in Nat, NEW v, \A s \in S : v[s] \in 0..c
  PROVE  Average(v, S) \in 0..c
<1>1. CASE S = {}
  BY <1>1, AverageOf
<1>2. CASE S # {}
  <2>1. PICK iter : IsSum(iter, v, S) /\ Total(v, S) = iter[S]
    <3>1. \A s \in S : v[s] \in Nat
      OBVIOUS
    <3> QED
      BY <3>1, SumExists
  <2>2. iter[S] \in Nat /\ iter[S] <= c * Cardinality(S)
    BY <2>1, SumRange
  <2>3. Cardinality(S) \in Nat \ {0}
    BY <1>2, FS_CardinalityType, FS_EmptySet
  <2>4. iter[S] \div Cardinality(S) \in Nat /\ iter[S] \div Cardinality(S) <= c
    BY <2>2, <2>3, QuotientBound, QuotientAndRest
  <2> QED
    BY <1>2, <2>1, <2>4, AverageOf
<1> QED
  BY <1>1, <1>2

LEMMA AverageMonotone ==
  ASSUME NEW S, IsFiniteSet(S), NEW v, NEW w,
         \A s \in S : v[s] \in Nat /\ w[s] \in Nat /\ v[s] <= w[s]
  PROVE  Average(v, S) <= Average(w, S)
<1>1. CASE S = {}
  BY <1>1, AverageOf
<1>2. CASE S # {}
  <2>1. PICK f : IsSum(f, v, S) /\ Total(v, S) = f[S]
    BY SumExists
  <2>2. PICK g : IsSum(g, w, S) /\ Total(w, S) = g[S]
    BY SumExists
  <2>3. f[S] \in Nat /\ g[S] \in Nat /\ f[S] <= g[S]
    BY <2>1, <2>2, SumMonotone
  <2>4. Cardinality(S) \in Nat \ {0}
    BY <1>2, FS_CardinalityType, FS_EmptySet
  <2>5. f[S] \div Cardinality(S) <= g[S] \div Cardinality(S)
    BY <2>3, <2>4, QuotientMonotone
  <2> QED
    BY <1>2, <2>1, <2>2, <2>5, AverageOf
<1> QED
  BY <1>1, <1>2

LEMMA AverageSame ==
  ASSUME NEW S, IsFiniteSet(S), NEW c \in Nat, NEW v, NEW w,
         \A s \in S : v[s] \in 0..c /\ w[s] = v[s]
  PROVE  Average(v, S) = Average(w, S)
<1>1. \A s \in S : v[s] \in Nat /\ w[s] \in Nat /\ v[s] <= w[s] /\ w[s] <= v[s]
  OBVIOUS
<1>2. Average(v, S) <= Average(w, S) /\ Average(w, S) <= Average(v, S)
  BY <1>1, AverageMonotone
<1>3. Average(v, S) \in 0..c /\ Average(w, S) \in 0..c
  BY AverageRange
<1> QED
  BY <1>2, <1>3

-----------------------------------------------------------------------------
(* The states are numbered, and every transition leads upwards.            *)
LEMMA StatesBounded == \E n \in Nat : \A s \in State : s <= n
<1> DEFINE Bounded(T) == \E n \in Nat : \A s \in T : s <= n
           B == {T \in SUBSET State : ~ Bounded(T)}
<1> SUFFICES ASSUME B # {}
             PROVE  FALSE
  OBVIOUS
<1>1. State \subseteq Nat /\ IsFiniteSet(State)
  BY QuotientAssumption
<1>2. PICK T \in B : \A U \in B : Cardinality(T) <= Cardinality(U)
  <2>1. B \in SUBSET SUBSET State
    OBVIOUS
  <2> HIDE DEF B
  <2> QED
    BY <1>1, <2>1, SmallestSubset
<1>3. T # {}
  <2>1. Bounded({})
    OBVIOUS
  <2> HIDE DEF Bounded
  <2> QED
    BY <2>1
<1> DEFINE U == T \ {Some(T)}
<1>4. /\ Some(T) \in Nat /\ U \in SUBSET State
      /\ Cardinality(T) \in Nat \ {0} /\ Cardinality(U) = Cardinality(T) - 1
  BY <1>1, <1>3, SmallerSubset
<1>5. Bounded(U)
  <2> HIDE DEF Bounded, U
  <2> QED
    BY <1>2, <1>4
<1>6. PICK n \in Nat : \A s \in U : s <= n
  BY <1>5
<1> DEFINE m == IF n <= Some(T) THEN Some(T) ELSE n
<1>7. m \in Nat /\ \A s \in T : s <= m
  BY <1>1, <1>4, <1>6
<1>8. Bounded(T)
  <2> HIDE DEF m
  <2> QED
    BY <1>7
<1> HIDE DEF Bounded
<1> QED
  BY <1>8

(* A set of states has a last one: values are compared from the last state *)
(* on which they differ.                                                   *)
LEMMA LastState ==
  ASSUME NEW B \in SUBSET State, B # {}
  PROVE  \E s \in B : \A t \in B : t <= s
<1>1. PICK n \in Nat : \A s \in State : s <= n
  BY StatesBounded
<1> DEFINE C == {n - s : s \in B}
<1>2. C \in SUBSET Nat /\ C # {}
  <2>1. \A s \in B : n - s \in Nat
    BY <1>1, QuotientAssumption
  <2> QED
    BY <2>1
<1>3. PICK m \in C : \A k \in C : m <= k
  <2> HIDE DEF C
  <2> QED
    BY <1>2, LeastNatural
<1>4. PICK s \in B : m = n - s
  BY <1>3
<1>5. ASSUME NEW t \in B
      PROVE  t <= s
  <2>1. n - t \in C /\ s \in Nat /\ t \in Nat
    BY QuotientAssumption
  <2>2. m <= n - t
    <3> HIDE DEF C
    <3> QED
      BY <1>3, <2>1
  <2> QED
    BY <1>4, <2>1, <2>2
<1> QED
  BY <1>5

(* What holds of a state if it holds of all later ones holds of all states. *)
LEMMA FromTheLast ==
  ASSUME NEW B \in SUBSET State,
         \A s \in State : (\A t \in State : s < t => t \notin B) => s \notin B
  PROVE  B = {}
<1> SUFFICES ASSUME B # {}
             PROVE  FALSE
  OBVIOUS
<1>1. PICK s \in B : \A t \in B : t <= s
  BY LastState
<1>2. \A t \in State : s < t => t \notin B
  BY <1>1, QuotientAssumption
<1> QED
  BY <1>2

LEMMA Successors ==
  ASSUME NEW s \in State, NEW a \in Assignment
  PROVE  /\ Row[s][a] \subseteq State /\ IsFiniteSet(Row[s][a])
         /\ \A t \in Row[s][a] : s < t
<1>1. Row[s][a] \subseteq State /\ \A t \in Row[s][a] : s < t
  BY QuotientAssumption
<1> QED
  BY <1>1, QuotientAssumption, FS_Subset

-----------------------------------------------------------------------------
(***************************************************************************)
(* The recursive definitions of values have solutions, because transitions *)
(* lead upwards, and all of these are probabilities.                       *)
(***************************************************************************)
Probability == 0..Scale

LEMMA ProbabilityType == Probability \subseteq Nat /\ 0 \in Probability /\ Scale \in Probability
BY QuotientAssumption DEF Probability

Upwards(n) == [s \in State |-> n - s]

(* A definition by the values of later states has a solution.              *)
LEMMA SolutionExists ==
  ASSUME NEW G \in [[State -> Probability] -> [State -> Probability]],
         \A f, g \in [State -> Probability] : \A s \in State :
           (\A t \in State : s < t => f[t] = g[t]) => G[f][s] = G[g][s]
  PROVE  \E f \in [State -> Probability] : G[f] = f
<1>1. PICK n \in Nat : \A s \in State : s <= n
  BY StatesBounded
<1>2. \A s \in State : s \in Nat /\ n - s \in 0..n /\ Upwards(n)[s] = n - s
  BY <1>1, QuotientAssumption DEF Upwards
<1>3. Upwards(n) \in [State -> 0..n]
  BY <1>2 DEF Upwards
<1>4. \A s, t \in State : s < t => Upwards(n)[t] < Upwards(n)[s]
  BY <1>2
<1>5. Founded(G, State, Probability, Upwards(n), n)
  BY <1>3, <1>4 DEF Founded
<1> QED
  BY <1>5, FixedPoint, ProbabilityType

LEMMA AverageOfSuccessors ==
  ASSUME NEW s \in State, NEW a \in Assignment, NEW v,
         \A t \in State : s < t => v[t] \in Probability
  PROVE  Average(v, Row[s][a]) \in Probability
<1>1. \A t \in Row[s][a] : v[t] \in 0..Scale
  BY Successors DEF Probability
<1> QED
  BY <1>1, Successors, AverageRange, QuotientAssumption DEF Probability

LEMMA SameSuccessors ==
  ASSUME NEW s \in State, NEW a \in Assignment, NEW v, NEW w,
         \A t \in State : s < t => v[t] \in Probability /\ w[t] = v[t]
  PROVE  Average(v, Row[s][a]) = Average(w, Row[s][a])
<1>1. \A t \in Row[s][a] : v[t] \in 0..Scale /\ w[t] = v[t]
  BY Successors DEF Probability
<1>2. IsFiniteSet(Row[s][a]) /\ Scale \in Nat
  BY Successors, QuotientAssumption
<1> QED
  BY <1>1, <1>2, AverageSame

(* The values of a sub-chain.                                              *)
SubValue(v, s, a, target, expanded, given) ==
  IF s \in Targets[target] THEN Scale
  ELSE IF s \in expanded THEN Average(v, Row[s][a])
  ELSE given[s]

AreSubValues(v, a, target, expanded, given) ==
  /\ v \in [State -> Probability]
  /\ \A s \in State : v[s] = SubValue(v, s, a, target, expanded, given)

LEMMA SubValuesExist ==
  ASSUME NEW a \in Assignment, NEW target, NEW expanded, NEW given,
         \A s \in State \ expanded : given[s] \in Probability
  PROVE  AreSubValues(SubValues(a, target, expanded, given), a, target, expanded, given)
<1> DEFINE Body(f, s) == SubValue(f, s, a, target, expanded, given)
           Eq(f) == f = [s \in State |-> Body(f, s)]
           v == CHOOSE f : Eq(f)
           G == [f \in [State -> Probability] |-> [s \in State |-> Body(f, s)]]
<1>1. ASSUME NEW f, NEW s \in State, \A t \in State : s < t => f[t] \in Probability
      PROVE  Body(f, s) \in Probability
  BY <1>1, AverageOfSuccessors, ProbabilityType DEF SubValue
<1>2. ASSUME NEW f, NEW g, NEW s \in State,
             \A t \in State : s < t => f[t] \in Probability /\ g[t] = f[t]
      PROVE  Body(f, s) = Body(g, s)
  BY <1>2, SameSuccessors DEF SubValue
<1> HIDE DEF Body
<1>3. G \in [[State -> Probability] -> [State -> Probability]]
  <2>1. \A f \in [State -> Probability] : \A s \in State : Body(f, s) \in Probability
    BY <1>1
  <2> QED
    BY <2>1
<1>4. \A f, g \in [State -> Probability] : \A s \in State :
        (\A t \in State : s < t => f[t] = g[t]) => G[f][s] = G[g][s]
  BY <1>2
<1>5. PICK f \in [State -> Probability] : G[f] = f
  <2> HIDE DEF G
  <2> QED
    BY <1>3, <1>4, SolutionExists
<1>6. Eq(v)
  <2>1. Eq(f)
    BY <1>5
  <2> HIDE DEF Eq
  <2> QED
    BY <2>1
<1>7. \A s \in State : v[s] = Body(v, s)
  <2> HIDE DEF v
  <2> QED
    BY <1>6
<1>8. \A s \in State : v[s] \in Probability
  <2> DEFINE B == {s \in State : v[s] \notin Probability}
  <2> HIDE DEF v
  <2>1. ASSUME NEW s \in State, \A t \in State : s < t => t \notin B
        PROVE  s \notin B
    BY <1>1, <1>7, <2>1
  <2>2. B \in SUBSET State
    OBVIOUS
  <2>3. B = {}
    <3> HIDE DEF B
    <3> QED
      BY <2>1, <2>2, FromTheLast
  <2> QED
    BY <2>3
<1>9. v \in [State -> Probability]
  <2> HIDE DEF v
  <2> QED
    BY <1>6, <1>8
<1>10. SubValues(a, target, expanded, given) = v
  BY DEF SubValues, Body, SubValue
<1> HIDE DEF v
<1> QED
  BY <1>7, <1>9, <1>10 DEF AreSubValues, Body

(* The bounds of a family.                                                 *)
Averages(v, s, F) == {Average(v, S) : S \in {Row[s][a] : a \in Members(F)}}

BoundOf(v, s, F, target, minimize) ==
  IF s \in Targets[target] THEN Scale
  ELSE IF minimize THEN Min(Averages(v, s, F)) ELSE Max(Averages(v, s, F))

AreBounds(v, F, target, minimize) ==
  /\ v \in [State -> Probability]
  /\ \A s \in State : v[s] = BoundOf(v, s, F, target, minimize)

LEMMA MembersOfFamily ==
  ASSUME NEW F \in Family
  PROVE  Members(F) # {} /\ Members(F) \subseteq Assignment
<1> DEFINE a == [h \in Hole |-> CHOOSE o \in F[h] : TRUE]
<1>1. \A h \in Hole : F[h] # {} /\ F[h] \subseteq Options[h] /\ F[h] \subseteq Option
  BY DEF Family
<1>2. a \in Members(F)
  BY <1>1 DEF Members
<1>3. Members(F) \subseteq Assignment
  BY <1>1 DEF Members, Assignment
<1> QED
  BY <1>2, <1>3

LEMMA LeastAndGreatest ==
  ASSUME NEW S \in SUBSET Probability, S # {}
  PROVE  /\ Min(S) \in S /\ \A x \in S : Min(S) <= x
         /\ Max(S) \in S /\ \A x \in S : Max(S) >= x
<1>1. S \subseteq Nat /\ Scale \in Nat /\ \A x \in S : x <= Scale
  BY QuotientAssumption DEF Probability
<1>2. \E n \in S : \A k \in S : n <= k
  BY <1>1, LeastNatural
<1>3. Min(S) \in S /\ \A x \in S : Min(S) <= x
  BY <1>2 DEF Min
<1> DEFINE C == {Scale - x : x \in S}
<1>4. C \in SUBSET Nat /\ C # {}
  <2>1. \A x \in S : Scale - x \in Nat
    BY <1>1
  <2> QED
    BY <2>1
<1>5. PICK m \in C : \A k \in C : m <= k
  <2> HIDE DEF C
  <2> QED
    BY <1>4, LeastNatural
<1>6. PICK n \in S : m = Scale - n
  BY <1>5
<1>7. ASSUME NEW x \in S
      PROVE  n >= x
  <2>1. Scale - x \in C /\ x \in Nat /\ n \in Nat
    BY <1>1
  <2>2. m <= Scale - x
    <3> HIDE DEF C
    <3> QED
      BY <1>5, <2>1
  <2> QED
    BY <1>1, <1>6, <2>1, <2>2
<1>8. Max(S) \in S /\ \A x \in S : Max(S) >= x
  BY <1>7 DEF Max
<1> QED
  BY <1>3, <1>8

LEMMA AveragesType ==
  ASSUME NEW F \in Family, NEW s \in State, NEW v,
         \A t \in State : s < t => v[t] \in Probability
  PROVE  /\ Averages(v, s, F) \in SUBSET Probability /\ Averages(v, s, F) # {}
         /\ \A a \in Members(F) : Average(v, Row[s][a]) \in Averages(v, s, F)
<1>1. \A a \in Members(F) : Average(v, Row[s][a]) \in Probability
  BY MembersOfFamily, AverageOfSuccessors
<1>2. \A x \in Averages(v, s, F) : \E a \in Members(F) : x = Average(v, Row[s][a])
  BY DEF Averages
<1>3. \A a \in Members(F) : Average(v, Row[s][a]) \in Averages(v, s, F)
  BY DEF Averages
<1> QED
  BY <1>1, <1>2, <1>3, MembersOfFamily

LEMMA BoundsExist ==
  ASSUME NEW F \in Family, NEW target \in DOMAIN Targets, NEW minimize \in BOOLEAN
  PROVE  AreBounds(MdpBounds[F][target][minimize], F, target, minimize)
<1> DEFINE Body(f, s) == BoundOf(f, s, F, target, minimize)
           Eq(f) == f = [s \in State |-> Body(f, s)]
           v == CHOOSE f : Eq(f)
           G == [f \in [State -> Probability] |-> [s \in State |-> Body(f, s)]]
<1>1. ASSUME NEW f, NEW s \in State, \A t \in State : s < t => f[t] \in Probability
      PROVE  Body(f, s) \in Probability
  <2>1. Averages(f, s, F) \in SUBSET Probability /\ Averages(f, s, F) # {}
    BY <1>1, AveragesType
  <2>2. Min(Averages(f, s, F)) \in Probability /\ Max(Averages(f, s, F)) \in Probability
    BY <2>1, LeastAndGreatest
  <2> QED
    BY <2>2, ProbabilityType DEF BoundOf
<1>2. ASSUME NEW f, NEW g, NEW s \in State,
             \A t \in State : s < t => f[t] \in Probability /\ g[t] = f[t]
      PROVE  Body(f, s) = Body(g, s)
  <2>1. \A a \in Members(F) : Average(f, Row[s][a]) = Average(g, Row[s][a])
    BY <1>2, SameSuccessors, MembersOfFamily
  <2>2. Averages(f, s, F) = Averages(g, s, F)
    BY <2>1 DEF Averages
  <2> QED
    BY <2>2 DEF BoundOf
<1> HIDE DEF Body
<1>3. G \in [[State -> Probability] -> [State -> Probability]]
  <2>1. \A f \in [State -> Probability] : \A s \in State : Body(f, s) \in Probability
    BY <1>1
  <2> QED
    BY <2>1
<1>4. \A f, g \in [State -> Probability] : \A s \in State :
        (\A t \in State : s < t => f[t] = g[t]) => G[f][s] = G[g][s]
  BY <1>2
<1>5. PICK f \in [State -> Probability] : G[f] = f
  <2> HIDE DEF G
  <2> QED
    BY <1>3, <1>4, SolutionExists
<1>6. Eq(v)
  <2>1. Eq(f)
    BY <1>5
  <2> HIDE DEF Eq
  <2> QED
    BY <2>1
<1>7. \A s \in State : v[s] = Body(v, s)
  <2> HIDE DEF v
  <2> QED
    BY <1>6
<1>8. \A s \in State : v[s] \in Probability
  <2> DEFINE B == {s \in State : v[s] \notin Probability}
  <2> HIDE DEF v
  <2>1. ASSUME NEW s \in State, \A t \in State : s < t => t \notin B
        PROVE  s \notin B
    BY <1>1, <1>7, <2>1
  <2>2. B \in SUBSET State
    OBVIOUS
  <2>3. B = {}
    <3> HIDE DEF B
    <3> QED
      BY <2>1, <2>2, FromTheLast
  <2> QED
    BY <2>3
<1>9. v \in [State -> Probability]
  <2> HIDE DEF v
  <2> QED
    BY <1>6, <1>8
<1>10. MdpBounds[F][target][minimize] = v
  BY DEF MdpBounds, Body, BoundOf, Averages
<1> HIDE DEF v
<1> QED
  BY <1>7, <1>9, <1>10 DEF AreBounds, Body

-----------------------------------------------------------------------------
(***************************************************************************)
(* What the values of sub-chains say of the values of chains.              *)
(***************************************************************************)
LEMMA ValuesOfChain ==
  ASSUME NEW a \in Assignment, NEW target \in DOMAIN Targets
  PROVE  AreSubValues(Values[a][target], a, target, State, << >>)
<1>1. Values[a][target] = SubValues(a, target, State, << >>)
  BY DEF Values
<1>2. \A s \in State \ State : << >>[s] \in Probability
  OBVIOUS
<1> QED
  BY <1>1, <1>2, SubValuesExist

(* The bounds of a family bound the values of its members.                 *)
LEMMA BoundsSound ==
  ASSUME NEW F \in Family, NEW b \in Members(F), NEW target \in DOMAIN Targets
  PROVE  \A s \in State : /\ MdpBounds[F][target][TRUE][s] <= Values[b][target][s]
                          /\ Values[b][target][s] <= MdpBounds[F][target][FALSE][s]
<1> DEFINE low == MdpBounds[F][target][TRUE]
           high == MdpBounds[F][target][FALSE]
           v == Values[b][target]
           B == {s \in State : ~ (low[s] <= v[s] /\ v[s] <= high[s])}
<1>1. b \in Assignment
  BY MembersOfFamily
<1>2. AreBounds(low, F, target, TRUE) /\ AreBounds(high, F, target, FALSE)
  BY BoundsExist
<1>3. AreSubValues(v, b, target, State, << >>)
  BY <1>1, ValuesOfChain
<1> HIDE DEF low, high, v
<1>4. ASSUME NEW s \in State, \A t \in State : s < t => t \notin B
      PROVE  low[s] <= v[s] /\ v[s] <= high[s]
  <2>1. \A t \in State : low[t] \in Nat /\ high[t] \in Nat /\ v[t] \in Nat
    BY <1>2, <1>3, ProbabilityType DEF AreBounds, AreSubValues
  <2>2. CASE s \in Targets[target]
    BY <1>2, <1>3, <2>2, QuotientAssumption DEF AreBounds, AreSubValues, BoundOf, SubValue
  <2>3. CASE s \notin Targets[target]
    <3>1. /\ low[s] = Min(Averages(low, s, F)) /\ high[s] = Max(Averages(high, s, F))
          /\ v[s] = Average(v, Row[s][b])
      BY <1>2, <1>3, <2>3 DEF AreBounds, AreSubValues, BoundOf, SubValue
    <3>2. \A t \in Row[s][b] : low[t] <= v[t] /\ v[t] <= high[t] /\ t \in State
      BY <1>1, <1>4, Successors
    <3>3. Average(low, Row[s][b]) <= v[s]
      BY <1>1, <2>1, <3>1, <3>2, Successors, AverageMonotone
    <3>4. v[s] <= Average(high, Row[s][b])
      BY <1>1, <2>1, <3>1, <3>2, Successors, AverageMonotone
    <3>5. /\ Averages(low, s, F) \in SUBSET Probability /\ Averages(low, s, F) # {}
          /\ Average(low, Row[s][b]) \in Averages(low, s, F)
      BY <1>2, AveragesType DEF AreBounds
    <3>6. /\ Averages(high, s, F) \in SUBSET Probability /\ Averages(high, s, F) # {}
          /\ Average(high, Row[s][b]) \in Averages(high, s, F)
      BY <1>2, AveragesType DEF AreBounds
    <3>7. low[s] <= Average(low, Row[s][b])
      BY <3>1, <3>5, LeastAndGreatest
    <3>8. high[s] >= Average(high, Row[s][b])
      BY <3>1, <3>6, LeastAndGreatest
    <3>9. Average(low, Row[s][b]) \in Nat /\ Average(high, Row[s][b]) \in Nat
      BY <3>5, <3>6, ProbabilityType
    <3> QED
      BY <2>1, <3>3, <3>4, <3>7, <3>8, <3>9
  <2> QED
    BY <2>2, <2>3
<1>5. B \in SUBSET State
  OBVIOUS
<1>6. B = {}
  <2>1. \A s \in State : (\A t \in State : s < t => t \notin B) => s \notin B
    BY <1>4
  <2> HIDE DEF B
  <2> QED
    BY <1>5, <2>1, FromTheLast
<1>7. \A s \in State : low[s] <= v[s] /\ v[s] <= high[s]
  BY <1>6
<1> QED
  BY <1>7 DEF low, high, v

(* If the states that are not expanded have less than their value, or as   *)
(* much, so have all the others; and likewise for more.                    *)
LEMMA SubValuesBelow ==
  ASSUME NEW a \in Assignment, NEW target \in DOMAIN Targets, NEW expanded, NEW given,
         \A s \in State : given[s] \in Probability /\ given[s] <= Values[a][target][s]
  PROVE  \A s \in State :
           SubValues(a, target, expanded, given)[s] <= Values[a][target][s]
<1> DEFINE w == SubValues(a, target, expanded, given)
           v == Values[a][target]
           B == {s \in State : ~ (w[s] <= v[s])}
<1>1. AreSubValues(w, a, target, expanded, given)
  BY SubValuesExist
<1>2. AreSubValues(v, a, target, State, << >>)
  BY ValuesOfChain
<1>3. \A s \in State : given[s] <= v[s]
  OBVIOUS
<1> HIDE DEF w, v
<1>4. ASSUME NEW s \in State, \A t \in State : s < t => t \notin B
      PROVE  w[s] <= v[s]
  <2>1. \A t \in State : w[t] \in Nat /\ v[t] \in Nat
    BY <1>1, <1>2, ProbabilityType DEF AreSubValues
  <2>2. CASE s \in Targets[target] \/ s \notin expanded
    BY <1>1, <1>2, <1>3, <2>2, QuotientAssumption DEF AreSubValues, SubValue
  <2>3. CASE s \notin Targets[target] /\ s \in expanded
    <3>1. w[s] = Average(w, Row[s][a]) /\ v[s] = Average(v, Row[s][a])
      BY <1>1, <1>2, <2>3 DEF AreSubValues, SubValue
    <3>2. \A t \in Row[s][a] : w[t] <= v[t] /\ t \in State
      BY <1>4, Successors
    <3> QED
      BY <2>1, <3>1, <3>2, Successors, AverageMonotone
  <2> QED
    BY <2>2, <2>3
<1>5. B \in SUBSET State
  OBVIOUS
<1>6. B = {}
  <2>1. \A s \in State : (\A t \in State : s < t => t \notin B) => s \notin B
    BY <1>4
  <2> HIDE DEF B
  <2> QED
    BY <1>5, <2>1, FromTheLast
<1>7. \A s \in State : w[s] <= v[s]
  BY <1>6
<1> QED
  BY <1>7 DEF w, v

LEMMA SubValuesAbove ==
  ASSUME NEW a \in Assignment, NEW target \in DOMAIN Targets, NEW expanded, NEW given,
         \A s \in State : given[s] \in Probability /\ Values[a][target][s] <= given[s]
  PROVE  \A s \in State :
           Values[a][target][s] <= SubValues(a, target, expanded, given)[s]
<1> DEFINE w == SubValues(a, target, expanded, given)
           v == Values[a][target]
           B == {s \in State : ~ (v[s] <= w[s])}
<1>1. AreSubValues(w, a, target, expanded, given)
  BY SubValuesExist
<1>2. AreSubValues(v, a, target, State, << >>)
  BY ValuesOfChain
<1>3. \A s \in State : v[s] <= given[s]
  OBVIOUS
<1> HIDE DEF w, v
<1>4. ASSUME NEW s \in State, \A t \in State : s < t => t \notin B
      PROVE  v[s] <= w[s]
  <2>1. \A t \in State : w[t] \in Nat /\ v[t] \in Nat
    BY <1>1, <1>2, ProbabilityType DEF AreSubValues
  <2>2. CASE s \in Targets[target] \/ s \notin expanded
    BY <1>1, <1>2, <1>3, <2>1, <2>2, QuotientAssumption DEF AreSubValues, SubValue, Probability
  <2>3. CASE s \notin Targets[target] /\ s \in expanded
    <3>1. w[s] = Average(w, Row[s][a]) /\ v[s] = Average(v, Row[s][a])
      BY <1>1, <1>2, <2>3 DEF AreSubValues, SubValue
    <3>2. \A t \in Row[s][a] : v[t] <= w[t] /\ t \in State
      BY <1>4, Successors
    <3> QED
      BY <2>1, <3>1, <3>2, Successors, AverageMonotone
  <2> QED
    BY <2>2, <2>3
<1>5. B \in SUBSET State
  OBVIOUS
<1>6. B = {}
  <2>1. \A s \in State : (\A t \in State : s < t => t \notin B) => s \notin B
    BY <1>4
  <2> HIDE DEF B
  <2> QED
    BY <1>5, <2>1, FromTheLast
<1>7. \A s \in State : v[s] <= w[s]
  BY <1>6
<1> QED
  BY <1>7 DEF w, v

(* A sub-chain is that of every assignment with the same transitions.      *)
LEMMA SameSubChain ==
  ASSUME NEW a \in Assignment, NEW b \in Assignment, NEW target, NEW expanded, NEW given,
         \A s \in State : given[s] \in Probability,
         \A s \in expanded : Row[s][a] = Row[s][b]
  PROVE  \A s \in State : SubValues(a, target, expanded, given)[s]
                            = SubValues(b, target, expanded, given)[s]
<1> DEFINE v == SubValues(a, target, expanded, given)
           w == SubValues(b, target, expanded, given)
           B == {s \in State : v[s] # w[s]}
<1>1. /\ AreSubValues(v, a, target, expanded, given)
      /\ AreSubValues(w, b, target, expanded, given)
  BY SubValuesExist
<1> HIDE DEF w, v
<1>2. ASSUME NEW s \in State, \A t \in State : s < t => t \notin B
      PROVE  v[s] = w[s]
  <2>1. CASE s \in Targets[target] \/ s \notin expanded
    BY <1>1, <2>1 DEF AreSubValues, SubValue
  <2>2. CASE s \notin Targets[target] /\ s \in expanded
    <3>1. v[s] = Average(v, Row[s][a]) /\ w[s] = Average(w, Row[s][b])
      BY <1>1, <2>2 DEF AreSubValues, SubValue
    <3>2. \A t \in State : s < t => v[t] \in Probability /\ w[t] = v[t]
      BY <1>1, <1>2 DEF AreSubValues
    <3>3. Average(v, Row[s][a]) = Average(w, Row[s][a])
      BY <3>2, SameSuccessors
    <3> QED
      BY <2>2, <3>1, <3>3
  <2> QED
    BY <2>1, <2>2
<1>3. B \in SUBSET State
  OBVIOUS
<1>4. B = {}
  <2>1. \A s \in State : (\A t \in State : s < t => t \notin B) => s \notin B
    BY <1>2
  <2> HIDE DEF B
  <2> QED
    BY <1>3, <2>1, FromTheLast
<1>5. \A s \in State : v[s] = w[s]
  BY <1>4
<1> QED
  BY <1>5 DEF w, v

(* A sub-chain that leads nowhere else has the values of the chain.        *)
LEMMA ClosedSubChain ==
  ASSUME NEW a \in Assignment, NEW target \in DOMAIN Targets, NEW expanded, NEW given,
         \A s \in State : given[s] \in Probability,
         expanded \subseteq State, \A s \in expanded : Row[s][a] \subseteq expanded
  PROVE  \A s \in expanded :
           SubValues(a, target, expanded, given)[s] = Values[a][target][s]
<1> DEFINE w == SubValues(a, target, expanded, given)
           v == Values[a][target]
           B == {s \in State : s \in expanded /\ v[s] # w[s]}
<1>1. AreSubValues(w, a, target, expanded, given)
  BY SubValuesExist
<1>2. AreSubValues(v, a, target, State, << >>)
  BY ValuesOfChain
<1> HIDE DEF w, v
<1>3. ASSUME NEW s \in State, s \in expanded, \A t \in State : s < t => t \notin B
      PROVE  v[s] = w[s]
  <2>1. CASE s \in Targets[target]
    BY <1>1, <1>2, <2>1 DEF AreSubValues, SubValue
  <2>2. CASE s \notin Targets[target]
    <3>1. v[s] = Average(v, Row[s][a]) /\ w[s] = Average(w, Row[s][a])
      BY <1>1, <1>2, <1>3, <2>2 DEF AreSubValues, SubValue
    <3>2. \A t \in Row[s][a] : v[t] \in 0..Scale /\ w[t] = v[t]
      BY <1>2, <1>3, Successors DEF AreSubValues, Probability
    <3>3. IsFiniteSet(Row[s][a]) /\ Scale \in Nat
      BY Successors, QuotientAssumption
    <3>4. Average(v, Row[s][a]) = Average(w, Row[s][a])
      BY <3>2, <3>3, AverageSame
    <3> QED
      BY <3>1, <3>4
  <2> QED
    BY <2>1, <2>2
<1>4. B \in SUBSET State
  OBVIOUS
<1>5. B = {}
  <2>1. \A s \in State : (\A t \in State : s < t => t \notin B) => s \notin B
    BY <1>3
  <2> HIDE DEF B
  <2> QED
    BY <1>4, <2>1, FromTheLast
<1>6. \A s \in expanded : w[s] = v[s]
  BY <1>5
<1> QED
  BY <1>6 DEF w, v

-----------------------------------------------------------------------------
(***************************************************************************)
(* Conflicts.                                                              *)
(***************************************************************************)

(* The invariant: the exploration started where the property is evaluated, *)
(* and a conflict was returned for the reason that wave still names.       *)
ConflictInv ==
  /\ Starts \subseteq Expanded(Current) \cup horizon \cup blocking
  /\ conflict # None =>
       /\ horizon = {} /\ blocking = {}
       /\ conflict = CriticalHoles(wave)
       /\ ~ SatUpTo(wave) \/ wave = Current

LEMMA ConflictInvInit == Init => ConflictInv
<1> SUFFICES ASSUME Init
             PROVE  ConflictInv
  OBVIOUS
<1>1. Starts \subseteq horizon \cup blocking /\ conflict = None
  BY DEF Init
<1> QED
  BY <1>1 DEF ConflictInv

LEMMA ConflictInvNext == IInv /\ ConflictInv /\ [Next]_vars => ConflictInv'
<1> SUFFICES ASSUME IInv, ConflictInv, [Next]_vars
             PROVE  ConflictInv'
  OBVIOUS
<1>0. TypeOK
  BY DEF IInv
<1> DEFINE Places == Expanded(Current) \cup horizon \cup blocking
           last == Len(wave_states)
<1>1. /\ last \in Nat \ {0} /\ DOMAIN wave_states = 1..last
      /\ Expanded(Current) = UNION {wave_states[i] : i \in 1..last}
      /\ wave_states \in Seq(SUBSET State)
  BY <1>0, ExpandedIsUnion DEF TypeOK
<1>2. CASE Expand
  <2>1. PICK s \in horizon :
          LET new == Row[s][assignment] \ Reached
          IN  /\ wave_states' = [wave_states EXCEPT ![last] = @ \cup {s}]
              /\ horizon' = (horizon \ {s}) \cup {t \in new : ~ Blocked(hole_wave, t)}
              /\ blocking' = blocking \cup {t \in new : Blocked(hole_wave, t)}
    BY <1>2 DEF Expand
  <2>2. request' = request /\ conflict' = conflict /\ conflict = None
    BY <1>2 DEF Expand
  <2>3. /\ Len(wave_states') = last
        /\ \A i \in 1..last : wave_states[i] \subseteq wave_states'[i]
        /\ s \in wave_states'[last]
    <3>1. last \in DOMAIN wave_states
      BY <1>1
    <3>2. DOMAIN wave_states' = 1..last
      BY <1>1, <2>1
    <3>3. wave_states'[last] = wave_states[last] \cup {s}
      BY <2>1, <3>1
    <3>4. \A i \in 1..last : i # last => wave_states'[i] = wave_states[i]
      BY <1>1, <2>1
    <3>5. Len(wave_states') = last
      BY <1>1, <2>1
    <3> QED
      BY <3>3, <3>4, <3>5
  <2>4. Expanded(Current)' = UNION {wave_states'[i] : i \in 1..last}
    BY <1>1, <2>3 DEF Expanded, Current
  <2>5. Expanded(Current) \cup {s} \subseteq Expanded(Current)'
    BY <1>1, <2>3, <2>4
  <2>6. Places \subseteq Places'
    BY <2>1, <2>5
  <2> QED
    BY <2>2, <2>6 DEF ConflictInv, Starts
<1>3. CASE StartWave
  <2>1. /\ wave_states' = Append(wave_states, {}) /\ horizon = {}
        /\ request' = request /\ conflict' = conflict /\ conflict = None
        /\ horizon' = Unblocked(hole_wave') /\ blocking' = StillBlocking(hole_wave')
    BY <1>3 DEF StartWave
  <2>2. /\ Len(wave_states') = last + 1
        /\ \A i \in 1..last : wave_states'[i] = wave_states[i]
    BY <1>1, <2>1
  <2>3. Expanded(Current)' = UNION {wave_states'[i] : i \in 1..(last + 1)}
    BY <1>1, <2>2 DEF Expanded, Current
  <2>4. Expanded(Current) \subseteq Expanded(Current)'
    BY <1>1, <2>2, <2>3
  <2>5. blocking \subseteq horizon' \cup blocking'
    BY <2>1 DEF Unblocked, StillBlocking
  <2> QED
    BY <2>1, <2>4, <2>5 DEF ConflictInv, Starts
<1>4. CASE Check
  <2>1. UNCHANGED <<request, assignment, hole_wave, wave_states, horizon, blocking>>
    BY <1>4 DEF Check, exploration
  <2>2. horizon = {} /\ blocking = {} /\ conflict = None
    BY <1>4 DEF Check
  <2>3. Expanded(Current)' = Expanded(Current) /\ Current' = Current
    BY <2>1 DEF Expanded, Current
  <2>4. CASE (~ SatUpTo(wave) \/ wave = Current) /\ conflict' = CriticalHoles(wave) /\ wave' = wave
    <3>1. SatUpTo(wave)' = SatUpTo(wave)
      BY <2>1, <2>4 DEF SatUpTo, Expanded, Bounds, OtherBounds
    <3>2. CriticalHoles(wave)' = CriticalHoles(wave)
      BY <2>1, <2>4 DEF CriticalHoles
    <3> QED
      BY <2>1, <2>2, <2>3, <2>4, <3>1, <3>2 DEF ConflictInv, Starts
  <2>5. CASE conflict' = conflict
    BY <2>1, <2>2, <2>3, <2>5 DEF ConflictInv, Starts
  <2> QED
    BY <1>4, <2>4, <2>5 DEF Check
<1>5. CASE UNCHANGED vars
  BY <1>5 DEF vars, ConflictInv, Starts, Expanded, Current, CriticalHoles, SatUpTo, Bounds,
              OtherBounds
<1> QED
  BY <1>2, <1>3, <1>4, <1>5 DEF Next, Terminated

(* The bounds stand for both sides of the comparison: those of a family    *)
(* are of its first target, which is right unless a hyperproperty has two. *)
BoundsOfTargets == ~ (request.hyper /\ request.multitarget /\ request.bounds)

BoundsFor(target, minimize) ==
  IF request.bounds THEN MdpBounds[request.family][target][minimize]
  ELSE DefaultBounds(minimize)

LEMMA BoundsForSound ==
  ASSUME request \in Request, NEW b \in Members(request.family),
         NEW target \in DOMAIN Targets
  PROVE  \A s \in State :
           /\ BoundsFor(target, TRUE)[s] \in Probability
           /\ BoundsFor(target, FALSE)[s] \in Probability
           /\ BoundsFor(target, TRUE)[s] <= Values[b][target][s]
           /\ Values[b][target][s] <= BoundsFor(target, FALSE)[s]
<1>1. request.family \in Family /\ request.bounds \in BOOLEAN
  BY DEF Request
<1>2. b \in Assignment
  BY <1>1, MembersOfFamily
<1>3. AreSubValues(Values[b][target], b, target, State, << >>)
  BY <1>2, ValuesOfChain
<1>4. CASE request.bounds
  <2>1. \A minimize \in BOOLEAN : AreBounds(MdpBounds[request.family][target][minimize],
                                              request.family, target, minimize)
    BY <1>1, BoundsExist
  <2>2. \A minimize \in BOOLEAN : \A s \in State :
          MdpBounds[request.family][target][minimize][s] \in Probability
    BY <2>1 DEF AreBounds
  <2> QED
    BY <1>1, <1>4, <2>2, BoundsSound DEF BoundsFor
<1>5. CASE ~ request.bounds
  <2>1. \A s \in State : Values[b][target][s] \in 0..Scale
    BY <1>3 DEF AreSubValues, Probability
  <2>2. \A s \in State : /\ BoundsFor(target, TRUE)[s] = 0
                         /\ BoundsFor(target, FALSE)[s] = Scale
    BY <1>5 DEF BoundsFor, DefaultBounds
  <2>3. \A x \in 0..Scale : 0 <= x /\ x <= Scale
    BY QuotientAssumption
  <2> QED
    BY <2>1, <2>2, <2>3, ProbabilityType
<1> QED
  BY <1>4, <1>5

(* The states of the sub-chain have the same transitions under all         *)
(* completions of the critical holes.                                      *)
LEMMA CompletionsAgree ==
  ASSUME IInv, NEW b \in Assignment, \A h \in CriticalHoles(wave) : b[h] = assignment[h]
  PROVE  /\ Expanded(wave) \subseteq State
         /\ \A s \in Expanded(wave) : Row[s][assignment] = Row[s][b]
<1>1. TypeOK /\ WavesRegistered
  BY DEF IInv
<1>2. /\ Len(wave_states) \in Nat \ {0} /\ DOMAIN wave_states = 1..Len(wave_states)
      /\ wave \in 0..(Len(wave_states) - 1)
  BY <1>1, ExpandedIsUnion DEF TypeOK, Current
<1>3. ASSUME NEW s \in Expanded(wave)
      PROVE  s \in State /\ Row[s][assignment] = Row[s][b]
  <2>1. PICK i \in 1..(wave + 1) : s \in wave_states[i]
    BY DEF Expanded
  <2>2. i \in DOMAIN wave_states /\ i - 1 <= wave
    BY <1>2
  <2>3. s \in State
    BY <1>1, <2>1, <2>2 DEF TypeOK
  <2>4. ASSUME NEW h \in state_to_holes[s]
        PROVE  assignment[h] = b[h]
    <3>1. h \in Hole
      BY <2>3, QuotientAssumption
    <3>2. hole_wave[h] > 0 /\ hole_wave[h] <= i - 1
      BY <1>1, <2>1, <2>2 DEF WavesRegistered
    <3>3. hole_wave[h] \in Nat
      BY <1>1, <1>2, <3>1 DEF TypeOK, Current
    <3>4. hole_wave[h] <= wave
      BY <1>2, <2>2, <3>2, <3>3
    <3> QED
      BY <3>1, <3>2, <3>4 DEF CriticalHoles
  <2>5. assignment \in Assignment
    BY <1>1 DEF TypeOK
  <2> QED
    BY <2>3, <2>4, <2>5, QuotientAssumption
<1> QED
  BY <1>3

(* The comparison of a sub-chain that is expanded up to the wave.          *)
LeftUpTo == Left(request, SubValues(assignment, 1, Expanded(wave), Bounds))
RightUpTo ==
  Right(request, SubValues(assignment, OtherTarget(request), Expanded(wave), OtherBounds))

LEMMA SidesType ==
  ASSUME request \in Request, NEW b \in Assignment
  PROVE  /\ OtherTarget(request) \in DOMAIN Targets /\ 1 \in DOMAIN Targets
         /\ LeftOf(b) \in Int /\ RightOf(b) \in Int
         /\ request.state \in State /\ request.other_state \in State
<1>1. /\ request.state \in State /\ request.other_state \in State
      /\ request.threshold \in Int /\ request.min_bound \in Int
  BY QuotientAssumption DEF Request
<1>2. OtherTarget(request) \in DOMAIN Targets /\ 1 \in DOMAIN Targets
  BY QuotientAssumption DEF OtherTarget
<1>3. \A target \in DOMAIN Targets : \A s \in State : Values[b][target][s] \in Nat
  BY ValuesOfChain, ProbabilityType DEF AreSubValues
<1> QED
  BY <1>1, <1>2, <1>3 DEF LeftOf, RightOf, Left, Right

(* The bounds the generator works with are those of the targets it works   *)
(* with, as far as they matter.                                            *)
LEMMA SidesBounded ==
  ASSUME IInv, BoundsOfTargets, NEW b \in Members(request.family),
         \A h \in CriticalHoles(wave) : b[h] = assignment[h]
  PROVE  /\ LeftUpTo \in Int /\ RightUpTo \in Int
         /\ request.safety => LeftUpTo <= LeftOf(b) /\ RightOf(b) <= RightUpTo
         /\ ~ request.safety => LeftOf(b) <= LeftUpTo /\ RightUpTo <= RightOf(b)
<1>1. request \in Request /\ assignment \in Assignment
  BY DEF IInv, TypeOK
<1>2. /\ request.family \in Family /\ request.safety \in BOOLEAN /\ request.hyper \in BOOLEAN
      /\ request.multitarget \in BOOLEAN /\ request.bounds \in BOOLEAN
      /\ request.threshold \in Int /\ request.min_bound \in Int
  BY <1>1 DEF Request
<1>3. b \in Assignment
  BY <1>2, MembersOfFamily
<1>4. /\ Expanded(wave) \subseteq State
      /\ \A s \in Expanded(wave) : Row[s][assignment] = Row[s][b]
  BY <1>3, CompletionsAgree
<1> DEFINE other == OtherTarget(request)
           Sub(a, target, minimize) ==
             SubValues(a, target, Expanded(wave), BoundsFor(target, minimize))
<1>5. other \in DOMAIN Targets /\ 1 \in DOMAIN Targets
      /\ request.state \in State /\ request.other_state \in State
      /\ LeftOf(b) \in Int /\ RightOf(b) \in Int
  BY <1>1, <1>3, SidesType
<1>6. ASSUME NEW target \in DOMAIN Targets, NEW s \in State
      PROVE  /\ Sub(assignment, target, TRUE)[s] \in Nat
             /\ Sub(assignment, target, FALSE)[s] \in Nat
             /\ Values[b][target][s] \in Nat
             /\ Sub(assignment, target, TRUE)[s] <= Values[b][target][s]
             /\ Values[b][target][s] <= Sub(assignment, target, FALSE)[s]
  <2>1. \A t \in State :
           /\ BoundsFor(target, TRUE)[t] \in Probability
           /\ BoundsFor(target, FALSE)[t] \in Probability
           /\ BoundsFor(target, TRUE)[t] <= Values[b][target][t]
           /\ Values[b][target][t] <= BoundsFor(target, FALSE)[t]
    BY <1>1, BoundsForSound
  <2>2. \A minimize \in BOOLEAN : \A t \in State : BoundsFor(target, minimize)[t] \in Probability
    BY <2>1
  <2>3. /\ Sub(b, target, TRUE)[s] <= Values[b][target][s]
        /\ Values[b][target][s] <= Sub(b, target, FALSE)[s]
    BY <1>3, <2>1, SubValuesBelow, SubValuesAbove
  <2>4. \A minimize \in BOOLEAN :
          Sub(assignment, target, minimize)[s] = Sub(b, target, minimize)[s]
    <3> TAKE minimize \in BOOLEAN
    <3> DEFINE given == BoundsFor(target, minimize)
    <3>1. \A t \in State : given[t] \in Probability
      BY <2>2
    <3> HIDE DEF given
    <3>2. SubValues(assignment, target, Expanded(wave), given)[s]
            = SubValues(b, target, Expanded(wave), given)[s]
      BY <1>1, <1>3, <1>4, <3>1, SameSubChain
    <3> QED
      BY <3>2 DEF given
  <2>5. \A minimize \in BOOLEAN : Sub(b, target, minimize)[s] \in Probability
    <3> TAKE minimize \in BOOLEAN
    <3> DEFINE given == BoundsFor(target, minimize)
    <3>1. \A t \in State \ Expanded(wave) : given[t] \in Probability
      BY <2>2
    <3> HIDE DEF given
    <3>2. AreSubValues(SubValues(b, target, Expanded(wave), given),
                       b, target, Expanded(wave), given)
      BY <1>3, <3>1, SubValuesExist
    <3> QED
      BY <3>2 DEF given, AreSubValues
  <2>6. Values[b][target][s] \in Probability
    BY <1>3, ValuesOfChain DEF AreSubValues
  <2> HIDE DEF Sub
  <2> QED
    BY <2>3, <2>4, <2>5, <2>6, ProbabilityType
<1>7. /\ request.safety => Bounds = BoundsFor(1, TRUE)
      /\ ~ request.safety => Bounds = BoundsFor(1, FALSE)
  BY <1>2 DEF Bounds, BoundsFor
<1>8. request.hyper =>
        /\ request.safety => OtherBounds = BoundsFor(other, FALSE)
        /\ ~ request.safety => OtherBounds = BoundsFor(other, TRUE)
  BY <1>2 DEF OtherBounds, BoundsFor, BoundsOfTargets, OtherTarget
<1>9. /\ LeftUpTo \in Int
      /\ request.safety => LeftUpTo <= LeftOf(b)
      /\ ~ request.safety => LeftOf(b) <= LeftUpTo
  <2>1. /\ request.safety => LeftUpTo = Sub(assignment, 1, TRUE)[request.state] + request.min_bound
        /\ ~ request.safety => LeftUpTo = Sub(assignment, 1, FALSE)[request.state] + request.min_bound
    BY <1>7 DEF LeftUpTo, Left
  <2>2. LeftOf(b) = Values[b][1][request.state] + request.min_bound
    BY DEF LeftOf, Left
  <2>3. /\ Sub(assignment, 1, TRUE)[request.state] \in Nat
        /\ Sub(assignment, 1, FALSE)[request.state] \in Nat
        /\ Values[b][1][request.state] \in Nat
        /\ Sub(assignment, 1, TRUE)[request.state] <= Values[b][1][request.state]
        /\ Values[b][1][request.state] <= Sub(assignment, 1, FALSE)[request.state]
    BY <1>5, <1>6
  <2> DEFINE low == Sub(assignment, 1, TRUE)[request.state]
             high == Sub(assignment, 1, FALSE)[request.state]
             value == Values[b][1][request.state]
  <2>4. /\ low \in Nat /\ high \in Nat /\ value \in Nat /\ low <= value /\ value <= high
        /\ request.safety => LeftUpTo = low + request.min_bound
        /\ ~ request.safety => LeftUpTo = high + request.min_bound
        /\ LeftOf(b) = value + request.min_bound
    BY <2>1, <2>2, <2>3
  <2> HIDE DEF low, high, value
  <2> QED
    BY <1>2, <2>4
<1>10. CASE request.hyper
  <2>1. /\ request.safety => RightUpTo = Sub(assignment, other, FALSE)[request.other_state]
        /\ ~ request.safety => RightUpTo = Sub(assignment, other, TRUE)[request.other_state]
    BY <1>8, <1>10 DEF RightUpTo, Right
  <2>2. RightOf(b) = Values[b][other][request.other_state]
    BY <1>10 DEF RightOf, Right
  <2>3. /\ Sub(assignment, other, TRUE)[request.other_state] \in Nat
        /\ Sub(assignment, other, FALSE)[request.other_state] \in Nat
        /\ Values[b][other][request.other_state] \in Nat
        /\ Sub(assignment, other, TRUE)[request.other_state] <= Values[b][other][request.other_state]
        /\ Values[b][other][request.other_state] <= Sub(assignment, other, FALSE)[request.other_state]
    BY <1>5, <1>6
  <2> DEFINE low == Sub(assignment, other, TRUE)[request.other_state]
             high == Sub(assignment, other, FALSE)[request.other_state]
             value == Values[b][other][request.other_state]
  <2>4. /\ low \in Nat /\ high \in Nat /\ value \in Nat /\ low <= value /\ value <= high
        /\ request.safety => RightUpTo = high
        /\ ~ request.safety => RightUpTo = low
        /\ RightOf(b) = value
    BY <2>1, <2>2, <2>3
  <2> HIDE DEF low, high, value
  <2> QED
    BY <1>2, <1>9, <2>4
<1>11. CASE ~ request.hyper
  BY <1>2, <1>9, <1>11 DEF RightUpTo, RightOf, Right
<1> QED
  BY <1>10, <1>11

(* Once everything is expanded, the completions have the same chain.       *)
LEMMA SameChain ==
  ASSUME IInv, ConflictInv, horizon = {}, blocking = {}, wave = Current,
         NEW b \in Assignment, \A h \in CriticalHoles(wave) : b[h] = assignment[h]
  PROVE  LeftOf(b) = LeftOf(assignment) /\ RightOf(b) = RightOf(assignment)
<1>1. request \in Request /\ assignment \in Assignment
  BY DEF IInv, TypeOK
<1> DEFINE E == Expanded(wave)
           given == DefaultBounds(TRUE)
<1>2. E \subseteq State /\ \A s \in E : Row[s][assignment] = Row[s][b]
  BY CompletionsAgree
<1>3. Starts \subseteq E /\ \A s \in E : Row[s][assignment] \subseteq E
  BY DEF ConflictInv, IInv, ExplorationClosed
<1>4. \A s \in State : given[s] \in Probability
  BY ProbabilityType DEF DefaultBounds
<1> HIDE DEF E, given
<1>5. ASSUME NEW target \in DOMAIN Targets, NEW s \in E
      PROVE  Values[b][target][s] = Values[assignment][target][s]
  <2>1. SubValues(assignment, target, E, given)[s] = Values[assignment][target][s]
    BY <1>1, <1>2, <1>3, <1>4, ClosedSubChain
  <2>2. SubValues(b, target, E, given)[s] = Values[b][target][s]
    BY <1>2, <1>3, <1>4, ClosedSubChain
  <2>3. SubValues(assignment, target, E, given)[s] = SubValues(b, target, E, given)[s]
    BY <1>1, <1>2, <1>4, SameSubChain
  <2> QED
    BY <2>1, <2>2, <2>3
<1>6. /\ request.state \in E
      /\ request.hyper => request.other_state \in E
  BY <1>3 DEF Starts
<1>7. OtherTarget(request) \in DOMAIN Targets /\ 1 \in DOMAIN Targets
  BY <1>1, SidesType
<1> QED
  BY <1>5, <1>6, <1>7 DEF LeftOf, RightOf, Left, Right

(* What the last check of the sub-chain found holds of all completions.    *)
LEMMA InvImpliesSound == IInv /\ ConflictInv => (BoundsOfTargets => ConflictSound)
<1> SUFFICES ASSUME IInv, ConflictInv, BoundsOfTargets, conflict # None, NEW b \in Completions
             PROVE  \/ ~ Compares(request, LeftOf(b), RightOf(b))
                         /\ (LeftOf(b) = RightOf(b) => request.strict)
                    \/ request.strict /\ Distance(LeftOf(b), RightOf(b)) <= tolerance
                    \/ LeftOf(b) = LeftOf(assignment) /\ RightOf(b) = RightOf(assignment)
  BY DEF ConflictSound
<1>1. request \in Request
  BY DEF IInv, TypeOK
<1>2. /\ request.family \in Family /\ request.safety \in BOOLEAN /\ request.strict \in BOOLEAN
      /\ tolerance \in Nat
  BY <1>1, QuotientAssumption DEF Request
<1>3. /\ b \in Members(request.family) /\ b \in Assignment
      /\ \A h \in CriticalHoles(wave) : b[h] = assignment[h]
  BY <1>2, MembersOfFamily DEF Completions, ConflictInv
<1>4. CASE wave = Current
  BY <1>3, <1>4, SameChain DEF ConflictInv
<1>5. CASE ~ SatUpTo(wave)
  <2>1. ~ Sat(request, LeftUpTo, RightUpTo)
    BY <1>5 DEF SatUpTo, LeftUpTo, RightUpTo
  <2>2. /\ LeftUpTo \in Int /\ RightUpTo \in Int
        /\ request.safety => LeftUpTo <= LeftOf(b) /\ RightOf(b) <= RightUpTo
        /\ ~ request.safety => LeftOf(b) <= LeftUpTo /\ RightUpTo <= RightOf(b)
    BY <1>3, SidesBounded
  <2>3. LeftOf(b) \in Int /\ RightOf(b) \in Int
    BY <1>1, <1>3, SidesType
  <2> HIDE DEF LeftUpTo, RightUpTo
  <2> QED
    BY <1>2, <2>1, <2>2, <2>3 DEF Sat, Compares, Distance
<1> QED
  BY <1>4, <1>5 DEF ConflictInv

(* What exclude_assignment removes from the design space for a conflict    *)
(* violates the property, up to the tolerance if it is strict, or has the  *)
(* values of the analysed assignment: for every quotient, request and      *)
(* order of exploration, if a hyperproperty that is given bounds is about  *)
(* one target (constructConflict, constructHyperConflict).                 *)
THEOREM ConflictCorrect == Spec => [](BoundsOfTargets => ConflictSound)
<1>1. IInv /\ ConflictInv /\ [Next]_vars => ConflictInv'
  BY ConflictInvNext
<1> QED
  BY Invariance, ConflictInvInit, <1>1, InvImpliesSound, PTL DEF Spec

=============================================================================
