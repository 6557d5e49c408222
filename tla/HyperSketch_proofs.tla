-------------------------- MODULE HyperSketch_proofs --------------------------
(***************************************************************************)
(* Loading a sketch, for every number of runs, formulas and quotient MDPs. *)
(* The file is the sketch again when no run uses it; the lines that are    *)
(* instantiated say what the formula says; and the holes that states are   *)
(* given one after the other stand for the policies of the sketch,         *)
(* whichever states are related.                                           *)
(*                                                                         *)
(* The invariant of the construction says of each state processed which    *)
(* hole it has: the one with its key, a name and schedulers, that it or an *)
(* earlier related state created, and how its actions map to options.      *)
(***************************************************************************)
EXTENDS HyperSketch, TLAPS, FiniteSetTheorems, SequenceTheorems, WellFoundedInduction

-----------------------------------------------------------------------------
(* The sketch file, by itself: no run goes on with anything but the        *)
(* sketch, and the file is the sketch again once no run has its            *)
(* declaration in it.                                                      *)

(* A run that may truncate or write the file has extended it.              *)
WritersExtended ==
  \A r \in Run :
    /\ pc[r] \in {"extend", "truncate", "write"} => n_sched_quants > 1
    /\ pc[r] \in {"truncate", "write"} => r \in extended
    /\ pc[r] = "parse" /\ n_sched_quants > 1 => r \in extended

FileInv == FileTypeOK /\ OnlySketchAccepted /\ WritersExtended /\ FileRestored

(* A content that parse_formulas_and_check_init accepts is the sketch's.   *)
LEMMA AcceptedIsOriginal ==
  ASSUME NEW content \in Content, ~ Refused(content)
  PROVE  content = Original
BY DEF Content, Refused, Original

LEMMA InitEstablishesFileInv == FileInit => FileInv
BY DEF FileInit, FileInv, FileTypeOK, OnlySketchAccepted, WritersExtended, FileRestored, Content,
       Original, Empty

(* Every step of a run, and every interruption, keeps the invariant.       *)
LEMMA StepPreservesFileInv ==
  ASSUME FileInv, [FileNext]_file_vars
  PROVE  FileInv'
<1> USE DEF FileInv
<1>1. ASSUME NEW r \in Run, ReadSketch(r)
      PROVE  FileInv'
  <2>1. ~ Refused(sketch_file) => sketch_file = Original
    BY AcceptedIsOriginal DEF FileTypeOK
  <2>2. FileTypeOK'
    BY <1>1 DEF ReadSketch, FileTypeOK
  <2>3. OnlySketchAccepted'
    BY <1>1, <2>1 DEF ReadSketch, FileTypeOK, OnlySketchAccepted
  <2>4. WritersExtended'
    BY <1>1, SketchFileAssumption DEF ReadSketch, FileTypeOK, WritersExtended
  <2>5. FileRestored'
    BY <1>1 DEF ReadSketch, FileRestored
  <2> QED BY <2>2, <2>3, <2>4, <2>5
<1>2. ASSUME NEW r \in Run, ExtendSketch(r)
      PROVE  FileInv'
  <2>1. FileTypeOK'
    BY <1>2 DEF ExtendSketch, FileTypeOK, Content
  <2>2. OnlySketchAccepted'
    BY <1>2 DEF ExtendSketch, FileTypeOK, OnlySketchAccepted
  <2>3. WritersExtended'
    BY <1>2 DEF ExtendSketch, FileTypeOK, WritersExtended
  <2>4. FileRestored'
    BY <1>2 DEF ExtendSketch, FileRestored
  <2> QED BY <2>1, <2>2, <2>3, <2>4
<1>3. ASSUME NEW r \in Run, ParseSketch(r)
      PROVE  FileInv'
  <2>1. FileTypeOK'
    BY <1>3 DEF ParseSketch, FileTypeOK
  <2>2. OnlySketchAccepted'
    BY <1>3 DEF ParseSketch, FileTypeOK, OnlySketchAccepted
  <2>3. WritersExtended'
    BY <1>3 DEF ParseSketch, FileTypeOK, WritersExtended
  <2>4. FileRestored'
    BY <1>3 DEF ParseSketch, FileRestored
  <2> QED BY <2>1, <2>2, <2>3, <2>4
<1>4. ASSUME NEW r \in Run, TruncateSketch(r)
      PROVE  FileInv'
  <2>1. FileTypeOK'
    BY <1>4 DEF TruncateSketch, FileTypeOK, Content, Empty
  <2>2. OnlySketchAccepted'
    BY <1>4 DEF TruncateSketch, FileTypeOK, OnlySketchAccepted
  <2>3. WritersExtended'
    BY <1>4 DEF TruncateSketch, FileTypeOK, WritersExtended
  <2>4. r \in extended'
    BY <1>4 DEF TruncateSketch, WritersExtended
  <2>5. FileRestored'
    BY <2>4 DEF FileRestored
  <2> QED BY <2>1, <2>2, <2>3, <2>5
<1>5. ASSUME NEW r \in Run, WriteBack(r)
      PROVE  FileInv'
  <2>1. sketch_file' = Original
    BY <1>5 DEF WriteBack, Written, OnlySketchAccepted
  <2>2. FileTypeOK'
    BY <1>5, <2>1 DEF WriteBack, FileTypeOK, Content, Original
  <2>3. OnlySketchAccepted'
    BY <1>5 DEF WriteBack, FileTypeOK, OnlySketchAccepted
  <2>4. WritersExtended'
    BY <1>5 DEF WriteBack, FileTypeOK, WritersExtended
  <2>5. FileRestored'
    BY <2>1 DEF FileRestored
  <2> QED BY <2>2, <2>3, <2>4, <2>5
<1>6. ASSUME NEW r \in Run, Kill(r)
      PROVE  FileInv'
  <2>1. FileTypeOK'
    BY <1>6 DEF Kill, FileTypeOK
  <2>2. OnlySketchAccepted'
    BY <1>6 DEF Kill, FileTypeOK, OnlySketchAccepted
  <2>3. WritersExtended'
    BY <1>6 DEF Kill, FileTypeOK, WritersExtended
  <2>4. FileRestored'
    BY <1>6 DEF Kill, FileRestored
  <2> QED BY <2>1, <2>2, <2>3, <2>4
<1>7. CASE UNCHANGED file_vars
  BY <1>7 DEF file_vars, FileTypeOK, OnlySketchAccepted, WritersExtended, FileRestored
<1> QED BY <1>1, <1>2, <1>3, <1>4, <1>5, <1>6, <1>7 DEF FileNext, FileStep

LEMMA FileInvariant == FileSpec => []FileInv
<1>1. FileInit => FileInv
  BY InitEstablishesFileInv
<1>2. FileInv /\ [FileNext]_file_vars => FileInv'
  BY StepPreservesFileInv
<1> QED BY <1>1, <1>2, PTL DEF FileSpec

(* Whatever other runs do to the file, what a run goes on with, and writes *)
(* back, is the sketch (the checks of parse_formulas_and_check_init).      *)
THEOREM SketchAccepted == FileSpec => []OnlySketchAccepted
<1>1. FileInv => OnlySketchAccepted
  BY DEF FileInv
<1> QED BY <1>1, FileInvariant, PTL

(* The sketch is lost or extended only while a run that extended it has    *)
(* not written it back (parse_program).                                    *)
THEOREM SketchRestored == FileSpec => []FileRestored
<1>1. FileInv => FileRestored
  BY DEF FileInv
<1> QED BY <1>1, FileInvariant, PTL

-----------------------------------------------------------------------------
(* The quotient.                                                           *)

HoleName == (Nat \X Nat) \cup {<<n>> : n \in Name}

Hole == [name : HoleName, associated_schedulers : SUBSET Scheduler, option_labels : Seq(Label)]

HoleOption == [hole : Nat, option : Nat]

-----------------------------------------------------------------------------
(* The hole of a state: it has the key of the state, and either the state  *)
(* created it, or its actions were matched by their labels.                *)
Choosing(s) == Len(sketch.labels[s]) > 1

HasKey(s, h) ==
  /\ holes[h].name = NewHole(s).name
  /\ holes[h].associated_schedulers = NewHole(s).associated_schedulers

Created(s, h) ==
  /\ holes[h].option_labels = sketch.labels[s]
  /\ action_to_hole_options[s] = [j \in Actions(s) |-> Entry(h, j)]

Joined(s, h) ==
  /\ MatchingHolds(s, h)
  /\ action_to_hole_options[s] = [j \in Actions(s) |-> Entry(h, Matched(s, h)[j])]

HasHole(s, h) ==
  /\ h \in DOMAIN holes
  /\ HasKey(s, h)
  /\ Created(s, h) \/ Joined(s, h)

Processed == DOMAIN action_to_hole_options

(* States without a choice have no hole, the others have one.              *)
SkippedInv ==
  \A s \in Processed : Len(sketch.labels[s]) = 1 => action_to_hole_options[s] = <<{}>>

HolesInv ==
  \A s \in Processed : Choosing(s) => /\ Cardinality(Constraining(s)) <= 1
                                      /\ \E h \in DOMAIN holes : HasHole(s, h)

(* Each hole has a state that created it, and a key of its own.            *)
CreatorsInv ==
  \A h \in DOMAIN holes : \E s \in Processed : Choosing(s) /\ HasHole(s, h) /\ Created(s, h)

KeysInv ==
  \A h, k \in DOMAIN holes :
    /\ holes[h].name = holes[k].name
    /\ holes[h].associated_schedulers = holes[k].associated_schedulers
    => h = k

(* Of two states with a hole one at most created it.                       *)
JoinedInv ==
  \A h \in DOMAIN holes : \A s, t \in Processed :
    s # t /\ Choosing(s) /\ Choosing(t) /\ HasHole(s, h) /\ HasHole(t, h)
      => Joined(s, h) \/ Joined(t, h)

(* The actions of a family are those selected from the whole quotient, and *)
(* it has options for every hole.                                          *)
FamilyInv ==
  quotient = "built" =>
    /\ Processed = States
    /\ family \in [DOMAIN holes -> SUBSET Nat]
    /\ \A h \in DOMAIN holes : family[h] # {} /\ family[h] \subseteq DOMAIN holes[h].option_labels
    /\ selected_actions = select_actions(family)

QuotientInv ==
  /\ sketch \in Sketches
  /\ holes \in Seq(Hole)
  /\ action_to_hole_options \in Seq(Seq(SUBSET HoleOption))
  /\ Len(action_to_hole_options) <= Len(sketch.labels)
  /\ quotient \in {"building", "built", "failed"}
  /\ SkippedInv
  /\ HolesInv
  /\ CreatorsInv
  /\ KeysInv
  /\ JoinedInv
  /\ FamilyInv

-----------------------------------------------------------------------------
LEMMA LeastNatural ==
  ASSUME NEW S \in SUBSET Nat, S # {}
  PROVE  \E n \in S : \A k \in S : n <= k
<1>1. \E n \in S : \A k \in S : ~ (<<k, n>> \in OpToRel(<, Nat))
  BY WFMin, NatLessThanWellFounded
<1>2. PICK n \in S : \A k \in S : ~ (<<k, n>> \in OpToRel(<, Nat))
  BY <1>1
<1>3. \A k \in S : ~ (k < n)
  BY <1>2 DEF OpToRel
<1> QED
  BY <1>3

(* What the assumptions say of a quotient MDP.                             *)
LEMMA SketchType ==
  ASSUME sketch \in Sketches
  PROVE  /\ Len(sketch.labels) \in Nat
         /\ States = 1..Len(sketch.labels)
         /\ \A s \in States : /\ sketch.labels[s] \in Seq(Label)
                              /\ Len(sketch.labels[s]) \in Nat \ {0}
                              /\ Actions(s) = 1..Len(sketch.labels[s])
                              /\ sketch.scheduler[s] \in Scheduler
         /\ Len(sketch.equalities) \in Nat
         /\ DOMAIN sketch.equalities = 1..Len(sketch.equalities)
         /\ \A c \in DOMAIN sketch.equalities : sketch.equalities[c] \in Equality
         /\ \A c, d \in DOMAIN sketch.equalities :
              sketch.equalities[c].name = sketch.equalities[d].name
                => sketch.equalities[c].states = sketch.equalities[d].states
<1>1. /\ sketch.labels \in Seq(Seq(Label) \ {<< >>})
      /\ sketch.scheduler \in [DOMAIN sketch.labels -> Scheduler]
      /\ sketch.equalities \in Seq(Equality)
  BY SketchesAssumption
<1>2. \A s \in States : /\ sketch.labels[s] \in Seq(Label)
                       /\ sketch.labels[s] # << >>
                       /\ sketch.scheduler[s] \in Scheduler
  BY <1>1 DEF States
<1>3. \A s \in States : Len(sketch.labels[s]) # 0
  BY <1>2, EmptySeq
<1> QED
  BY <1>1, <1>2, <1>3, SketchesAssumption DEF States, Actions

(* The key of a state under no equality, or under one.                     *)
LEMMA KeyOfState ==
  ASSUME sketch \in Sketches, NEW s \in States, Cardinality(Constraining(s)) <= 1
  PROVE  \/ /\ Constraining(s) = {}
            /\ NewHole(s).name = <<s, s>>
            /\ NewHole(s).associated_schedulers = {sketch.scheduler[s]}
         \/ \E c \in DOMAIN sketch.equalities :
              /\ Constraining(s) = {c}
              /\ NewHole(s).name = <<sketch.equalities[c].name>>
              /\ NewHole(s).associated_schedulers = sketch.equalities[c].schedulers
<1>1. IsFiniteSet(Constraining(s))
  <2>1. IsFiniteSet(DOMAIN sketch.equalities)
    BY SketchType, FS_Interval
  <2> QED
    BY <2>1, FS_Subset DEF Constraining
<1>2. CASE Constraining(s) = {}
  BY <1>2 DEF NewHole
<1>3. CASE Constraining(s) # {}
  <2>1. PICK c \in Constraining(s) : TRUE
    BY <1>3
  <2> DEFINE others == Constraining(s) \ {c}
  <2>2. IsFiniteSet(others) /\ Cardinality(others) = Cardinality(Constraining(s)) - 1
    BY <1>1, <2>1, FS_RemoveElement
  <2>3. Cardinality(others) \in Nat /\ Cardinality(Constraining(s)) \in Nat
    BY <1>1, <2>2, FS_CardinalityType
  <2>4. Cardinality(others) = 0
    BY <2>2, <2>3
  <2>5. others = {}
    BY <2>2, <2>4, FS_EmptySet
  <2>6. Constraining(s) = {c}
    BY <2>1, <2>5
  <2>7. (CHOOSE d \in Constraining(s) : TRUE) = c
    BY <2>6
  <2> QED
    BY <2>6, <2>7 DEF NewHole, Constraining
<1> QED
  BY <1>2, <1>3

LEMMA NewHoleType ==
  ASSUME sketch \in Sketches, NEW s \in States, Cardinality(Constraining(s)) <= 1
  PROVE  NewHole(s) \in Hole
<1>1. NewHole(s).name \in HoleName /\ NewHole(s).associated_schedulers \in SUBSET Scheduler
  <2>1. CASE /\ Constraining(s) = {}
             /\ NewHole(s).name = <<s, s>>
             /\ NewHole(s).associated_schedulers = {sketch.scheduler[s]}
    BY <2>1, SketchType DEF HoleName
  <2>2. ASSUME NEW c \in DOMAIN sketch.equalities,
               NewHole(s).name = <<sketch.equalities[c].name>>,
               NewHole(s).associated_schedulers = sketch.equalities[c].schedulers
        PROVE  NewHole(s).name \in HoleName /\ NewHole(s).associated_schedulers \in SUBSET Scheduler
    BY <2>2, SketchType DEF HoleName, Equality
  <2> QED
    BY <2>1, <2>2, KeyOfState
<1>2. NewHole(s).option_labels \in Seq(Label)
  BY SketchType DEF NewHole
<1>3. NewHole(s) = [name |-> NewHole(s).name,
                    associated_schedulers |-> NewHole(s).associated_schedulers,
                    option_labels |-> NewHole(s).option_labels]
  BY DEF NewHole
<1> QED
  BY <1>1, <1>2, <1>3 DEF Hole

(* A label's option is the first with that label.                          *)
LEMMA OptionIsFirst ==
  ASSUME NEW h \in DOMAIN holes, holes[h].option_labels \in Seq(Label), NEW label
  PROVE  /\ OptionIndex(h, label) \in Nat
         /\ OptionIndex(h, label) > 0
              => /\ OptionIndex(h, label) \in DOMAIN holes[h].option_labels
                 /\ holes[h].option_labels[OptionIndex(h, label)] = label
                 /\ \A k \in DOMAIN holes[h].option_labels :
                      holes[h].option_labels[k] = label => OptionIndex(h, label) <= k
<1> DEFINE labels == holes[h].option_labels
           I == {i \in 1..Len(labels) : labels[i] = label}
<1>1. OptionIndex(h, label) = IF I # {} THEN Min(I) ELSE 0
  BY DEF OptionIndex, SelectInSeq
<1>2. I \in SUBSET Nat /\ DOMAIN labels = 1..Len(labels)
  OBVIOUS
<1>3. CASE I = {}
  BY <1>1, <1>3
<1>4. CASE I # {}
  <2>1. \E n \in I : \A k \in I : n <= k
    BY <1>2, <1>4, LeastNatural
  <2>2. Min(I) \in I /\ \A k \in I : Min(I) <= k
    BY <2>1 DEF Min
  <2> QED
    BY <1>1, <1>2, <1>4, <2>2
<1> QED
  BY <1>3, <1>4

-----------------------------------------------------------------------------
(* What a step does not change: the sketch, the holes created before and   *)
(* the states processed before.                                            *)
LEMMA SameSketch ==
  ASSUME sketch' = sketch
  PROVE  /\ States' = States
         /\ \A s : /\ Actions(s)' = Actions(s)
                  /\ Choosing(s)' = Choosing(s)
                  /\ Constraining(s)' = Constraining(s)
                  /\ NewHole(s)' = NewHole(s)
<1>1. States' = States /\ \A s : Actions(s)' = Actions(s) /\ Choosing(s)' = Choosing(s)
  BY DEF States, Actions, Choosing
<1>2. \A s : Constraining(s)' = Constraining(s)
  BY DEF Constraining
<1>3. ASSUME NEW s
      PROVE  NewHole(s)' = NewHole(s)
  <2>1. Constraining(s)' = Constraining(s)
    BY <1>2
  <2>2. (CHOOSE c \in Constraining(s) : TRUE)' = (CHOOSE c \in Constraining(s) : TRUE)
    BY <2>1
  <2> QED
    BY <2>1, <2>2 DEF NewHole
<1> QED
  BY <1>1, <1>2, <1>3

LEMMA SameMatches ==
  ASSUME sketch' = sketch, NEW s, NEW h, holes'[h] = holes[h]
  PROVE  /\ Matched(s, h)' = Matched(s, h)
         /\ MatchingHolds(s, h)' = MatchingHolds(s, h)
<1>1. ASSUME NEW label
      PROVE  OptionIndex(h, label)' = OptionIndex(h, label)
  <2> DEFINE I == {i \in 1..Len(holes[h].option_labels) : holes[h].option_labels[i] = label}
             J == {i \in 1..Len(holes'[h].option_labels) : holes'[h].option_labels[i] = label}
  <2>1. I = J
    OBVIOUS
  <2>2. OptionIndex(h, label) = IF I # {} THEN Min(I) ELSE 0
    BY DEF OptionIndex, SelectInSeq
  <2>3. OptionIndex(h, label)' = IF J # {} THEN Min(J) ELSE 0
    BY DEF OptionIndex, SelectInSeq
  <2> QED
    BY <2>1, <2>2, <2>3
<1>2. Matched(s, h)' = Matched(s, h)
  BY <1>1, SameSketch DEF Matched
<1> QED
  BY <1>2, SameSketch DEF MatchingHolds

LEMMA OldStates ==
  ASSUME QuotientInv, sketch' = sketch,
         \A h \in DOMAIN holes : h \in DOMAIN holes' /\ holes'[h] = holes[h],
         NEW options \in Seq(SUBSET HoleOption), NextState \in States,
         action_to_hole_options' = Append(action_to_hole_options, options)
  PROVE  /\ action_to_hole_options' \in Seq(Seq(SUBSET HoleOption))
         /\ Len(action_to_hole_options') <= Len(sketch'.labels)
         /\ Processed' = Processed \cup {NextState}
         /\ NextState \notin Processed
         /\ action_to_hole_options'[NextState] = options
         /\ \A s \in Processed :
              /\ action_to_hole_options'[s] = action_to_hole_options[s]
              /\ \A h \in DOMAIN holes : /\ HasHole(s, h)' = HasHole(s, h)
                                        /\ Created(s, h)' = Created(s, h)
                                        /\ Joined(s, h)' = Joined(s, h)
<1>1. /\ Processed' = Processed \cup {NextState}
      /\ NextState \notin Processed
      /\ action_to_hole_options'[NextState] = options
      /\ \A s \in Processed : action_to_hole_options'[s] = action_to_hole_options[s]
  BY DEF QuotientInv, Processed, NextState
<1>2. ASSUME NEW s \in Processed, NEW h \in DOMAIN holes
      PROVE  /\ HasHole(s, h)' = HasHole(s, h)
             /\ Created(s, h)' = Created(s, h)
             /\ Joined(s, h)' = Joined(s, h)
  <2>1. holes'[h] = holes[h] /\ h \in DOMAIN holes'
    OBVIOUS
  <2>2. Actions(s)' = Actions(s) /\ action_to_hole_options'[s] = action_to_hole_options[s]
    BY <1>1, SameSketch
  <2>3. Created(s, h)' = Created(s, h)
    BY <2>1, <2>2 DEF Created
  <2>4. /\ Matched(s, h)' = Matched(s, h)
        /\ MatchingHolds(s, h)' = MatchingHolds(s, h)
    BY <2>1, SameMatches
  <2>5. Joined(s, h)' = Joined(s, h)
    BY <2>2, <2>4 DEF Joined
  <2>6. HasKey(s, h)' = HasKey(s, h)
    BY <2>1, SameSketch DEF HasKey
  <2> QED
    BY <2>1, <2>3, <2>5, <2>6 DEF HasHole
<1>3. /\ action_to_hole_options' \in Seq(Seq(SUBSET HoleOption))
      /\ Len(action_to_hole_options') <= Len(sketch'.labels)
  BY SketchType DEF QuotientInv, NextState
<1> QED
  BY <1>1, <1>2, <1>3

LEMMA ProcessedStates ==
  ASSUME QuotientInv
  PROVE  /\ Processed = 1..Len(action_to_hole_options)
         /\ Len(action_to_hole_options) \in Nat
         /\ Processed \subseteq States
BY SketchType DEF QuotientInv, Processed

LEMMA ChoosingOrNot ==
  ASSUME sketch \in Sketches, NEW s \in States
  PROVE  Choosing(s) <=> Len(sketch.labels[s]) # 1
<1>1. PICK n \in Nat \ {0} : n = Len(sketch.labels[s])
  BY SketchType
<1>2. n > 1 <=> n # 1
  OBVIOUS
<1> QED
  BY <1>1, <1>2 DEF Choosing

LEMMA FirstAction ==
  ASSUME sketch \in Sketches, NEW s \in States
  PROVE  1 \in Actions(s)
<1>1. Len(sketch.labels[s]) \in Nat \ {0} /\ Actions(s) = 1..Len(sketch.labels[s])
  BY SketchType
<1> QED
  BY <1>1

(* A state has no hole but the one of its entries.                         *)
LEMMA OneHole ==
  ASSUME QuotientInv, NEW s \in Processed, NEW h, NEW k, HasHole(s, h), HasHole(s, k)
  PROVE  h = k
<1>1. 1 \in Actions(s)
  <2>1. s \in States /\ sketch \in Sketches
    BY ProcessedStates DEF QuotientInv
  <2> QED
    BY <2>1, FirstAction
<1>2. ASSUME NEW i, HasHole(s, i)
      PROVE  \E o : action_to_hole_options[s][1] = {[hole |-> i, option |-> o]}
  BY <1>1, <1>2 DEF HasHole, Created, Joined, Entry
<1>3. PICK o : action_to_hole_options[s][1] = {[hole |-> h, option |-> o]}
  BY <1>2
<1>4. PICK p : action_to_hole_options[s][1] = {[hole |-> k, option |-> p]}
  BY <1>2
<1>5. [hole |-> h, option |-> o] = [hole |-> k, option |-> p]
  BY <1>3, <1>4
<1> QED
  BY <1>5

LEMMA SkipPreserves ==
  ASSUME QuotientInv, NEW s \in States, SkipState(s)
  PROVE  QuotientInv'
<1> USE DEF QuotientInv
<1>1. /\ sketch' = sketch /\ holes' = holes /\ quotient' = "building"
      /\ s = NextState /\ Len(sketch.labels[s]) = 1
      /\ action_to_hole_options' = Append(action_to_hole_options, <<{}>>)
  BY DEF SkipState, Processing
<1>2. <<{}>> \in Seq(SUBSET HoleOption)
  OBVIOUS
<1>3. /\ Processed' = Processed \cup {s}
      /\ s \notin Processed
      /\ action_to_hole_options'[s] = <<{}>>
      /\ \A t \in Processed :
           /\ action_to_hole_options'[t] = action_to_hole_options[t]
           /\ \A h \in DOMAIN holes : /\ HasHole(t, h)' = HasHole(t, h)
                                     /\ Created(t, h)' = Created(t, h)
                                     /\ Joined(t, h)' = Joined(t, h)
  BY <1>1, <1>2, OldStates
<1>4. /\ ~ Choosing(s)
      /\ \A t : Choosing(t)' = Choosing(t) /\ Constraining(t)' = Constraining(t)
  BY <1>1, SameSketch DEF Choosing
<1>5. /\ action_to_hole_options' \in Seq(Seq(SUBSET HoleOption))
      /\ Len(action_to_hole_options') <= Len(sketch'.labels)
  BY <1>1, <1>2, OldStates
<1>6. SkippedInv'
  BY <1>1, <1>3 DEF SkippedInv
<1>7. HolesInv'
  BY <1>1, <1>3, <1>4 DEF HolesInv
<1>8. CreatorsInv'
  BY <1>1, <1>3, <1>4 DEF CreatorsInv
<1>9. KeysInv'
  BY <1>1 DEF KeysInv
<1>10. JoinedInv'
  BY <1>1, <1>3, <1>4 DEF JoinedInv
<1>11. FamilyInv'
  BY <1>1 DEF FamilyInv
<1> QED
  BY <1>1, <1>5, <1>6, <1>7, <1>8, <1>9, <1>10, <1>11

LEMMA JoinPreserves ==
  ASSUME QuotientInv, NEW s \in States, JoinHole(s)
  PROVE  QuotientInv'
<1> USE DEF QuotientInv
<1>1. /\ sketch' = sketch /\ holes' = holes /\ quotient' = "building"
      /\ s = NextState /\ Choosing(s) /\ Cardinality(Constraining(s)) = 1
  BY DEF JoinHole, Processing, Choosing
<1>2. PICK h \in SharedHoles(s) :
        /\ MatchingHolds(s, h)
        /\ action_to_hole_options' =
             Append(action_to_hole_options, [j \in Actions(s) |-> Entry(h, Matched(s, h)[j])])
  BY DEF JoinHole
<1> DEFINE options == [j \in Actions(s) |-> Entry(h, Matched(s, h)[j])]
<1>3. h \in DOMAIN holes /\ HasKey(s, h)
  <2>1. PICK c \in DOMAIN sketch.equalities :
          /\ Constraining(s) = {c}
          /\ NewHole(s).name = <<sketch.equalities[c].name>>
          /\ NewHole(s).associated_schedulers = sketch.equalities[c].schedulers
    <3>1. Constraining(s) # {}
      <4>1. ASSUME Constraining(s) = {}
            PROVE  Cardinality(Constraining(s)) = 0
        BY <4>1, FS_EmptySet
      <4> QED
        BY <1>1, <4>1
    <3>2. Cardinality(Constraining(s)) <= 1
      BY <1>1
    <3> QED
      BY <3>1, <3>2, KeyOfState
  <2>2. h \in lookup_hole_index(sketch.equalities[c].name, sketch.equalities[c].schedulers)
    BY <2>1 DEF SharedHoles
  <2> QED
    BY <2>1, <2>2 DEF lookup_hole_index, HasKey
<1>4. options \in Seq(SUBSET HoleOption)
  <2>1. ASSUME NEW j \in Actions(s)
        PROVE  Matched(s, h)[j] \in Nat
    <3>1. holes[h].option_labels \in Seq(Label)
      <4>1. holes[h] \in Hole
        BY <1>3
      <4> QED
        BY <4>1 DEF Hole
    <3> QED
      BY <1>3, <3>1, OptionIsFirst DEF Matched
  <2>2. h \in Nat
    BY <1>3
  <2>3. \A j \in Actions(s) : options[j] \in SUBSET HoleOption
    BY <2>1, <2>2 DEF Entry, HoleOption
  <2>4. Len(sketch.labels[s]) \in Nat /\ Actions(s) = 1..Len(sketch.labels[s])
    BY SketchType
  <2> QED
    BY <2>3, <2>4
<1>5. /\ action_to_hole_options' \in Seq(Seq(SUBSET HoleOption))
      /\ Len(action_to_hole_options') <= Len(sketch'.labels)
      /\ Processed' = Processed \cup {s}
      /\ s \notin Processed
      /\ action_to_hole_options'[s] = options
      /\ \A t \in Processed :
           /\ action_to_hole_options'[t] = action_to_hole_options[t]
           /\ \A k \in DOMAIN holes : /\ HasHole(t, k)' = HasHole(t, k)
                                     /\ Created(t, k)' = Created(t, k)
                                     /\ Joined(t, k)' = Joined(t, k)
  BY <1>1, <1>2, <1>4, OldStates
<1>6. \A t : Choosing(t)' = Choosing(t) /\ Constraining(t)' = Constraining(t)
  BY <1>1, SameSketch
<1>7. Joined(s, h)' /\ HasHole(s, h)'
  <2>1. /\ Matched(s, h)' = Matched(s, h)
        /\ MatchingHolds(s, h)' = MatchingHolds(s, h)
    BY <1>1, SameMatches
  <2>2. Actions(s)' = Actions(s) /\ NewHole(s)' = NewHole(s)
    BY <1>1, SameSketch
  <2>3. Joined(s, h)'
    BY <1>2, <1>5, <2>1, <2>2 DEF Joined
  <2> QED
    BY <1>1, <1>3, <2>2, <2>3 DEF HasHole, HasKey
<1>8. \A k \in DOMAIN holes : HasHole(s, k)' => k = h
  <2>1. 1 \in Actions(s)
    BY FirstAction
  <2>2. ASSUME NEW i, HasHole(s, i)'
        PROVE  \E o : action_to_hole_options'[s][1] = {[hole |-> i, option |-> o]}
    <3>1. Actions(s)' = Actions(s)
      BY <1>1, SameSketch
    <3> QED
      BY <2>1, <2>2, <3>1 DEF HasHole, Created, Joined, Entry
  <2>3. ASSUME NEW k, HasHole(s, k)'
        PROVE  k = h
    <3>1. PICK o : action_to_hole_options'[s][1] = {[hole |-> h, option |-> o]}
      BY <1>7, <2>2
    <3>2. PICK p : action_to_hole_options'[s][1] = {[hole |-> k, option |-> p]}
      BY <2>2, <2>3
    <3>3. [hole |-> h, option |-> o] = [hole |-> k, option |-> p]
      BY <3>1, <3>2
    <3> QED
      BY <3>3
  <2> QED
    BY <2>3
<1>9. /\ action_to_hole_options' \in Seq(Seq(SUBSET HoleOption))
      /\ Len(action_to_hole_options') <= Len(sketch'.labels)
  BY <1>5
<1>10. SkippedInv'
  <2>1. Len(sketch.labels[s]) # 1
    BY <1>1, ChoosingOrNot
  <2>2. ASSUME NEW t \in Processed', Len(sketch.labels[t]) = 1
        PROVE  action_to_hole_options'[t] = <<{}>>
    <3>1. t \in Processed
      BY <1>5, <2>1, <2>2
    <3> QED
      BY <1>5, <2>2, <3>1 DEF SkippedInv
  <2> QED
    BY <1>1, <2>2 DEF SkippedInv
<1>11. HolesInv'
  BY <1>1, <1>3, <1>5, <1>6, <1>7 DEF HolesInv
<1>12. CreatorsInv'
  BY <1>1, <1>5, <1>6 DEF CreatorsInv
<1>13. KeysInv'
  BY <1>1 DEF KeysInv
<1>14. JoinedInv'
  BY <1>1, <1>5, <1>6, <1>7, <1>8 DEF JoinedInv
<1>15. FamilyInv'
  BY <1>1 DEF FamilyInv
<1> QED
  BY <1>1, <1>9, <1>10, <1>11, <1>12, <1>13, <1>14, <1>15

(* The hole a state creates has a key no other hole has: under an equality *)
(* the lookup found none, and no other state has its name.                 *)
LEMMA NewKey ==
  ASSUME QuotientInv, NEW s \in States, CreateHole(s), NEW h \in DOMAIN holes, HasKey(s, h)
  PROVE  FALSE
<1> USE DEF QuotientInv
<1>1. /\ Cardinality(Constraining(s)) <= 1 /\ SharedHoles(s) = {} /\ s = NextState
      /\ Choosing(s)
  BY DEF CreateHole, Processing, Choosing
<1>2. CASE Constraining(s) = {}
  <2>1. NewHole(s).name = <<s, s>>
    BY <1>2 DEF NewHole
  <2>2. PICK t \in Processed : Choosing(t) /\ HasKey(t, h)
    BY DEF CreatorsInv, HasHole
  <2>3. t \in States /\ Cardinality(Constraining(t)) <= 1 /\ t # s
    BY <1>1, <2>2, ProcessedStates DEF HolesInv, NextState
  <2>4. NewHole(t).name = <<s, s>>
    BY <2>1, <2>2 DEF HasKey
  <2>5. CASE NewHole(t).name = <<t, t>>
    BY <2>3, <2>4, <2>5
  <2>6. ASSUME NEW n, NewHole(t).name = <<n>>
        PROVE  FALSE
    <3>1. Len(NewHole(t).name) = 1
      BY <2>6
    <3>2. Len(NewHole(t).name) = 2
      BY <2>4
    <3> HIDE DEF QuotientInv
    <3> QED
      BY <3>1, <3>2
  <2> QED
    BY <2>3, <2>5, <2>6, KeyOfState
<1>3. ASSUME NEW c \in DOMAIN sketch.equalities,
             Constraining(s) = {c},
             NewHole(s).name = <<sketch.equalities[c].name>>,
             NewHole(s).associated_schedulers = sketch.equalities[c].schedulers
      PROVE  FALSE
  <2>1. h \in lookup_hole_index(sketch.equalities[c].name, sketch.equalities[c].schedulers)
    BY <1>3 DEF lookup_hole_index, HasKey
  <2> QED
    BY <1>1, <1>3, <2>1 DEF SharedHoles
<1> QED
  BY <1>1, <1>2, <1>3, KeyOfState

LEMMA CreatePreserves ==
  ASSUME QuotientInv, NEW s \in States, CreateHole(s)
  PROVE  QuotientInv'
<1> USE DEF QuotientInv
<1>0. PICK new \in Nat : new = Len(holes) + 1
  OBVIOUS
<1> DEFINE options == [j \in Actions(s) |-> Entry(new, j)]
<1>1. /\ sketch' = sketch /\ holes' = Append(holes, NewHole(s)) /\ quotient' = "building"
      /\ s = NextState /\ Choosing(s) /\ Cardinality(Constraining(s)) <= 1
      /\ action_to_hole_options' = Append(action_to_hole_options, options)
  BY <1>0 DEF CreateHole, Processing, Choosing
<1>2. /\ holes' \in Seq(Hole)
      /\ DOMAIN holes' = DOMAIN holes \cup {new}
      /\ new \in Nat /\ new \notin DOMAIN holes
      /\ holes'[new] = NewHole(s)
      /\ \A h \in DOMAIN holes : h \in DOMAIN holes' /\ holes'[h] = holes[h]
  <2>1. NewHole(s) \in Hole
    BY <1>1, NewHoleType
  <2> QED
    BY <1>0, <1>1, <2>1
<1>3. options \in Seq(SUBSET HoleOption)
  <2>1. Len(sketch.labels[s]) \in Nat /\ Actions(s) = 1..Len(sketch.labels[s])
    BY SketchType
  <2>2. \A j \in Actions(s) : options[j] \in SUBSET HoleOption
    BY <1>2, <2>1 DEF Entry, HoleOption
  <2> QED
    BY <2>1, <2>2
<1>4. /\ action_to_hole_options' \in Seq(Seq(SUBSET HoleOption))
      /\ Len(action_to_hole_options') <= Len(sketch'.labels)
      /\ Processed' = Processed \cup {s}
      /\ s \notin Processed
      /\ action_to_hole_options'[s] = options
      /\ \A t \in Processed :
           /\ action_to_hole_options'[t] = action_to_hole_options[t]
           /\ \A k \in DOMAIN holes : /\ HasHole(t, k)' = HasHole(t, k)
                                     /\ Created(t, k)' = Created(t, k)
                                     /\ Joined(t, k)' = Joined(t, k)
  <2> HIDE DEF options
  <2> QED
    BY <1>1, <1>2, <1>3, OldStates
<1>5. \A t : /\ Choosing(t)' = Choosing(t)
             /\ Constraining(t)' = Constraining(t)
             /\ Actions(t)' = Actions(t)
             /\ NewHole(t)' = NewHole(t)
  BY <1>1, SameSketch
<1>6. Created(s, new)' /\ HasHole(s, new)'
  <2>1. holes'[new].option_labels = sketch.labels[s]
    BY <1>2 DEF NewHole
  <2>2. Created(s, new)'
    BY <1>1, <1>4, <1>5, <2>1 DEF Created
  <2> QED
    BY <1>2, <1>5, <2>2 DEF HasHole, HasKey
(* The new state has no other hole, and no other state has the new hole.   *)
<1>7. ASSUME NEW k, HasHole(s, k)'
      PROVE  k = new
  <2>1. 1 \in Actions(s)
    BY FirstAction
  <2>2. \E o : action_to_hole_options'[s][1] = {[hole |-> k, option |-> o]}
    BY <1>5, <1>7, <2>1 DEF HasHole, Created, Joined, Entry
  <2>3. PICK o : action_to_hole_options'[s][1] = {[hole |-> k, option |-> o]}
    BY <2>2
  <2>4. action_to_hole_options'[s][1] = {[hole |-> new, option |-> 1]}
    BY <1>4, <2>1 DEF Entry
  <2>5. [hole |-> k, option |-> o] = [hole |-> new, option |-> 1]
    BY <2>3, <2>4
  <2> QED
    BY <2>5
<1>8. ASSUME NEW t \in Processed, Choosing(t), HasHole(t, new)'
      PROVE  FALSE
  <2>1. t \in States
    BY ProcessedStates
  <2>2. 1 \in Actions(t)
    BY <2>1, FirstAction
  <2>3. PICK o : action_to_hole_options'[t][1] = {[hole |-> new, option |-> o]}
    BY <1>5, <1>8, <2>2 DEF HasHole, Created, Joined, Entry
  <2>4. PICK h \in DOMAIN holes : HasHole(t, h)
    BY <1>8 DEF HolesInv
  <2>5. PICK p : action_to_hole_options[t][1] = {[hole |-> h, option |-> p]}
    BY <2>2, <2>4 DEF HasHole, Created, Joined, Entry
  <2>6. [hole |-> h, option |-> p] = [hole |-> new, option |-> o]
    BY <1>4, <2>3, <2>5
  <2> QED
    BY <1>2, <2>6
<1>9. SkippedInv'
  <2>1. Len(sketch.labels[s]) # 1
    BY <1>1, ChoosingOrNot
  <2>2. ASSUME NEW t \in Processed', Len(sketch.labels[t]) = 1
        PROVE  action_to_hole_options'[t] = <<{}>>
    <3>1. t \in Processed
      BY <1>4, <2>1, <2>2
    <3> QED
      BY <1>4, <2>2, <3>1 DEF SkippedInv
  <2> QED
    BY <1>1, <2>2 DEF SkippedInv
<1>10. HolesInv'
  <2>1. ASSUME NEW t \in Processed', Choosing(t)
        PROVE  Cardinality(Constraining(t)) <= 1 /\ \E h \in DOMAIN holes' : HasHole(t, h)'
    <3>1. CASE t = s
      BY <1>1, <1>2, <1>6, <3>1
    <3>2. CASE t \in Processed
      BY <1>2, <1>4, <2>1, <3>2 DEF HolesInv
    <3> QED
      BY <1>4, <3>1, <3>2
  <2> QED
    BY <1>5, <2>1 DEF HolesInv
<1>11. CreatorsInv'
  <2>1. ASSUME NEW h \in DOMAIN holes'
        PROVE  \E t \in Processed' : Choosing(t)' /\ HasHole(t, h)' /\ Created(t, h)'
    <3>1. CASE h = new
      BY <1>1, <1>4, <1>5, <1>6, <3>1
    <3>2. CASE h \in DOMAIN holes
      BY <1>4, <1>5, <3>2 DEF CreatorsInv
    <3> QED
      BY <1>2, <3>1, <3>2
  <2> QED
    BY <2>1 DEF CreatorsInv
<1>12. KeysInv'
  <2>1. ASSUME NEW h \in DOMAIN holes
        PROVE  ~ (/\ holes'[h].name = holes'[new].name
                  /\ holes'[h].associated_schedulers = holes'[new].associated_schedulers)
    BY <1>2, NewKey DEF HasKey
  <2>2. ASSUME NEW h \in DOMAIN holes, NEW k \in DOMAIN holes,
               holes'[h].name = holes'[k].name,
               holes'[h].associated_schedulers = holes'[k].associated_schedulers
        PROVE  h = k
    BY <1>2, <2>2 DEF KeysInv
  <2>3. \A h, k \in DOMAIN holes \cup {new} :
          /\ holes'[h].name = holes'[k].name
          /\ holes'[h].associated_schedulers = holes'[k].associated_schedulers
          => h = k
    <3> HIDE DEF QuotientInv
    <3> QED
      BY <2>1, <2>2
  <2> QED
    BY <1>2, <2>3 DEF KeysInv
<1>13. JoinedInv'
  <2>1. ASSUME NEW h \in DOMAIN holes', NEW t \in Processed', NEW r \in Processed',
               t # r, Choosing(t), Choosing(r), HasHole(t, h)', HasHole(r, h)'
        PROVE  Joined(t, h)' \/ Joined(r, h)'
    <3>1. h # new
      BY <1>4, <1>7, <1>8, <2>1
    <3>2. t # s /\ r # s
      BY <1>7, <2>1, <3>1
    <3> QED
      BY <1>2, <1>4, <2>1, <3>1, <3>2 DEF JoinedInv
  <2> QED
    BY <1>5, <2>1 DEF JoinedInv
<1>14. FamilyInv'
  BY <1>1 DEF FamilyInv
<1> QED
  BY <1>1, <1>2, <1>4, <1>9, <1>10, <1>11, <1>12, <1>13, <1>14

-----------------------------------------------------------------------------
(* The options of a state's actions: those of its hole with their labels,  *)
(* the first such ones if the actions were matched.                        *)
LEMMA OptionsOfState ==
  ASSUME QuotientInv, NEW s \in Processed, NEW h \in DOMAIN holes, HasHole(s, h)
  PROVE  \E m \in [Actions(s) -> DOMAIN holes[h].option_labels] :
           /\ action_to_hole_options[s] = [j \in Actions(s) |-> Entry(h, m[j])]
           /\ \A i, j \in Actions(s) : m[i] = m[j] => i = j
           /\ \A j \in Actions(s) : holes[h].option_labels[m[j]] = sketch.labels[s][j]
           /\ Joined(s, h) =>
                \A j \in Actions(s) : \A k \in DOMAIN holes[h].option_labels :
                  holes[h].option_labels[k] = sketch.labels[s][j] => m[j] <= k
<1>1. holes[h].option_labels \in Seq(Label)
  <2>1. holes[h] \in Hole
    BY DEF QuotientInv
  <2> QED
    BY <2>1 DEF Hole
<1>2. CASE Joined(s, h)
  <2> DEFINE m == Matched(s, h)
  <2>1. \A j \in Actions(s) : m[j] = OptionIndex(h, sketch.labels[s][j]) /\ m[j] > 0
    BY <1>2 DEF Joined, MatchingHolds, Matched
  <2>2. \A j \in Actions(s) :
          /\ m[j] \in DOMAIN holes[h].option_labels
          /\ holes[h].option_labels[m[j]] = sketch.labels[s][j]
          /\ \A k \in DOMAIN holes[h].option_labels :
               holes[h].option_labels[k] = sketch.labels[s][j] => m[j] <= k
    BY <1>1, <2>1, OptionIsFirst
  <2>3. m \in [Actions(s) -> DOMAIN holes[h].option_labels]
    BY <2>2 DEF Matched
  <2>4. \A i, j \in Actions(s) : m[i] = m[j] => i = j
    BY <1>2 DEF Joined, MatchingHolds
  <2>5. action_to_hole_options[s] = [j \in Actions(s) |-> Entry(h, m[j])]
    BY <1>2 DEF Joined
  <2> HIDE DEF m
  <2> QED
    BY <2>2, <2>3, <2>4, <2>5
<1>3. CASE ~ Joined(s, h)
  <2> DEFINE m == [j \in Actions(s) |-> j]
  <2>1. Created(s, h)
    BY <1>3 DEF HasHole
  <2>2. m \in [Actions(s) -> DOMAIN holes[h].option_labels]
    BY <2>1 DEF Created, Actions
  <2>3. action_to_hole_options[s] = [j \in Actions(s) |-> Entry(h, m[j])]
    BY <2>1 DEF Created
  <2>4. \A j \in Actions(s) : m[j] = j /\ holes[h].option_labels[m[j]] = sketch.labels[s][j]
    BY <2>1 DEF Created
  <2> HIDE DEF m
  <2> QED
    BY <1>3, <2>2, <2>3, <2>4
<1> QED
  BY <1>2, <1>3

LEMMA NoChoice ==
  ASSUME QuotientInv, NEW s \in Processed, ~ Choosing(s)
  PROVE  Actions(s) = {1} /\ action_to_hole_options[s] = <<{}>>
<1>1. s \in States /\ sketch \in Sketches
  BY ProcessedStates DEF QuotientInv
<1>2. Len(sketch.labels[s]) = 1
  BY <1>1, ChoosingOrNot
<1>3. Actions(s) = 1..1
  BY <1>1, <1>2, SketchType
<1>4. Actions(s) = {1}
  BY <1>3
<1>5. action_to_hole_options[s] = <<{}>>
  BY <1>2 DEF QuotientInv, SkippedInv
<1> QED
  BY <1>4, <1>5

(* An action has an option of a hole, or is in every family.               *)
LEMMA EntriesOfAction ==
  ASSUME QuotientInv, NEW s \in Processed, NEW j \in Actions(s)
  PROVE  \/ ~ Choosing(s) /\ action_to_hole_options[s][j] = {}
         \/ \E h \in DOMAIN holes : \E o \in DOMAIN holes[h].option_labels :
              action_to_hole_options[s][j] = {[hole |-> h, option |-> o]}
<1>1. CASE ~ Choosing(s)
  BY <1>1, NoChoice
<1>2. CASE Choosing(s)
  <2>1. PICK h \in DOMAIN holes : HasHole(s, h)
    BY <1>2 DEF QuotientInv, HolesInv
  <2>2. PICK m \in [Actions(s) -> DOMAIN holes[h].option_labels] :
          action_to_hole_options[s] = [i \in Actions(s) |-> Entry(h, m[i])]
    BY <2>1, OptionsOfState
  <2> QED
    BY <2>2 DEF Entry
<1> QED
  BY <1>1, <1>2

LEMMA EntriesOfSelectable ==
  ASSUME QuotientInv, Processed = States, NEW a \in AllActions \ default_actions
  PROVE  \E h \in DOMAIN holes : \E o \in DOMAIN holes[h].option_labels :
           Entries(a) = {[hole |-> h, option |-> o]}
<1>1. PICK s \in States : a \in {s} \X Actions(s)
  BY DEF AllActions
<1>2. a[1] = s /\ a[2] \in Actions(s)
  BY <1>1
<1>3. Entries(a) # {}
  BY DEF default_actions
<1> QED
  BY <1>2, <1>3, EntriesOfAction DEF Entries

LEMMA InvImpliesTypeOK ==
  ASSUME QuotientInv
  PROVE  QuotientTypeOK
<1>1. ASSUME NEW h \in DOMAIN holes
      PROVE  holes[h].option_labels \in Seq(Label)
  <2>1. holes[h] \in Hole
    BY DEF QuotientInv
  <2> QED
    BY <2>1 DEF Hole
<1>2. ASSUME NEW s \in DOMAIN action_to_hole_options, NEW j \in Actions(s),
             NEW e \in action_to_hole_options[s][j]
      PROVE  e.hole \in DOMAIN holes /\ e.option \in DOMAIN holes[e.hole].option_labels
  BY EntriesOfAction DEF Processed
<1>3. quotient = "built" => /\ family \in [DOMAIN holes -> SUBSET Nat]
                            /\ \A h \in DOMAIN holes : family[h] # {}
                            /\ selected_actions \subseteq AllActions
  BY DEF QuotientInv, FamilyInv, select_actions
<1> QED
  BY <1>1, <1>2, <1>3 DEF QuotientInv, QuotientTypeOK

(* The construction of the design space, and of a subfamily: the actions   *)
(* of the parent, filtered, are those selected from the whole quotient.    *)
LEMMA SameSelection ==
  ASSUME sketch' = sketch, action_to_hole_options' = action_to_hole_options
  PROVE  \A F : select_actions(F)' = select_actions(F)
<1>1. AllActions' = AllActions
  BY SameSketch DEF AllActions
<1>2. \A a : Entries(a)' = Entries(a)
  BY DEF Entries
<1>3. default_actions' = default_actions
  BY <1>1, <1>2 DEF default_actions
<1> QED
  BY <1>1, <1>2, <1>3 DEF select_actions, Includes

(* What does not depend on the family or on how far the construction is.   *)
LEMMA ConstructionStays ==
  ASSUME QuotientInv,
         sketch' = sketch, holes' = holes, action_to_hole_options' = action_to_hole_options,
         quotient' \in {"building", "built", "failed"}, FamilyInv'
  PROVE  QuotientInv'
<1>1. /\ Processed' = Processed
      /\ \A s : /\ Choosing(s)' = Choosing(s)
               /\ Constraining(s)' = Constraining(s)
               /\ \A h : /\ HasHole(s, h)' = HasHole(s, h)
                        /\ Created(s, h)' = Created(s, h)
                        /\ Joined(s, h)' = Joined(s, h)
  <2>1. \A s, h : Created(s, h)' = Created(s, h)
    BY SameSketch DEF Created
  <2>2. \A s, h : Joined(s, h)' = Joined(s, h)
    BY SameSketch, SameMatches DEF Joined
  <2>3. \A s, h : HasKey(s, h)' = HasKey(s, h)
    BY SameSketch DEF HasKey
  <2> QED
    BY <2>1, <2>2, <2>3, SameSketch DEF HasHole, Processed
<1>2. SkippedInv'
  BY <1>1 DEF QuotientInv, SkippedInv
<1>3. HolesInv'
  BY <1>1 DEF QuotientInv, HolesInv
<1>4. CreatorsInv'
  BY <1>1 DEF QuotientInv, CreatorsInv
<1>5. KeysInv'
  BY <1>1 DEF QuotientInv, KeysInv
<1>6. JoinedInv'
  BY <1>1 DEF QuotientInv, JoinedInv
<1> QED
  BY <1>2, <1>3, <1>4, <1>5, <1>6 DEF QuotientInv

LEMMA BuildPreserves ==
  ASSUME QuotientInv, BuildQuotient
  PROVE  QuotientInv'
<1>1. /\ sketch' = sketch /\ holes' = holes /\ action_to_hole_options' = action_to_hole_options
      /\ quotient' = "built" /\ NextState \notin States
      /\ family' = DesignSpaceOf(holes) /\ selected_actions' = select_actions(family')
  BY DEF BuildQuotient
<1>2. Processed = States
  BY <1>1, ProcessedStates, SketchType DEF QuotientInv, NextState
<1>3. ASSUME NEW h \in DOMAIN holes
      PROVE  /\ DOMAIN holes[h].option_labels \in SUBSET Nat
             /\ DOMAIN holes[h].option_labels # {}
  <2>1. PICK s \in Processed : Created(s, h)
    BY DEF QuotientInv, CreatorsInv
  <2>2. DOMAIN holes[h].option_labels = Actions(s)
    BY <2>1 DEF Created, Actions
  <2>3. s \in States /\ sketch \in Sketches
    BY <1>2 DEF QuotientInv
  <2>4. Actions(s) \subseteq Nat /\ 1 \in Actions(s)
    BY <2>3, SketchType, FirstAction
  <2> QED
    BY <2>2, <2>4
<1>4. /\ family' \in [DOMAIN holes -> SUBSET Nat]
      /\ \A h \in DOMAIN holes : /\ family'[h] # {}
                                /\ family'[h] \subseteq DOMAIN holes[h].option_labels
  BY <1>1, <1>3 DEF DesignSpaceOf
<1>5. FamilyInv'
  <2>1. selected_actions' = select_actions(family)'
    BY <1>1, SameSelection
  <2>2. Processed' = States'
    BY <1>1, <1>2, SameSketch DEF Processed
  <2> QED
    BY <1>1, <1>4, <2>1, <2>2 DEF FamilyInv
<1> QED
  BY <1>1, <1>5, ConstructionStays

LEMMA SubfamilyPreserves ==
  ASSUME QuotientInv, BuildSubfamily
  PROVE  QuotientInv'
<1>1. /\ sketch' = sketch /\ holes' = holes /\ action_to_hole_options' = action_to_hole_options
      /\ quotient = "built" /\ quotient' = "built"
  BY DEF BuildSubfamily
<1>2. PICK h \in DOMAIN holes : \E options \in SUBSET family[h] :
        /\ options # {}
        /\ family' = [family EXCEPT ![h] = options]
        /\ selected_actions' = filter_actions(family', selected_actions)
  BY DEF BuildSubfamily
<1>3. PICK options \in SUBSET family[h] :
        /\ options # {}
        /\ family' = [family EXCEPT ![h] = options]
        /\ selected_actions' = filter_actions(family', selected_actions)
  BY <1>2
<1>4. /\ Processed = States
      /\ family \in [DOMAIN holes -> SUBSET Nat]
      /\ \A k \in DOMAIN holes : /\ family[k] # {}
                                /\ family[k] \subseteq DOMAIN holes[k].option_labels
      /\ selected_actions = select_actions(family)
  BY <1>1 DEF QuotientInv, FamilyInv
<1>5. \A k \in DOMAIN holes : family'[k] # {} /\ family'[k] \subseteq family[k]
  BY <1>3, <1>4
<1>6. family' \in [DOMAIN holes -> SUBSET Nat]
  BY <1>3, <1>4
<1>7. selected_actions' = select_actions(family')
  <2>1. ASSUME NEW a \in AllActions \ default_actions, Includes(family', Entries(a))
        PROVE  Includes(family, Entries(a))
    <3>1. PICK k \in DOMAIN holes : \E o : Entries(a) = {[hole |-> k, option |-> o]}
      BY <1>4, EntriesOfSelectable
    <3> QED
      BY <1>5, <2>1, <3>1 DEF Includes
  <2> QED
    BY <1>3, <1>4, <2>1 DEF filter_actions, select_actions
<1>8. FamilyInv'
  <2>1. selected_actions' = select_actions(family)'
    BY <1>1, <1>7, SameSelection
  <2>2. Processed' = States'
    BY <1>1, <1>4, SameSketch DEF Processed
  <2> QED
    BY <1>1, <1>4, <1>5, <1>6, <2>1, <2>2 DEF FamilyInv
<1> QED
  BY <1>1, <1>8, ConstructionStays

LEMMA QuotientStepPreserves ==
  ASSUME QuotientInv, [QuotientNext]_quotient_vars
  PROVE  QuotientInv'
<1>1. ASSUME NEW s \in States, ProcessState(s)
      PROVE  QuotientInv'
  <2>1. CASE SkipState(s)
    BY <2>1, SkipPreserves
  <2>2. CASE JoinHole(s)
    BY <2>2, JoinPreserves
  <2>3. CASE CreateHole(s)
    BY <2>3, CreatePreserves
  <2>4. CASE FailEqualities(s)
    BY <2>4, ConstructionStays DEF FailEqualities, FamilyInv
  <2> QED
    BY <1>1, <2>1, <2>2, <2>3, <2>4 DEF ProcessState
<1>2. CASE BuildQuotient
  BY <1>2, BuildPreserves
<1>3. CASE BuildSubfamily
  BY <1>3, SubfamilyPreserves
<1>4. CASE UNCHANGED quotient_vars
  <2>1. /\ sketch' = sketch /\ holes' = holes
        /\ action_to_hole_options' = action_to_hole_options
        /\ family' = family /\ selected_actions' = selected_actions /\ quotient' = quotient
    BY <1>4 DEF quotient_vars
  <2>2. FamilyInv'
    <3>1. select_actions(family)' = select_actions(family)
      BY <2>1, SameSelection
    <3> QED
      BY <2>1, <3>1, SameSketch DEF QuotientInv, FamilyInv, Processed
  <2> QED
    BY <2>1, <2>2, ConstructionStays DEF QuotientInv
<1> QED
  BY <1>1, <1>2, <1>3, <1>4 DEF QuotientNext

LEMMA InitEstablishesQuotientInv == QuotientInit => QuotientInv
<1> SUFFICES ASSUME QuotientInit
             PROVE  QuotientInv
  OBVIOUS
<1>1. /\ sketch \in Sketches /\ holes = << >> /\ action_to_hole_options = << >>
      /\ quotient = "building"
  BY DEF QuotientInit
<1>2. Processed = {} /\ DOMAIN holes = {}
  BY <1>1 DEF Processed
<1>3. Len(action_to_hole_options) <= Len(sketch.labels)
  BY <1>1, SketchType
<1> QED
  BY <1>1, <1>2, <1>3 DEF QuotientInv, SkippedInv, HolesInv, CreatorsInv, KeysInv, JoinedInv,
                          FamilyInv

-----------------------------------------------------------------------------
(* The chains of a family's members.                                       *)
LEMMA MemberWithOption ==
  ASSUME NEW F, \A k \in DOMAIN F : F[k] # {}, NEW h \in DOMAIN F, NEW o \in F[h]
  PROVE  \E a \in FamilyMembers(F) : a[h] = o
<1> DEFINE a == [k \in DOMAIN F |-> IF k = h THEN o ELSE CHOOSE x \in F[k] : TRUE]
<1>1. \A k \in DOMAIN F : a[k] \in F[k]
  OBVIOUS
<1>2. a \in [DOMAIN F -> UNION {F[k] : k \in DOMAIN F}]
  BY <1>1
<1>3. a[h] = o
  OBVIOUS
<1> HIDE DEF a
<1> QED
  BY <1>1, <1>2, <1>3 DEF FamilyMembers

LEMMA InvImpliesChains ==
  ASSUME QuotientInv
  PROVE  FamilyHasChains
<1> SUFFICES ASSUME quotient = "built"
             PROVE  selected_actions \cup default_actions
                      = (UNION {ChainActions(a) : a \in FamilyMembers(family)})
                           \cup default_actions
  BY DEF FamilyHasChains
<1>1. /\ Processed = States
      /\ family \in [DOMAIN holes -> SUBSET Nat]
      /\ \A h \in DOMAIN holes : family[h] # {}
      /\ selected_actions = select_actions(family)
  BY DEF QuotientInv, FamilyInv
<1>2. ASSUME NEW x \in selected_actions
      PROVE  \E a \in FamilyMembers(family) : x \in ChainActions(a)
  <2>1. x \in AllActions \ default_actions /\ Includes(family, Entries(x))
    BY <1>1 DEF select_actions
  <2>2. PICK h \in DOMAIN holes : \E o : Entries(x) = {[hole |-> h, option |-> o]}
    BY <1>1, <2>1, EntriesOfSelectable
  <2>3. PICK o : Entries(x) = {[hole |-> h, option |-> o]}
    BY <2>2
  <2>4. o \in family[h]
    BY <2>1, <2>3 DEF Includes
  <2>5. PICK a \in FamilyMembers(family) : a[h] = o
    BY <1>1, <2>4, MemberWithOption
  <2>6. Includes(Singletons(a), Entries(x))
    BY <1>1, <2>3, <2>5 DEF Includes, Singletons, FamilyMembers
  <2> QED
    BY <2>1, <2>6 DEF ChainActions, select_actions
<1>3. ASSUME NEW a \in FamilyMembers(family), NEW x \in ChainActions(a), x \notin default_actions
      PROVE  x \in selected_actions
  <2>1. x \in AllActions \ default_actions /\ Includes(Singletons(a), Entries(x))
    BY <1>3 DEF ChainActions, select_actions
  <2>2. PICK h \in DOMAIN holes : \E o : Entries(x) = {[hole |-> h, option |-> o]}
    BY <1>1, <2>1, EntriesOfSelectable
  <2>3. PICK o : Entries(x) = {[hole |-> h, option |-> o]}
    BY <2>2
  <2>4. DOMAIN a = DOMAIN holes /\ a[h] \in family[h]
    BY <1>1 DEF FamilyMembers
  <2>5. o = a[h]
    BY <2>1, <2>3, <2>4 DEF Includes, Singletons
  <2>6. Includes(family, Entries(x))
    BY <2>3, <2>4, <2>5 DEF Includes
  <2> QED
    BY <1>1, <2>1, <2>6 DEF select_actions
<1> DEFINE chains == UNION {ChainActions(a) : a \in FamilyMembers(family)}
<1>4. chains \subseteq selected_actions \cup default_actions
  BY <1>3
<1>5. selected_actions \subseteq chains
  BY <1>2
<1>6. selected_actions \cup default_actions = chains \cup default_actions
  <2> HIDE DEF chains
  <2> QED
    BY <1>4, <1>5
<1> QED
  BY <1>6

-----------------------------------------------------------------------------
(* The assignments of the design space are the policies of the sketch.     *)
LEMMA HoleShared ==
  ASSUME QuotientInv, NEW s \in Processed, NEW t \in Processed, Choosing(s), Choosing(t),
         NEW h \in DOMAIN holes, HasHole(s, h), HasHole(t, h), s # t
  PROVE  \E c \in DOMAIN sketch.equalities : s \in Related(c) /\ t \in Related(c)
<1>1. /\ NewHole(s).name = NewHole(t).name
      /\ NewHole(s).associated_schedulers = NewHole(t).associated_schedulers
  BY DEF HasHole, HasKey
<1>2. /\ s \in States /\ t \in States /\ sketch \in Sketches
      /\ Cardinality(Constraining(s)) <= 1 /\ Cardinality(Constraining(t)) <= 1
  BY ProcessedStates DEF QuotientInv, HolesInv
<1>3. ASSUME NEW x, NEW n
      PROVE  <<x, x>> # <<n>>
  <2>1. Len(<<x, x>>) = 2 /\ Len(<<n>>) = 1
    OBVIOUS
  <2> QED
    BY <2>1
<1>4. CASE NewHole(s).name = <<s, s>>
  <2>1. CASE NewHole(t).name = <<t, t>>
    <3>1. <<s, s>> = <<t, t>>
      BY <1>1, <1>4, <2>1
    <3> QED
      BY <3>1
  <2>2. \A n : NewHole(t).name # <<n>>
    BY <1>1, <1>3, <1>4
  <2> QED
    BY <1>2, <2>1, <2>2, KeyOfState
<1>5. ASSUME NEW c \in DOMAIN sketch.equalities,
             Constraining(s) = {c},
             NewHole(s).name = <<sketch.equalities[c].name>>,
             NewHole(s).associated_schedulers = sketch.equalities[c].schedulers
      PROVE  \E d \in DOMAIN sketch.equalities : s \in Related(d) /\ t \in Related(d)
  <2>1. NewHole(t).name # <<t, t>>
    BY <1>1, <1>3, <1>5
  <2>2. PICK d \in DOMAIN sketch.equalities :
          /\ Constraining(t) = {d}
          /\ NewHole(t).name = <<sketch.equalities[d].name>>
          /\ NewHole(t).associated_schedulers = sketch.equalities[d].schedulers
    BY <1>2, <2>1, KeyOfState
  <2>3. /\ sketch.equalities[c].name = sketch.equalities[d].name
        /\ sketch.equalities[c].schedulers = sketch.equalities[d].schedulers
    <3>1. <<sketch.equalities[c].name>> = <<sketch.equalities[d].name>>
      BY <1>1, <1>5, <2>2
    <3>2. sketch.equalities[c].name = sketch.equalities[d].name
      BY <3>1
    <3> QED
      BY <1>1, <1>5, <2>2, <3>2
  <2>4. sketch.equalities[c].states = sketch.equalities[d].states
    BY <1>2, <2>3, SketchType
  <2>5. c \in Constraining(t)
    BY <2>2, <2>3, <2>4 DEF Constraining
  <2> QED
    BY <1>2, <1>5, <2>5 DEF Related, Choosing
<1> QED
  BY <1>2, <1>4, <1>5, KeyOfState

LEMMA RelatedShareHole ==
  ASSUME QuotientInv, Processed = States, NEW c \in DOMAIN sketch.equalities,
         NEW s \in Related(c), NEW t \in Related(c),
         NEW h \in DOMAIN holes, HasHole(s, h)
  PROVE  HasHole(t, h)
<1>1. /\ s \in Processed /\ t \in Processed /\ sketch \in Sketches
      /\ Choosing(s) /\ Choosing(t) /\ c \in Constraining(s) /\ c \in Constraining(t)
  BY DEF QuotientInv, Related, Choosing
<1>2. PICK k \in DOMAIN holes : HasHole(t, k)
  BY <1>1 DEF QuotientInv, HolesInv
<1>3. /\ Cardinality(Constraining(s)) <= 1 /\ Cardinality(Constraining(t)) <= 1
      /\ s \in States /\ t \in States
  BY <1>1 DEF QuotientInv, HolesInv
<1>4. ASSUME NEW u \in States, Cardinality(Constraining(u)) <= 1, c \in Constraining(u)
      PROVE  /\ NewHole(u).name = <<sketch.equalities[c].name>>
             /\ NewHole(u).associated_schedulers = sketch.equalities[c].schedulers
  BY <1>1, <1>4, KeyOfState
<1>5. h = k
  BY <1>1, <1>2, <1>3, <1>4 DEF HasHole, HasKey, QuotientInv, KeysInv
<1> QED
  BY <1>2, <1>5

(* The hole of a state with a choice, and the options of its actions.      *)
HoleOf(s) == CHOOSE h \in DOMAIN holes : HasHole(s, h)

OptionLabels(s) == holes[HoleOf(s)].option_labels

IsOptionMap(s, m) ==
  /\ m \in [Actions(s) -> DOMAIN OptionLabels(s)]
  /\ action_to_hole_options[s] = [j \in Actions(s) |-> Entry(HoleOf(s), m[j])]
  /\ \A i, j \in Actions(s) : m[i] = m[j] => i = j
  /\ \A j \in Actions(s) : OptionLabels(s)[m[j]] = sketch.labels[s][j]
  /\ Joined(s, HoleOf(s)) =>
       \A j \in Actions(s) : \A k \in DOMAIN OptionLabels(s) :
         OptionLabels(s)[k] = sketch.labels[s][j] => m[j] <= k

OptionOf(s) == CHOOSE m : IsOptionMap(s, m)

LEMMA HoleAndOptions ==
  ASSUME QuotientInv, NEW s \in Processed, Choosing(s)
  PROVE  /\ HoleOf(s) \in DOMAIN holes
         /\ HasHole(s, HoleOf(s))
         /\ OptionLabels(s) \in Seq(Label)
         /\ IsOptionMap(s, OptionOf(s))
<1>1. HoleOf(s) \in DOMAIN holes /\ HasHole(s, HoleOf(s))
  <2>1. \E h \in DOMAIN holes : HasHole(s, h)
    BY DEF QuotientInv, HolesInv
  <2> QED
    BY <2>1 DEF HoleOf
<1>2. OptionLabels(s) \in Seq(Label)
  <2>1. holes[HoleOf(s)] \in Hole
    BY <1>1 DEF QuotientInv
  <2> QED
    BY <2>1 DEF Hole, OptionLabels
<1>3. \E m : IsOptionMap(s, m)
  <2>1. PICK m \in [Actions(s) -> DOMAIN holes[HoleOf(s)].option_labels] :
           /\ action_to_hole_options[s] = [j \in Actions(s) |-> Entry(HoleOf(s), m[j])]
           /\ \A i, j \in Actions(s) : m[i] = m[j] => i = j
           /\ \A j \in Actions(s) : holes[HoleOf(s)].option_labels[m[j]] = sketch.labels[s][j]
           /\ Joined(s, HoleOf(s)) =>
                \A j \in Actions(s) : \A k \in DOMAIN holes[HoleOf(s)].option_labels :
                  holes[HoleOf(s)].option_labels[k] = sketch.labels[s][j] => m[j] <= k
    BY <1>1, OptionsOfState
  <2>2. IsOptionMap(s, m)
    BY <2>1 DEF IsOptionMap, OptionLabels
  <2> QED
    BY <2>2
<1>4. IsOptionMap(s, OptionOf(s))
  BY <1>3 DEF OptionOf
<1> QED
  BY <1>1, <1>2, <1>4

(* Two states have the same hole if they are related, and only then.       *)
LEMMA SameHole ==
  ASSUME QuotientInv, Processed = States, NEW s \in States, NEW t \in States,
         Choosing(s), Choosing(t), s # t
  PROVE  HoleOf(s) = HoleOf(t)
           <=> \E c \in DOMAIN sketch.equalities : s \in Related(c) /\ t \in Related(c)
<1>1. HasHole(s, HoleOf(s)) /\ HasHole(t, HoleOf(t)) /\ HoleOf(s) \in DOMAIN holes
  BY HoleAndOptions
<1>2. HoleOf(s) = HoleOf(t)
        => \E c \in DOMAIN sketch.equalities : s \in Related(c) /\ t \in Related(c)
  BY <1>1, HoleShared
<1>3. ASSUME NEW c \in DOMAIN sketch.equalities, s \in Related(c), t \in Related(c)
      PROVE  HoleOf(s) = HoleOf(t)
  <2>1. HasHole(t, HoleOf(s))
    BY <1>1, <1>3, RelatedShareHole
  <2> QED
    BY <1>1, <2>1, OneHole
<1> QED
  BY <1>2, <1>3

(* With the same choices in related states, every option is an action of   *)
(* each state of the hole.                                                 *)
LEMMA OptionsOnto ==
  ASSUME QuotientInv, Processed = States, SameChoices, NEW s \in States, Choosing(s),
         NEW o \in DOMAIN OptionLabels(s)
  PROVE  \E j \in Actions(s) : OptionOf(s)[j] = o
<1>1. /\ HoleOf(s) \in DOMAIN holes /\ HasHole(s, HoleOf(s))
      /\ OptionLabels(s) \in Seq(Label)
      /\ IsOptionMap(s, OptionOf(s))
  BY HoleAndOptions
<1>2. PICK t \in States : /\ Choosing(t) /\ HasHole(t, HoleOf(s)) /\ Created(t, HoleOf(s))
  BY <1>1 DEF QuotientInv, CreatorsInv
<1>3. Len(OptionLabels(s)) = Len(sketch.labels[t])
  BY <1>2 DEF Created, OptionLabels
<1>4. Len(sketch.labels[t]) = Len(sketch.labels[s])
  <2>1. CASE s = t
    BY <2>1
  <2>2. CASE s # t
    <3>1. PICK c \in DOMAIN sketch.equalities : s \in Related(c) /\ t \in Related(c)
      BY <1>1, <1>2, <2>2, HoleShared
    <3> QED
      BY <3>1 DEF SameChoices
  <2> QED
    BY <2>1, <2>2
<1>5. Actions(s) = DOMAIN OptionLabels(s)
  <2>1. Actions(s) = 1..Len(sketch.labels[s])
    BY SketchType DEF QuotientInv
  <2>2. DOMAIN OptionLabels(s) = 1..Len(OptionLabels(s))
    BY <1>1
  <2> QED
    BY <1>3, <1>4, <2>1, <2>2
<1>6. IsFiniteSet(DOMAIN OptionLabels(s))
  <2>1. DOMAIN OptionLabels(s) = 1..Len(OptionLabels(s)) /\ Len(OptionLabels(s)) \in Nat
    BY <1>1
  <2> QED
    BY <2>1, FS_Interval
<1>7. OptionOf(s) \in Injection(DOMAIN OptionLabels(s), DOMAIN OptionLabels(s))
  BY <1>1, <1>5 DEF IsOptionMap, Injection, IsInjective
<1>8. OptionOf(s) \in Surjection(DOMAIN OptionLabels(s), DOMAIN OptionLabels(s))
  BY <1>6, <1>7, FS_Injection
<1> QED
  BY <1>5, <1>8 DEF Surjection

(* A hole that several states have tells its options apart by their labels.*)
LEMMA LabelsDistinct ==
  ASSUME QuotientInv, Processed = States, SameChoices, NEW s \in States, NEW t \in States,
         Choosing(s), Choosing(t), s # t, HoleOf(s) = HoleOf(t),
         NEW o \in DOMAIN OptionLabels(s), NEW p \in DOMAIN OptionLabels(s),
         OptionLabels(s)[o] = OptionLabels(s)[p]
  PROVE  o = p
<1>1. PICK u \in States : Choosing(u) /\ HoleOf(u) = HoleOf(s) /\ Joined(u, HoleOf(u))
  <2>1. /\ HasHole(s, HoleOf(s)) /\ HasHole(t, HoleOf(s)) /\ HoleOf(s) \in DOMAIN holes
    BY HoleAndOptions
  <2>2. Joined(s, HoleOf(s)) \/ Joined(t, HoleOf(s))
    BY <2>1 DEF QuotientInv, JoinedInv
  <2> QED
    BY <2>2
<1>2. OptionLabels(u) = OptionLabels(s)
  BY <1>1 DEF OptionLabels
<1>3. IsOptionMap(u, OptionOf(u)) /\ OptionLabels(u) \in Seq(Label)
  BY <1>1, HoleAndOptions
<1>4. PICK i \in Actions(u) : OptionOf(u)[i] = o
  BY <1>1, <1>2, OptionsOnto
<1>5. PICK j \in Actions(u) : OptionOf(u)[j] = p
  BY <1>1, <1>2, OptionsOnto
<1>6. o <= p /\ p <= o
  BY <1>1, <1>2, <1>3, <1>4, <1>5 DEF IsOptionMap
<1>7. o \in Nat /\ p \in Nat
  BY <1>2, <1>3
<1> QED
  BY <1>6, <1>7

LEMMA DesignSpaceMembers ==
  ASSUME NEW a
  PROVE  a \in FamilyMembers(DesignSpaceOf(holes))
           <=> /\ a = [h \in DOMAIN holes |-> a[h]]
               /\ \A h \in DOMAIN holes : a[h] \in DOMAIN holes[h].option_labels
<1> DEFINE F == DesignSpaceOf(holes)
<1>1. DOMAIN F = DOMAIN holes /\ \A h \in DOMAIN holes : F[h] = DOMAIN holes[h].option_labels
  BY DEF DesignSpaceOf
<1> HIDE DEF F
<1>2. a \in FamilyMembers(F)
        <=> /\ a \in [DOMAIN F -> UNION {F[h] : h \in DOMAIN F}]
            /\ \A h \in DOMAIN F : a[h] \in F[h]
  BY DEF FamilyMembers
<1>3. ASSUME a = [h \in DOMAIN F |-> a[h]], \A h \in DOMAIN F : a[h] \in F[h]
      PROVE  a \in [DOMAIN F -> UNION {F[h] : h \in DOMAIN F}]
  <2>1. \A h \in DOMAIN F : a[h] \in UNION {F[k] : k \in DOMAIN F}
    BY <1>3
  <2> QED
    BY <1>3, <2>1
<1>4. a \in FamilyMembers(F)
        <=> /\ a = [h \in DOMAIN F |-> a[h]]
            /\ \A h \in DOMAIN F : a[h] \in F[h]
  BY <1>2, <1>3
<1> QED
  BY <1>1, <1>4 DEF F

(* The actions an assignment chooses in a state, and its policy.           *)
ChosenActions(a, s) == {j \in Actions(s) : <<s, j>> \in ChainActions(a)}

PolicyOf(a) == [s \in States |-> CHOOSE j \in ChosenActions(a, s) : TRUE]

LEMMA ChosenInChain ==
  ASSUME QuotientInv, Processed = States, NEW a \in FamilyMembers(DesignSpaceOf(holes)),
         NEW s \in States, NEW j \in Actions(s)
  PROVE  j \in ChosenActions(a, s)
           <=> (Choosing(s) => OptionOf(s)[j] = a[HoleOf(s)])
<1>1. <<s, j>> \in AllActions
  BY DEF AllActions
<1>2. Entries(<<s, j>>) = action_to_hole_options[s][j]
  BY DEF Entries
<1>3. j \in ChosenActions(a, s) <=> Includes(Singletons(a), action_to_hole_options[s][j])
  <2>1. action_to_hole_options[s][j] = {} => Includes(Singletons(a), action_to_hole_options[s][j])
    BY DEF Includes
  <2> QED
    BY <1>1, <1>2, <2>1 DEF ChosenActions, ChainActions, default_actions, select_actions
<1>4. CASE ~ Choosing(s)
  <2>1. action_to_hole_options[s][j] = {}
    BY <1>4, NoChoice
  <2> QED
    BY <1>3, <1>4, <2>1 DEF Includes
<1>5. CASE Choosing(s)
  <2>1. HoleOf(s) \in DOMAIN holes /\ IsOptionMap(s, OptionOf(s))
    BY <1>5, HoleAndOptions
  <2>2. action_to_hole_options[s][j] = {[hole |-> HoleOf(s), option |-> OptionOf(s)[j]]}
    BY <2>1 DEF IsOptionMap, Entry
  <2>3. DOMAIN a = DOMAIN holes
    BY DesignSpaceMembers
  <2>4. Includes(Singletons(a), action_to_hole_options[s][j]) <=> OptionOf(s)[j] = a[HoleOf(s)]
    BY <2>1, <2>2, <2>3 DEF Includes, Singletons
  <2> QED
    BY <1>3, <1>5, <2>4
<1> QED
  BY <1>4, <1>5

LEMMA OneChosen ==
  ASSUME QuotientInv, Processed = States, SameChoices,
         NEW a \in FamilyMembers(DesignSpaceOf(holes)), NEW s \in States
  PROVE  /\ PolicyOf(a)[s] \in Actions(s)
         /\ ChosenActions(a, s) = {PolicyOf(a)[s]}
<1>1. PICK j \in Actions(s) : j \in ChosenActions(a, s)
  <2>1. CASE ~ Choosing(s)
    <3>1. 1 \in Actions(s)
      BY FirstAction DEF QuotientInv
    <3> QED
      BY <2>1, <3>1, ChosenInChain
  <2>2. CASE Choosing(s)
    <3>1. a[HoleOf(s)] \in DOMAIN OptionLabels(s)
      BY <2>2, HoleAndOptions, DesignSpaceMembers DEF OptionLabels
    <3>2. PICK j \in Actions(s) : OptionOf(s)[j] = a[HoleOf(s)]
      BY <2>2, <3>1, OptionsOnto
    <3> QED
      BY <3>2, ChosenInChain
  <2> QED
    BY <2>1, <2>2
<1>2. ASSUME NEW k \in ChosenActions(a, s)
      PROVE  k = j
  <2>1. k \in Actions(s)
    BY DEF ChosenActions
  <2>2. CASE ~ Choosing(s)
    BY <1>1, <2>1, <2>2, NoChoice
  <2>3. CASE Choosing(s)
    <3>1. OptionOf(s)[k] = OptionOf(s)[j]
      BY <1>1, <2>1, <2>3, ChosenInChain
    <3> QED
      BY <2>1, <2>3, <3>1, HoleAndOptions DEF IsOptionMap
  <2> QED
    BY <2>2, <2>3
<1>3. ChosenActions(a, s) = {j}
  BY <1>1, <1>2
<1>4. PolicyOf(a)[s] = j
  BY <1>3 DEF PolicyOf
<1> QED
  BY <1>3, <1>4

LEMMA LabelOfOption ==
  ASSUME QuotientInv, NEW s \in Processed, Choosing(s), NEW j \in Actions(s)
  PROVE  /\ OptionOf(s)[j] \in DOMAIN OptionLabels(s)
         /\ OptionLabels(s)[OptionOf(s)[j]] = sketch.labels[s][j]
<1>1. IsOptionMap(s, OptionOf(s))
  BY HoleAndOptions
<1> QED
  BY <1>1 DEF IsOptionMap

LEMMA PolicyOfIsPolicy ==
  ASSUME QuotientInv, Processed = States, SameChoices,
         NEW a \in FamilyMembers(DesignSpaceOf(holes))
  PROVE  PolicyOf(a) \in Policies
<1>1. \A s \in States : PolicyOf(a)[s] \in Actions(s)
  BY OneChosen
<1>2. PolicyOf(a) \in [States -> UNION {Actions(s) : s \in States}]
  <2>1. \A s \in States : PolicyOf(a)[s] \in UNION {Actions(t) : t \in States}
    BY <1>1
  <2> QED
    BY <2>1 DEF PolicyOf
<1>3. ASSUME NEW c \in DOMAIN sketch.equalities, NEW s \in Related(c), NEW t \in Related(c)
      PROVE  sketch.labels[s][PolicyOf(a)[s]] = sketch.labels[t][PolicyOf(a)[t]]
  <2>1. s \in States /\ t \in States /\ Choosing(s) /\ Choosing(t)
    BY DEF Related, Choosing
  <2>2. HoleOf(s) = HoleOf(t)
    BY <2>1, SameHole
  <2>3. ASSUME NEW u \in States, Choosing(u)
        PROVE  sketch.labels[u][PolicyOf(a)[u]] = OptionLabels(u)[a[HoleOf(u)]]
    <3>1. PolicyOf(a)[u] \in Actions(u) /\ PolicyOf(a)[u] \in ChosenActions(a, u)
      BY OneChosen
    <3>2. OptionOf(u)[PolicyOf(a)[u]] = a[HoleOf(u)]
      BY <2>3, <3>1, ChosenInChain
    <3> QED
      BY <2>3, <3>1, <3>2, LabelOfOption
  <2> QED
    BY <2>1, <2>2, <2>3 DEF OptionLabels
<1> QED
  BY <1>1, <1>2, <1>3 DEF Policies

(* The state that created a hole decides which option a policy takes.      *)
LEMMA PolicyHasAssignment ==
  ASSUME QuotientInv, Processed = States, SameChoices, NEW f \in Policies
  PROVE  \E a \in FamilyMembers(DesignSpaceOf(holes)) : PolicyOf(a) = f
<1> DEFINE Creator(h) == CHOOSE s \in States : Choosing(s) /\ HoleOf(s) = h
           a == [h \in DOMAIN holes |-> OptionOf(Creator(h))[f[Creator(h)]]]
<1>1. ASSUME NEW h \in DOMAIN holes
      PROVE  Creator(h) \in States /\ Choosing(Creator(h)) /\ HoleOf(Creator(h)) = h
  <2>1. PICK s \in States : Choosing(s) /\ HasHole(s, h)
    BY DEF QuotientInv, CreatorsInv
  <2>2. HoleOf(s) = h
    BY <2>1, HoleAndOptions, OneHole
  <2> QED
    BY <2>1, <2>2
<1>2. f \in [States -> UNION {Actions(s) : s \in States}] /\ \A s \in States : f[s] \in Actions(s)
  BY DEF Policies
<1>3. a \in FamilyMembers(DesignSpaceOf(holes))
  <2>1. ASSUME NEW h \in DOMAIN holes
        PROVE  a[h] \in DOMAIN holes[h].option_labels
    <3>1. a[h] = OptionOf(Creator(h))[f[Creator(h)]]
      OBVIOUS
    <3>2. IsOptionMap(Creator(h), OptionOf(Creator(h))) /\ f[Creator(h)] \in Actions(Creator(h))
      BY <1>1, <1>2, HoleAndOptions
    <3> HIDE DEF a, Creator
    <3> QED
      BY <1>1, <3>1, <3>2 DEF IsOptionMap, OptionLabels
  <2>2. a = [h \in DOMAIN holes |-> a[h]]
    OBVIOUS
  <2> HIDE DEF a
  <2> QED
    BY <2>1, <2>2, DesignSpaceMembers
<1>4. ASSUME NEW s \in States
      PROVE  PolicyOf(a)[s] = f[s]
  <2>1. f[s] \in ChosenActions(a, s)
    <3>1. CASE ~ Choosing(s)
      <4> HIDE DEF a
      <4> QED
        BY <1>2, <1>3, <3>1, ChosenInChain
    <3>2. CASE Choosing(s)
      <4>1. PICK h \in DOMAIN holes : h = HoleOf(s)
        BY <3>2, HoleAndOptions
      <4>2. PICK t \in States : t = Creator(h) /\ Choosing(t) /\ HoleOf(t) = h
        BY <1>1
      <4>3. a[h] = OptionOf(t)[f[t]]
        BY <4>2
      <4> HIDE DEF a, Creator
      <4>4. OptionOf(s)[f[s]] = a[HoleOf(s)]
        <5>1. CASE s = t
          BY <4>1, <4>3, <5>1
        <5>2. CASE s # t
          <6>1. PICK c \in DOMAIN sketch.equalities : s \in Related(c) /\ t \in Related(c)
            BY <3>2, <4>1, <4>2, <5>2, SameHole
          <6>2. sketch.labels[s][f[s]] = sketch.labels[t][f[t]]
            BY <6>1 DEF Policies
          <6>3. OptionLabels(s) = OptionLabels(t)
            BY <4>1, <4>2 DEF OptionLabels
          <6>4. /\ OptionOf(s)[f[s]] \in DOMAIN OptionLabels(s)
                /\ OptionOf(t)[f[t]] \in DOMAIN OptionLabels(s)
                /\ OptionLabels(s)[OptionOf(s)[f[s]]] = OptionLabels(s)[OptionOf(t)[f[t]]]
            <7>1. f[s] \in Actions(s) /\ f[t] \in Actions(t)
              BY <1>2
            <7> QED
              BY <3>2, <4>2, <6>2, <6>3, <7>1, LabelOfOption
          <6>5. OptionOf(s)[f[s]] = OptionOf(t)[f[t]]
            BY <3>2, <4>1, <4>2, <5>2, <6>4, LabelsDistinct
          <6> QED
            BY <4>1, <4>3, <6>5
        <5> QED
          BY <5>1, <5>2
      <4> QED
        BY <1>2, <1>3, <4>4, ChosenInChain
    <3> QED
      BY <3>1, <3>2
  <2> HIDE DEF a
  <2>2. ChosenActions(a, s) = {PolicyOf(a)[s]}
    BY <1>3, OneChosen
  <2> QED
    BY <2>1, <2>2
<1>5. PolicyOf(a) = f
  <2> HIDE DEF a
  <2> QED
    BY <1>2, <1>4 DEF PolicyOf
<1> QED
  BY <1>3, <1>5

LEMMA InvImpliesPolicies ==
  ASSUME QuotientInv, Processed = States
  PROVE  HolesArePolicies
<1> SUFFICES ASSUME SameChoices
             PROVE  /\ \A a \in FamilyMembers(DesignSpaceOf(holes)) : \A s \in States :
                         Cardinality(ChosenActions(a, s)) = 1
                    /\ {PolicyOf(a) : a \in FamilyMembers(DesignSpaceOf(holes))} = Policies
  BY DEF HolesArePolicies, ChosenActions, PolicyOf
<1>1. ASSUME NEW a \in FamilyMembers(DesignSpaceOf(holes)), NEW s \in States
      PROVE  Cardinality(ChosenActions(a, s)) = 1
  <2>1. ChosenActions(a, s) = {PolicyOf(a)[s]}
    BY OneChosen
  <2> QED
    BY <2>1, FS_Singleton
<1>2. {PolicyOf(a) : a \in FamilyMembers(DesignSpaceOf(holes))} = Policies
  BY PolicyOfIsPolicy, PolicyHasAssignment
<1> QED
  BY <1>1, <1>2

-----------------------------------------------------------------------------
(* The lines of properties: what is made of a line by an instantiation is  *)
(* a line of properties again.                                             *)
LEMMA SetAsSequence ==
  ASSUME NEW S, IsFiniteSet(S)
  PROVE  SetToSeq(S) \in Seq(S)
<1>1. PICK f : f \in Bijection(1..Cardinality(S), S)
  BY FS_CardinalityType DEF ExistsBijection
<1>2. f \in [1..Cardinality(S) -> S] /\ IsInjective(f)
  BY <1>1 DEF Bijection, Injection
<1>3. SetToSeq(S) \in [1..Cardinality(S) -> S]
  BY <1>2 DEF SetToSeq
<1>4. Cardinality(S) \in Nat
  BY FS_CardinalityType
<1> QED
  BY <1>3, <1>4

LEMMA SequenceMembers ==
  ASSUME NEW S, IsFiniteSet(S)
  PROVE  ToSet(SetToSeq(S)) = S
<1> DEFINE n == Cardinality(S)
<1>1. PICK f : f \in Bijection(1..n, S)
  BY FS_CardinalityType DEF ExistsBijection
<1>2. f \in [1..n -> S] /\ IsInjective(f)
  BY <1>1 DEF Bijection, Injection
<1>3. SetToSeq(S) \in [1..n -> S] /\ IsInjective(SetToSeq(S))
  BY <1>2 DEF SetToSeq
<1>4. n \in Nat
  BY FS_CardinalityType
<1>5. SetToSeq(S) \in Injection(1..n, S)
  BY <1>3 DEF Injection
<1>6. Cardinality(1..n) = n
  <2> HIDE DEF n
  <2>1. Cardinality(1..n) = IF 1 > n THEN 0 ELSE n - 1 + 1
    BY <1>4, FS_Interval
  <2> QED
    BY <1>4, <2>1
<1>7. SetToSeq(S) \in Surjection(1..n, S)
  BY <1>5, <1>6, FS_Injection
<1> HIDE DEF n
<1>8. DOMAIN SetToSeq(S) = 1..n /\ \A e : e \in S <=> \E i \in 1..n : SetToSeq(S)[i] = e
  BY <1>3, <1>7 DEF Surjection
<1> QED
  BY <1>8 DEF ToSet

(* FlattenSeq, from the first sequence to the last.                        *)
LEMMA FlattenAt ==
  ASSUME NEW S, NEW seqs \in Seq(Seq(S)), Len(seqs) # 0
  PROVE  \E g : /\ FlattenSeq(seqs) = g[Len(seqs)]
                /\ \A i \in 1..Len(seqs) : g[i] = IF i = 1 THEN seqs[i] ELSE g[i-1] \o seqs[i]
<1> DEFINE N == Len(seqs)
           IsFlatten(g, n) ==
             g = [i \in 1..n |-> IF i = 1 THEN seqs[i] ELSE g[i-1] \o seqs[i]]
           flatten == CHOOSE g : g = [i \in 1..N |-> IF i = 1 THEN seqs[i] ELSE g[i-1] \o seqs[i]]
<1>1. N \in Nat /\ \A i \in 1..N : seqs[i] \in Seq(S)
  OBVIOUS
<1>2. \A n \in 0..N : \E g : IsFlatten(g, n)
  <2> DEFINE B == {n \in 0..N : ~ \E g : IsFlatten(g, n)}
  <2>1. SUFFICES ASSUME B # {}
                 PROVE  FALSE
    OBVIOUS
  <2>2. B \in SUBSET Nat
    <3> HIDE DEF IsFlatten, N
    <3> QED
      BY <1>1
  <2>3. PICK m \in B : \A k \in B : m <= k
    BY <2>1, <2>2, LeastNatural
  <2>4. m # 0
    <3>1. IsFlatten(<< >>, 0)
      OBVIOUS
    <3> QED
      BY <3>1
  <2>5. m \in 1..N /\ m - 1 \in 0..N /\ m - 1 \notin B
    <3>1. m \in 0..N /\ m \in Nat
      BY <1>1, <2>3
    <3> HIDE DEF B, N
    <3>2. m \in 1..N /\ m - 1 \in 0..N /\ m - 1 \in Nat /\ m - 1 < m
      BY <1>1, <2>4, <3>1
    <3>3. m - 1 \notin B
      BY <2>3, <3>1, <3>2
    <3> QED
      BY <3>2, <3>3
  <2>6. PICK g : IsFlatten(g, m - 1)
    BY <2>5
  <2> DEFINE h == [i \in 1..m |-> IF i = m THEN IF i = 1 THEN seqs[i] ELSE g[i-1] \o seqs[i]
                                 ELSE g[i]]
  <2>7. ASSUME NEW i \in 1..m
        PROVE  h[i] = IF i = 1 THEN seqs[i] ELSE h[i-1] \o seqs[i]
    <3>1. CASE i = m
      <4>1. i # 1 => h[i-1] = g[i-1]
        BY <2>5, <3>1
      <4> QED
        BY <3>1, <4>1
    <3>2. CASE i # m
      <4>1. i \in 1..(m - 1) /\ h[i] = g[i]
        BY <2>5, <3>2
      <4>2. g[i] = IF i = 1 THEN seqs[i] ELSE g[i-1] \o seqs[i]
        BY <2>6, <4>1
      <4>3. i # 1 => h[i-1] = g[i-1]
        BY <2>5, <4>1
      <4> QED
        BY <4>1, <4>2, <4>3
    <3> QED
      BY <3>1, <3>2
  <2>8. IsFlatten(h, m)
    <3>1. DOMAIN h = 1..m /\ h = [i \in 1..m |-> h[i]]
      OBVIOUS
    <3> HIDE DEF h
    <3> QED
      BY <2>7, <3>1
  <2> QED
    BY <2>3, <2>8
<1>3. IsFlatten(flatten, N)
  <2>1. \E g : IsFlatten(g, N)
    <3>1. N \in 0..N
      BY <1>1
    <3> HIDE DEF IsFlatten, N
    <3> QED
      BY <1>2, <3>1
  <2>2. flatten = CHOOSE g : IsFlatten(g, N)
    OBVIOUS
  <2> HIDE DEF IsFlatten, flatten
  <2> QED
    BY <2>1, <2>2
<1>4. FlattenSeq(seqs) = IF N = 0 THEN seqs ELSE flatten[N]
  BY DEF FlattenSeq
<1>5. \A i \in 1..N : flatten[i] = IF i = 1 THEN seqs[i] ELSE flatten[i-1] \o seqs[i]
  <2> HIDE DEF flatten
  <2> QED
    BY <1>3
<1> HIDE DEF flatten
<1> QED
  BY <1>4, <1>5

LEMMA FlattenType ==
  ASSUME NEW S, NEW seqs \in Seq(Seq(S))
  PROVE  FlattenSeq(seqs) \in Seq(S)
<1> DEFINE N == Len(seqs)
<1>1. N \in Nat /\ \A i \in 1..N : seqs[i] \in Seq(S)
  OBVIOUS
<1>2. CASE N = 0
  <2>1. seqs = << >>
    BY <1>2, EmptySeq
  <2>2. FlattenSeq(seqs) = seqs
    BY <1>2 DEF FlattenSeq
  <2>3. << >> \in Seq(S)
    OBVIOUS
  <2> QED
    BY ONLY <2>1, <2>2, <2>3
<1>3. CASE N # 0
  <2>0. PICK flatten : /\ FlattenSeq(seqs) = flatten[N]
                       /\ \A i \in 1..N : flatten[i] = IF i = 1 THEN seqs[i] ELSE flatten[i-1] \o seqs[i]
    BY <1>3, FlattenAt
  <2> DEFINE B == {i \in 1..N : flatten[i] \notin Seq(S)}
  <2>1. SUFFICES ASSUME B # {}
                 PROVE  FALSE
    <3>1. N \in 1..N
      BY <1>1, <1>3
    <3>2. B = {} => flatten[N] \in Seq(S)
      BY <3>1
    <3> HIDE DEF B
    <3> QED
      BY <2>0, <3>2
  <2>2. B \in SUBSET Nat
    BY <1>1
  <2>3. PICK m \in B : \A k \in B : m <= k
    BY <2>1, <2>2, LeastNatural
  <2>4. flatten[m] = IF m = 1 THEN seqs[m] ELSE flatten[m-1] \o seqs[m]
    BY <2>0, <2>3
  <2>5. CASE m = 1
    BY <1>1, <2>3, <2>4, <2>5
  <2>6. CASE m # 1
    <3>1. m - 1 \in 1..N /\ m - 1 \notin B
      BY <1>1, <2>3, <2>6
    <3>2. flatten[m-1] \in Seq(S) /\ seqs[m] \in Seq(S)
      BY <1>1, <2>3, <3>1
    <3>3. flatten[m-1] \o seqs[m] \in Seq(S)
      BY <3>2
    <3>4. flatten[m] \in Seq(S)
      BY <2>4, <2>6, <3>3
    <3> QED
      BY <2>3, <3>4
  <2> QED
    BY <2>5, <2>6
<1> QED
  BY <1>2, <1>3

(* A member of the sequences put together is a member of one of them.      *)
LEMMA ConcatMembers ==
  ASSUME NEW S, NEW s \in Seq(S), NEW t \in Seq(S), NEW e
  PROVE  e \in ToSet(s \o t) <=> e \in ToSet(s) \/ e \in ToSet(t)
<1>1. /\ DOMAIN s = 1..Len(s) /\ DOMAIN t = 1..Len(t) /\ Len(s) \in Nat /\ Len(t) \in Nat
      /\ DOMAIN (s \o t) = 1..(Len(s) + Len(t))
      /\ \A i \in 1..(Len(s) + Len(t)) : (s \o t)[i] = IF i <= Len(s) THEN s[i] ELSE t[i - Len(s)]
  OBVIOUS
<1>2. ASSUME e \in ToSet(s \o t)
      PROVE  e \in ToSet(s) \/ e \in ToSet(t)
  <2>1. PICK i \in 1..(Len(s) + Len(t)) : e = (s \o t)[i]
    BY <1>1, <1>2 DEF ToSet
  <2>2. CASE i <= Len(s)
    BY <1>1, <2>1, <2>2 DEF ToSet
  <2>3. CASE ~ i <= Len(s)
    <3>1. i - Len(s) \in 1..Len(t) /\ e = t[i - Len(s)]
      BY <1>1, <2>1, <2>3
    <3> QED
      BY <1>1, <3>1 DEF ToSet
  <2> QED
    BY <2>2, <2>3
<1>3. ASSUME e \in ToSet(s)
      PROVE  e \in ToSet(s \o t)
  <2>1. PICK i \in 1..Len(s) : e = s[i]
    BY <1>1, <1>3 DEF ToSet
  <2>2. i \in 1..(Len(s) + Len(t)) /\ (s \o t)[i] = e
    BY <1>1, <2>1
  <2> QED
    BY <1>1, <2>2 DEF ToSet
<1>4. ASSUME e \in ToSet(t)
      PROVE  e \in ToSet(s \o t)
  <2>1. PICK i \in 1..Len(t) : e = t[i]
    BY <1>1, <1>4 DEF ToSet
  <2>2. Len(s) + i \in 1..(Len(s) + Len(t)) /\ (s \o t)[Len(s) + i] = e
    BY <1>1, <2>1
  <2> QED
    BY <1>1, <2>2 DEF ToSet
<1> QED
  BY <1>2, <1>3, <1>4

LEMMA FlattenMembers ==
  ASSUME NEW S, NEW seqs \in Seq(Seq(S)), NEW e
  PROVE  e \in ToSet(FlattenSeq(seqs)) <=> \E i \in DOMAIN seqs : e \in ToSet(seqs[i])
<1> DEFINE N == Len(seqs)
<1>1. N \in Nat /\ DOMAIN seqs = 1..N /\ \A i \in 1..N : seqs[i] \in Seq(S)
  OBVIOUS
<1>2. CASE N = 0
  <2>1. FlattenSeq(seqs) = seqs
    BY <1>2 DEF FlattenSeq
  <2>2. DOMAIN seqs = {}
    BY <1>1, <1>2
  <2> QED
    BY <2>1, <2>2 DEF ToSet
<1>3. CASE N # 0
  <2>1. PICK g : /\ FlattenSeq(seqs) = g[N]
                 /\ \A i \in 1..N : g[i] = IF i = 1 THEN seqs[i] ELSE g[i-1] \o seqs[i]
    BY <1>3, FlattenAt
  <2> DEFINE Holds(n) == /\ g[n] \in Seq(S)
                         /\ e \in ToSet(g[n]) <=> \E i \in 1..n : e \in ToSet(seqs[i])
             B == {n \in 1..N : ~ Holds(n)}
  <2>2. SUFFICES ASSUME B # {}
                 PROVE  FALSE
    <3>1. N \in 1..N
      BY <1>1, <1>3
    <3>2. B = {} => Holds(N)
      BY <3>1
    <3> QED
      BY <1>1, <2>1, <3>2
  <2>3. B \in SUBSET Nat
    BY <1>1
  <2>4. PICK m \in B : \A k \in B : m <= k
    BY <2>2, <2>3, LeastNatural
  <2>5. m \in 1..N /\ m \in Nat /\ ~ Holds(m)
    BY <1>1, <2>4
  <2>6. g[m] = IF m = 1 THEN seqs[m] ELSE g[m-1] \o seqs[m]
    BY <2>1, <2>5
  <2>7. CASE m = 1
    <3>1. g[m] = seqs[m] /\ seqs[m] \in Seq(S)
      BY <1>1, <2>5, <2>6, <2>7
    <3>2. \A i \in 1..m : i = m
      BY <2>7
    <3> QED
      BY <2>5, <2>7, <3>1, <3>2
  <2>8. CASE m # 1
    <3>1. m - 1 \in 1..N /\ m - 1 \in Nat /\ m - 1 < m
      BY <1>1, <2>5, <2>8
    <3>2. Holds(m - 1)
      <4> HIDE DEF Holds
      <4>1. m - 1 \in 1..N /\ ~ Holds(m - 1) => m - 1 \in B
        OBVIOUS
      <4> HIDE DEF B
      <4> QED
        BY <2>4, <2>5, <3>1, <4>1
    <3>3. seqs[m] \in Seq(S) /\ g[m] = g[m-1] \o seqs[m]
      BY <1>1, <2>5, <2>6, <2>8
    <3>4. g[m] \in Seq(S)
      BY <3>2, <3>3
    <3>5. e \in ToSet(g[m]) <=> e \in ToSet(g[m-1]) \/ e \in ToSet(seqs[m])
      BY <3>2, <3>3, ConcatMembers
    <3>6. \A i : i \in 1..m <=> i \in 1..(m - 1) \/ i = m
      BY <2>5, <2>8
    <3> QED
      BY <2>5, <3>2, <3>4, <3>5, <3>6
  <2> QED
    BY <2>7, <2>8
<1> QED
  BY <1>2, <1>3

LEMMA InstanceType ==
  ASSUME NEW p \in Property, NEW x, NEW s \in InitialState
  PROVE  Instantiate(p, x, s) \in Property
BY DEF Instantiate, Property

LEMMA SpreadType ==
  ASSUME NEW props \in Seq(Property)
  PROVE  Spread(props) \in Seq(Property)
<1> DEFINE I == {i \in 1..Len(props) : props[i] # NoProperty}
           first == SelectInSeq(props, LAMBDA p : p # NoProperty)
<1>1. first = IF I # {} THEN Min(I) ELSE 0
  BY DEF SelectInSeq
<1>2. CASE I = {}
  <2>1. Spread(props) = <<NoProperty>>
    BY <1>1, <1>2 DEF Spread
  <2>2. NoProperty \in Property
    BY DEF NoProperty, Property
  <2> QED
    BY <2>1, <2>2
<1>3. CASE I # {}
  <2>1. I \in SUBSET Nat
    OBVIOUS
  <2>2. \E n \in I : \A k \in I : n <= k
    <3> HIDE DEF I
    <3> QED
      BY <1>3, <2>1, LeastNatural
  <2>3. Min(I) \in I
    BY <2>2 DEF Min
  <2>4. first \in 1..Len(props)
    BY <1>1, <1>3, <2>3
  <2>5. Spread(props) = SubSeq(props, first, Len(props))
    <3>1. Spread(props) = IF first = 0 THEN <<NoProperty>> ELSE SubSeq(props, first, Len(props))
      BY DEF Spread
    <3> HIDE DEF first
    <3> QED
      BY <2>4, <3>1
  <2> HIDE DEF first
  <2> QED
    BY <2>4, <2>5
<1> QED
  BY <1>2, <1>3

(* The lines that are made: Spread drops empty properties only.            *)
LEMMA SpreadMembers ==
  ASSUME NEW props \in Seq(Property), NEW r, r # NoProperty
  PROVE  r \in ToSet(Spread(props)) <=> r \in ToSet(props)
<1> DEFINE I == {i \in 1..Len(props) : props[i] # NoProperty}
           first == SelectInSeq(props, LAMBDA p : p # NoProperty)
<1>0. Len(props) \in Nat /\ DOMAIN props = 1..Len(props)
  OBVIOUS
<1>1. first = IF I # {} THEN Min(I) ELSE 0
  BY DEF SelectInSeq
<1>2. r \in ToSet(props) <=> \E i \in I : r = props[i]
  BY <1>0 DEF ToSet
<1>3. CASE I = {}
  <2>1. Spread(props) = <<NoProperty>>
    BY <1>1, <1>3 DEF Spread
  <2>2. r \notin ToSet(<<NoProperty>>)
    BY DEF ToSet
  <2> QED
    BY <1>2, <1>3, <2>1, <2>2
<1>4. CASE I # {}
  <2>1. I \in SUBSET Nat
    OBVIOUS
  <2>2. \E n \in I : \A k \in I : n <= k
    <3> HIDE DEF I
    <3> QED
      BY <1>4, <2>1, LeastNatural
  <2>3. Min(I) \in I /\ \A k \in I : Min(I) <= k
    BY <2>2 DEF Min
  <2>4. first \in 1..Len(props) /\ \A k \in I : first <= k
    BY <1>1, <1>4, <2>3
  <2>5. Spread(props) = SubSeq(props, first, Len(props))
    <3>1. Spread(props) = IF first = 0 THEN <<NoProperty>> ELSE SubSeq(props, first, Len(props))
      BY DEF Spread
    <3> HIDE DEF first
    <3> QED
      BY <2>4, <3>1
  <2> HIDE DEF first
  <2> DEFINE rest == SubSeq(props, first, Len(props))
             n == Len(props) - first + 1
  <2>6. /\ n \in Nat /\ DOMAIN rest = 1..n
        /\ \A i \in 1..n : rest[i] = props[i + first - 1]
    BY <1>0, <2>4
  <2> HIDE DEF rest
  <2>7. ASSUME NEW i \in I, r = props[i]
        PROVE  r \in ToSet(rest)
    <3>1. i \in 1..Len(props) /\ first <= i
      BY <2>4
    <3>2. i - first + 1 \in 1..n /\ (i - first + 1) + first - 1 = i
      BY <1>0, <2>4, <3>1
    <3> HIDE DEF n
    <3>3. rest[i - first + 1] = r
      BY <2>6, <2>7, <3>2
    <3> QED
      BY <2>6, <3>2, <3>3 DEF ToSet
  <2>8. ASSUME r \in ToSet(rest)
        PROVE  r \in ToSet(props)
    <3>1. PICK i \in 1..n : r = rest[i]
      BY <2>6, <2>8 DEF ToSet
    <3>2. i + first - 1 \in 1..Len(props)
      BY <1>0, <2>4
    <3>3. r = props[i + first - 1]
      BY <2>6, <3>1
    <3> QED
      BY <1>0, <3>2, <3>3 DEF ToSet
  <2> HIDE DEF n, I
  <2>9. r \in ToSet(rest) <=> r \in ToSet(props)
    BY <1>2, <2>7, <2>8
  <2> QED
    BY <2>5, <2>9 DEF rest
<1> QED
  BY <1>3, <1>4

(* The instances of a property for a variable over some states.            *)
InstancesOf(p, x, S) ==
  IF Mentions(p, x) THEN {Instantiate(p, x, s) : s \in Fresh({p}, S)} ELSE {p}

(* What grow_horizontally puts in the place of a property.                 *)
ReplacedBy(p, x, S) ==
  IF ~ Mentions(p, x) THEN <<p>>
  ELSE IF {Instantiate(p, x, s) : s \in Fresh({p}, S)} = {} THEN <<NoProperty>>
  ELSE SetToSeq({Instantiate(p, x, s) : s \in Fresh({p}, S)})

LEMMA ReplacedMembers ==
  ASSUME NEW p \in Property, NEW x, NEW S \in SUBSET InitialState
  PROVE  /\ ReplacedBy(p, x, S) \in Seq(Property)
         /\ \A r : r # NoProperty => (r \in ToSet(ReplacedBy(p, x, S)) <=> r \in InstancesOf(p, x, S))
<1> DEFINE insts == {Instantiate(p, x, s) : s \in Fresh({p}, S)}
<1>1. Fresh({p}, S) \subseteq InitialState /\ IsFiniteSet(Fresh({p}, S))
  <2>1. Fresh({p}, S) \subseteq InitialState
    BY DEF Fresh
  <2> QED
    BY <2>1, FormulasAssumption, FS_Subset
<1>2. insts \subseteq Property
  BY <1>1, InstanceType
<1>3. IsFiniteSet(insts)
  <2> DEFINE f == [s \in Fresh({p}, S) |-> Instantiate(p, x, s)]
  <2>1. f \in Surjection(Fresh({p}, S), insts)
    BY DEF Surjection
  <2> HIDE DEF f
  <2> QED
    BY <1>1, <2>1, FS_Surjection
<1>4. /\ ReplacedBy(p, x, S) = IF ~ Mentions(p, x) THEN <<p>>
                               ELSE IF insts = {} THEN <<NoProperty>> ELSE SetToSeq(insts)
      /\ InstancesOf(p, x, S) = IF Mentions(p, x) THEN insts ELSE {p}
  BY DEF ReplacedBy, InstancesOf
<1> HIDE DEF insts
<1>5. SetToSeq(insts) \in Seq(Property) /\ ToSet(SetToSeq(insts)) = insts
  <2>1. SetToSeq(insts) \in Seq(insts)
    BY <1>3, SetAsSequence
  <2>2. SetToSeq(insts) \in Seq(Property)
    BY <1>2, <2>1
  <2> QED
    BY <1>3, <2>2, SequenceMembers
<1>6. NoProperty \in Property /\ \A q \in Property : <<q>> \in Seq(Property) /\ ToSet(<<q>>) = {q}
  <2>1. NoProperty \in Property
    BY DEF NoProperty, Property
  <2>2. \A q \in Property : <<q>> \in Seq(Property)
    OBVIOUS
  <2>3. \A q \in Property : ToSet(<<q>>) = {q}
    BY DEF ToSet
  <2> QED
    BY <2>1, <2>2, <2>3
<1>7. CASE ~ Mentions(p, x)
  BY <1>4, <1>6, <1>7
<1>8. CASE Mentions(p, x) /\ insts = {}
  BY <1>4, <1>6, <1>8
<1>9. CASE Mentions(p, x) /\ insts # {}
  BY <1>4, <1>5, <1>9
<1> QED
  BY <1>7, <1>8, <1>9

LEMMA HorizontalType ==
  ASSUME NEW line \in Seq(Property), NEW x, NEW S \in SUBSET InitialState
  PROVE  grow_horizontally(line, x, S) \in Seq(Property)
<1> DEFINE replaced == [k \in DOMAIN line |-> ReplacedBy(line[k], x, S)]
<1>1. grow_horizontally(line, x, S) = Spread(FlattenSeq(replaced))
  BY DEF grow_horizontally, ReplacedBy
<1>2. DOMAIN line = 1..Len(line) /\ Len(line) \in Nat /\ \A k \in DOMAIN line : line[k] \in Property
  OBVIOUS
<1>3. replaced \in Seq(Seq(Property))
  BY <1>2, ReplacedMembers
<1> HIDE DEF replaced
<1> QED
  BY <1>1, <1>3, FlattenType, SpreadType

LEMMA HorizontalMembers ==
  ASSUME NEW line \in Seq(Property), NEW x, NEW S \in SUBSET InitialState, NEW r, r # NoProperty
  PROVE  r \in ToSet(grow_horizontally(line, x, S)) <=>
           \E p \in ToSet(line) : r \in InstancesOf(p, x, S)
<1> DEFINE replaced == [k \in DOMAIN line |-> ReplacedBy(line[k], x, S)]
<1>1. grow_horizontally(line, x, S) = Spread(FlattenSeq(replaced))
  BY DEF grow_horizontally, ReplacedBy
<1>2. DOMAIN line = 1..Len(line) /\ Len(line) \in Nat /\ \A k \in DOMAIN line : line[k] \in Property
  OBVIOUS
<1>3. replaced \in Seq(Seq(Property)) /\ DOMAIN replaced = DOMAIN line
  BY <1>2, ReplacedMembers
<1>4. \A k \in DOMAIN line : r \in ToSet(replaced[k]) <=> r \in InstancesOf(line[k], x, S)
  BY <1>2, ReplacedMembers
<1> HIDE DEF replaced
<1>5. FlattenSeq(replaced) \in Seq(Property)
  BY <1>3, FlattenType
<1>6. r \in ToSet(FlattenSeq(replaced)) <=> \E k \in DOMAIN line : r \in InstancesOf(line[k], x, S)
  <2>1. r \in ToSet(FlattenSeq(replaced)) <=> \E k \in DOMAIN replaced : r \in ToSet(replaced[k])
    BY <1>3, FlattenMembers
  <2> QED
    BY <1>3, <1>4, <2>1
<1>7. r \in ToSet(Spread(FlattenSeq(replaced))) <=> r \in ToSet(FlattenSeq(replaced))
  BY <1>5, SpreadMembers
<1>8. (\E p \in ToSet(line) : r \in InstancesOf(p, x, S)) <=>
        \E k \in DOMAIN line : r \in InstancesOf(line[k], x, S)
  BY DEF ToSet
<1> QED
  BY <1>1, <1>6, <1>7, <1>8

LEMMA VerticalType ==
  ASSUME NEW line \in Seq(Property), NEW x, NEW S \in SUBSET InitialState,
         NEW l \in grow_vertically(line, x, S)
  PROVE  l \in Seq(Property)
<1>1. CASE l = line
  BY <1>1
<1>2. ASSUME NEW s \in S, l = [k \in DOMAIN line |-> Instantiate(line[k], x, s)]
      PROVE  l \in Seq(Property)
  <2>1. \A k \in DOMAIN line : line[k] \in Property
    OBVIOUS
  <2>2. \A k \in DOMAIN line : Instantiate(line[k], x, s) \in Property
    BY <2>1, InstanceType
  <2>3. DOMAIN line = 1..Len(line) /\ Len(line) \in Nat
    OBVIOUS
  <2> QED
    BY <1>2, <2>2, <2>3
<1> QED
  BY <1>1, <1>2 DEF grow_vertically, Fresh

LEMMA OriginalType ==
  ASSUME NEW f \in Formulas, NEW l \in f.lines
  PROVE  l \in Seq(Property)
<1>1. l \in Seq(Seq(StateVariable) \ {<< >>})
  BY FormulasAssumption
<1>2. \A k \in 1..Len(l) : l[k] \in Seq(StateVariable)
  BY <1>1
<1>3. \A p \in Seq(StateVariable) : p \in Property
  BY DEF Property
<1>4. l = [k \in 1..Len(l) |-> l[k]] /\ Len(l) \in Nat
  BY <1>1
<1> QED
  BY <1>2, <1>3, <1>4

LEMMA SpreadInitType == SpreadInit => SpreadTypeOK
<1> SUFFICES ASSUME SpreadInit
             PROVE  SpreadTypeOK
  OBVIOUS
<1>1. formula \in Formulas /\ lines = formula.lines /\ quantified = 0 /\ expansion = "running"
  BY DEF SpreadInit
<1>2. \A l \in lines : l \in Seq(Property)
  BY <1>1, OriginalType
<1>3. Len(formula.quants) \in Nat
  BY <1>1, FormulasAssumption
<1> QED
  BY <1>1, <1>2, <1>3 DEF SpreadTypeOK

LEMMA SpreadStepType ==
  ASSUME SpreadTypeOK, NEW told_apart \in BOOLEAN,
         SpreadQuantifier(told_apart) \/ ParseProperties
  PROVE  SpreadTypeOK'
<1>1. CASE ParseProperties
  BY <1>1 DEF ParseProperties, SpreadTypeOK
<1>2. CASE SpreadQuantifier(told_apart)
  <2> DEFINE q == formula.quants[quantified + 1]
             S == VisibleStates(q, told_apart)
  <2>1. /\ expansion = "running" /\ quantified < Len(formula.quants)
        /\ quantified' = quantified + 1 /\ formula' = formula
    BY <1>2 DEF SpreadQuantifier
  <2>2. formula.quants \in Seq(Quantifier) /\ quantified \in Nat
    BY FormulasAssumption DEF SpreadTypeOK
  <2>3. S \in SUBSET InitialState
    <3>1. q \in Quantifier
      BY <2>1, <2>2
    <3> QED
      BY <3>1 DEF VisibleStates, Quantifier
  <2>4. expansion' \in {"running", "failed"}
    BY <1>2, <2>1 DEF SpreadQuantifier
  <2>5. \/ lines' = lines
        \/ lines' = {grow_horizontally(l, q.name, S) : l \in lines}
        \/ lines' = UNION {grow_vertically(l, q.name, S) : l \in lines}
    BY <1>2 DEF SpreadQuantifier
  <2>6. ASSUME NEW l \in lines'
        PROVE  l \in Seq(Property)
    <3> HIDE DEF q, S
    <3>1. \A k \in lines : k \in Seq(Property)
      BY DEF SpreadTypeOK
    <3>2. CASE lines' = lines
      BY <3>1, <3>2
    <3>3. CASE lines' = {grow_horizontally(k, q.name, S) : k \in lines}
      BY <2>3, <3>1, <3>3, HorizontalType
    <3>4. CASE lines' = UNION {grow_vertically(k, q.name, S) : k \in lines}
      <4>1. PICK k \in lines : l \in grow_vertically(k, q.name, S)
        BY <3>4
      <4> QED
        BY <2>3, <3>1, <4>1, VerticalType
    <3> QED
      BY <2>5, <3>2, <3>3, <3>4
  <2>7. quantified' \in 0..Len(formula'.quants)
    BY <2>1, <2>2
  <2> QED
    BY <2>1, <2>4, <2>6, <2>7 DEF SpreadTypeOK
<1> QED
  BY <1>1, <1>2

-----------------------------------------------------------------------------
(* The instantiation of a formula, quantifier by quantifier: what some     *)
(* properties say when a part of their variables has been replaced.        *)

(* The states that some properties mention.                                *)
StatesOf(props) == {s \in InitialState : \E p \in props : Mentions(p, s)}

(* With the states u of the variables U, p holds for some states of its    *)
(* other variables.                                                        *)
HoldsFor(f, p, U, u, truth) ==
  \E w \in Valuations(f, U \cup Variables(f, {p})) :
    /\ \A i \in U : w[i] = u[i]
    /\ \A i \in Variables(f, {p}) \ U : w[i] \notin StatesOf({p})
    /\ Ground(f, p, w) \in truth

(* What is left of a line to say about its universal variables.            *)
HoldsStill(f, props, truth) ==
  LET universal == Variables(f, props) \cap Universal(f)
  IN  \A v \in Valuations(f, universal) :
        (\A i \in universal : v[i] \notin StatesOf(props)) =>
          \E p \in props \ {NoProperty} : HoldsFor(f, p, universal, v, truth)

(* What Separable says of a formula's lines.                               *)
SeparableLine(f, props) ==
  \A p \in props :
    \/ Variables(f, {p}) \subseteq Universal(f)
    \/ Variables(f, props) \cap Universal(f) \subseteq Variables(f, {p})

(* No variable is left of those that have been replaced.                   *)
HasVariablesAfter(f, n, props) == \A i \in Variables(f, props) : i > n

-----------------------------------------------------------------------------
(* A quantifier of a formula.                                              *)
LEMMA QuantifierFacts ==
  ASSUME NEW f \in Formulas, NEW i \in DOMAIN f.quants
  PROVE  /\ i \in Nat /\ f.quants[i].name \in StateVariable /\ f.quants[i].name \notin InitialState
         /\ f.quants[i].states \subseteq InitialState /\ f.quants[i].quant \in {"E", "A"}
         /\ \A j \in DOMAIN f.quants : f.quants[i].name = f.quants[j].name => i = j
<1>1. f.quants \in Seq(Quantifier) /\ StateVariable \cap InitialState = {}
  BY FormulasAssumption
<1>2. i \in Nat /\ f.quants[i] \in Quantifier
  BY <1>1
<1>3. \A j \in DOMAIN f.quants : f.quants[i].name = f.quants[j].name => i = j
  BY FormulasAssumption
<1> QED
  BY <1>1, <1>2, <1>3 DEF Quantifier

LEMMA VariablesAre ==
  ASSUME NEW f, NEW props, NEW i \in DOMAIN f.quants
  PROVE  i \in Variables(f, props) <=>
           \E p \in props : \E k \in DOMAIN p : p[k] = f.quants[i].name
BY DEF Variables, Mentions

(* Replacing a variable by a state.                                        *)
LEMMA InstanceMentions ==
  ASSUME NEW p \in Property, NEW x \in StateVariable, NEW s \in InitialState, NEW y
  PROVE  Mentions(Instantiate(p, x, s), y) <=>
           (Mentions(p, y) /\ y # x) \/ (Mentions(p, x) /\ y = s)
BY DEF Mentions, Instantiate

LEMMA InstanceVariables ==
  ASSUME NEW f \in Formulas, NEW j \in DOMAIN f.quants, NEW p \in Property, NEW s \in InitialState
  PROVE  Variables(f, {Instantiate(p, f.quants[j].name, s)}) = Variables(f, {p}) \ {j}
<1> DEFINE x == f.quants[j].name
           r == Instantiate(p, x, s)
<1>1. x \in StateVariable
  BY QuantifierFacts
<1>2. ASSUME NEW i \in DOMAIN f.quants
      PROVE  Mentions(r, f.quants[i].name) <=> Mentions(p, f.quants[i].name) /\ i # j
  <2>1. f.quants[i].name # s /\ (f.quants[i].name = x => i = j)
    BY QuantifierFacts
  <2> HIDE DEF x
  <2>2. i = j => f.quants[i].name = x
    BY DEF x
  <2> QED
    BY <1>1, <2>1, <2>2, InstanceMentions
<1> HIDE DEF x, r
<1>3. Variables(f, {r}) = Variables(f, {p}) \ {j}
  BY <1>2 DEF Variables
<1> QED
  BY <1>3 DEF x, r

LEMMA InstanceStates ==
  ASSUME NEW f \in Formulas, NEW j \in DOMAIN f.quants, NEW p \in Property, NEW s \in InitialState
  PROVE  StatesOf({Instantiate(p, f.quants[j].name, s)}) =
           StatesOf({p}) \cup (IF j \in Variables(f, {p}) THEN {s} ELSE {})
<1> DEFINE x == f.quants[j].name
<1>1. x \in StateVariable /\ x \notin InitialState
  BY QuantifierFacts
<1>2. j \in Variables(f, {p}) <=> Mentions(p, x)
  BY DEF Variables
<1> HIDE DEF x
<1>3. \A t \in InitialState :
        Mentions(Instantiate(p, x, s), t) <=> Mentions(p, t) \/ (Mentions(p, x) /\ t = s)
  BY <1>1, InstanceMentions
<1>4. StatesOf({Instantiate(p, x, s)}) = StatesOf({p}) \cup (IF Mentions(p, x) THEN {s} ELSE {})
  BY <1>3 DEF StatesOf
<1> QED
  BY <1>2, <1>4 DEF x

(* A valuation of some variables, and the property it makes.               *)
LEMMA GroundAt ==
  ASSUME NEW f \in Formulas, NEW p, NEW w, DOMAIN w \subseteq DOMAIN f.quants,
         NEW k \in DOMAIN p
  PROVE  /\ \A i \in DOMAIN w : f.quants[i].name = p[k] => Ground(f, p, w)[k] = w[i]
         /\ (\A i \in DOMAIN w : f.quants[i].name # p[k]) => Ground(f, p, w)[k] = p[k]
<1>1. Ground(f, p, w)[k] =
        IF \E i \in DOMAIN w : f.quants[i].name = p[k]
        THEN w[CHOOSE i \in DOMAIN w : f.quants[i].name = p[k]] ELSE p[k]
  BY DEF Ground
<1>2. ASSUME NEW i \in DOMAIN w, f.quants[i].name = p[k]
      PROVE  Ground(f, p, w)[k] = w[i]
  <2> DEFINE c == CHOOSE j \in DOMAIN w : f.quants[j].name = p[k]
  <2>1. c \in DOMAIN w /\ f.quants[c].name = p[k]
    BY <1>2
  <2>2. c = i
    BY <1>2, <2>1, QuantifierFacts
  <2> QED
    BY <1>1, <1>2, <2>2
<1> QED
  BY <1>1, <1>2

(* To replace one variable first makes no difference.                      *)
LEMMA GroundInstance ==
  ASSUME NEW f \in Formulas, NEW p \in Property, NEW V, V \subseteq DOMAIN f.quants,
         NEW j \in V, NEW w, DOMAIN w = V, w[j] \in InitialState,
         NEW v, DOMAIN v = V \ {j}, \A i \in V \ {j} : v[i] = w[i]
  PROVE  Ground(f, Instantiate(p, f.quants[j].name, w[j]), v) = Ground(f, p, w)
<1> DEFINE x == f.quants[j].name
           r == Instantiate(p, x, w[j])
<1>1. DOMAIN r = DOMAIN p /\ \A k \in DOMAIN p : r[k] = IF p[k] = x THEN w[j] ELSE p[k]
  BY DEF Instantiate
<1>2. ASSUME NEW k \in DOMAIN p
      PROVE  Ground(f, r, v)[k] = Ground(f, p, w)[k]
  <2>0. V \ {j} \subseteq DOMAIN f.quants
    OBVIOUS
  <2> HIDE DEF r
  <2>1. /\ \A i \in V : f.quants[i].name = p[k] => Ground(f, p, w)[k] = w[i]
        /\ (\A i \in V : f.quants[i].name # p[k]) => Ground(f, p, w)[k] = p[k]
    <3>1. DOMAIN w \subseteq DOMAIN f.quants
      OBVIOUS
    <3>2. /\ \A i \in DOMAIN w : f.quants[i].name = p[k] => Ground(f, p, w)[k] = w[i]
          /\ (\A i \in DOMAIN w : f.quants[i].name # p[k]) => Ground(f, p, w)[k] = p[k]
      BY <3>1, GroundAt
    <3> QED
      BY <3>2
  <2>2. /\ \A i \in V \ {j} : f.quants[i].name = r[k] => Ground(f, r, v)[k] = v[i]
        /\ (\A i \in V \ {j} : f.quants[i].name # r[k]) => Ground(f, r, v)[k] = r[k]
    <3>1. DOMAIN v \subseteq DOMAIN f.quants /\ k \in DOMAIN r
      BY <1>1, <2>0
    <3>2. /\ \A i \in DOMAIN v : f.quants[i].name = r[k] => Ground(f, r, v)[k] = v[i]
          /\ (\A i \in DOMAIN v : f.quants[i].name # r[k]) => Ground(f, r, v)[k] = r[k]
      BY <3>1, GroundAt
    <3> QED
      BY <3>2
  <2>3. CASE p[k] = x
    <3>1. r[k] = w[j] /\ Ground(f, p, w)[k] = w[j]
      BY <1>1, <2>1, <2>3
    <3>2. \A i \in V \ {j} : f.quants[i].name # r[k]
      BY <3>1, QuantifierFacts
    <3> QED
      BY <2>2, <3>1, <3>2
  <2>4. CASE p[k] # x
    <3>1. r[k] = p[k]
      BY <1>1, <2>4
    <3>2. CASE \E i \in V : f.quants[i].name = p[k]
      <4>1. PICK i \in V : f.quants[i].name = p[k]
        BY <3>2
      <4>2. i # j
        BY <2>4, <4>1
      <4> QED
        BY <2>1, <2>2, <3>1, <4>1, <4>2
    <3>3. CASE \A i \in V : f.quants[i].name # p[k]
      BY <2>1, <2>2, <3>1, <3>3
    <3> QED
      BY <3>2, <3>3
  <2> QED
    BY <2>3, <2>4
<1>3. /\ Ground(f, r, v) = [k \in DOMAIN p |-> Ground(f, r, v)[k]]
      /\ Ground(f, p, w) = [k \in DOMAIN p |-> Ground(f, p, w)[k]]
  BY <1>1 DEF Ground
<1> HIDE DEF r
<1>4. Ground(f, r, v) = Ground(f, p, w)
  BY <1>2, <1>3
<1> QED
  BY <1>4 DEF r

LEMMA ValuationFacts ==
  ASSUME NEW f \in Formulas, NEW V, V \subseteq DOMAIN f.quants, NEW v
  PROVE  v \in Valuations(f, V) <=>
           /\ v = [i \in V |-> v[i]]
           /\ \A i \in V : v[i] \in f.quants[i].states /\ v[i] \in InitialState
           /\ \A i, j \in V : i # j => v[i] # v[j]
BY DEF Valuations

(* A property that has its turn: the state of a variable of U is in it, or *)
(* it has no variables but those of U.                                     *)
LEMMA HoldsForInstance ==
  ASSUME NEW f \in Formulas, NEW p \in Property, NEW U, U \subseteq DOMAIN f.quants, NEW j \in U,
         NEW u \in Valuations(f, U), NEW v, v = [i \in U \ {j} |-> u[i]], NEW truth,
         j \in Variables(f, {p}) \/ Variables(f, {p}) \subseteq U
  PROVE  HoldsFor(f, Instantiate(p, f.quants[j].name, u[j]), U \ {j}, v, truth)
           <=> HoldsFor(f, p, U, u, truth)
<1> DEFINE s == u[j]
           r == Instantiate(p, f.quants[j].name, s)
           P == Variables(f, {p})
           R == Variables(f, {r})
           W == U \cup P
<1>1. /\ P \subseteq DOMAIN f.quants /\ W \subseteq DOMAIN f.quants /\ j \in W
      /\ W \ {j} \subseteq DOMAIN f.quants
  BY DEF Variables
<1>2. s \in InitialState /\ s \in f.quants[j].states /\ \A i \in U : i # j => u[i] # s
  BY ValuationFacts
<1>3. R = P \ {j} /\ (U \ {j}) \cup R = W \ {j} /\ StatesOf({r}) = StatesOf({p}) \cup (IF j \in P THEN {s} ELSE {})
  <2>1. j \in DOMAIN f.quants
    OBVIOUS
  <2>2. R = P \ {j}
    BY <1>2, <2>1, InstanceVariables
  <2>3. StatesOf({r}) = StatesOf({p}) \cup (IF j \in P THEN {s} ELSE {})
    BY <1>2, <2>1, InstanceStates
  <2> HIDE DEF R, P, r
  <2> QED
    BY <2>2, <2>3
<1>4. ASSUME HoldsFor(f, p, U, u, truth)
      PROVE  HoldsFor(f, r, U \ {j}, v, truth)
  <2> HIDE DEF r
  <2>1. PICK w \in Valuations(f, W) :
          /\ \A i \in U : w[i] = u[i]
          /\ \A i \in P \ U : w[i] \notin StatesOf({p})
          /\ Ground(f, p, w) \in truth
    BY <1>4 DEF HoldsFor
  <2> DEFINE x == [i \in W \ {j} |-> w[i]]
  <2> HIDE DEF R, P, W
  <2>2. /\ w = [i \in W |-> w[i]]
        /\ \A i \in W : w[i] \in f.quants[i].states /\ w[i] \in InitialState
        /\ \A i, k \in W : i # k => w[i] # w[k]
    BY <1>1, ValuationFacts
  <2>3. x \in Valuations(f, W \ {j})
    BY <1>1, <2>2, ValuationFacts
  <2>4. \A i \in U \ {j} : x[i] = v[i]
    BY <2>1 DEF W
  <2>5. \A i \in R \ (U \ {j}) : x[i] \notin StatesOf({r})
    <3> SUFFICES ASSUME NEW i \in R \ (U \ {j})
                 PROVE  x[i] \notin StatesOf({r})
      OBVIOUS
    <3>1. i \in P \ U /\ i \in W \ {j} /\ i # j
      BY <1>3 DEF W
    <3>2. w[i] # w[j] /\ w[j] = s
      BY <1>1, <2>1, <2>2, <3>1
    <3>3. w[i] \notin StatesOf({p}) /\ x[i] = w[i]
      BY <2>1, <3>1
    <3> HIDE DEF x, s
    <3> QED
      BY <1>3, <3>2, <3>3
  <2>6. Ground(f, r, x) = Ground(f, p, w)
    <3>1. DOMAIN w = W /\ DOMAIN x = W \ {j} /\ \A i \in W \ {j} : x[i] = w[i]
      BY <2>2
    <3>2. w[j] = s
      BY <2>1
    <3> HIDE DEF x
    <3>3. Ground(f, Instantiate(p, f.quants[j].name, w[j]), x) = Ground(f, p, w)
      BY <1>1, <1>2, <3>1, <3>2, GroundInstance
    <3> QED
      BY <3>2, <3>3 DEF r
  <2>7. HoldsFor(f, r, U \ {j}, v, truth) <=>
          \E y \in Valuations(f, W \ {j}) :
            /\ \A i \in U \ {j} : y[i] = v[i]
            /\ \A i \in R \ (U \ {j}) : y[i] \notin StatesOf({r})
            /\ Ground(f, r, y) \in truth
    BY <1>3 DEF HoldsFor, R
  <2> HIDE DEF x
  <2> QED
    BY <2>1, <2>3, <2>4, <2>5, <2>6, <2>7
<1>5. ASSUME HoldsFor(f, r, U \ {j}, v, truth)
      PROVE  HoldsFor(f, p, U, u, truth)
  <2> HIDE DEF r
  <2>1. PICK y \in Valuations(f, W \ {j}) :
          /\ \A i \in U \ {j} : y[i] = v[i]
          /\ \A i \in R \ (U \ {j}) : y[i] \notin StatesOf({r})
          /\ Ground(f, r, y) \in truth
    <3>1. HoldsFor(f, r, U \ {j}, v, truth) <=>
            \E y \in Valuations(f, W \ {j}) :
              /\ \A i \in U \ {j} : y[i] = v[i]
              /\ \A i \in R \ (U \ {j}) : y[i] \notin StatesOf({r})
              /\ Ground(f, r, y) \in truth
      BY <1>3 DEF HoldsFor, R
    <3> QED
      BY <1>5, <3>1
  <2> DEFINE w == [i \in W |-> IF i = j THEN s ELSE y[i]]
  <2>0. j \in P \/ P \subseteq U
    OBVIOUS
  <2> HIDE DEF R, P, W
  <2>2. /\ y = [i \in W \ {j} |-> y[i]]
        /\ \A i \in W \ {j} : y[i] \in f.quants[i].states /\ y[i] \in InitialState
        /\ \A i, k \in W \ {j} : i # k => y[i] # y[k]
    BY <1>1, ValuationFacts
  <2>3. \A i \in W \ {j} : y[i] # s
    <3> SUFFICES ASSUME NEW i \in W \ {j}
                 PROVE  y[i] # s
      OBVIOUS
    <3>1. CASE i \in U
      BY <1>2, <2>1, <3>1
    <3>2. CASE i \notin U
      <4>1. i \in P /\ i \in R \ (U \ {j}) /\ j \in P
        BY <1>3, <2>0, <3>2 DEF W
      <4> HIDE DEF s
      <4> QED
        BY <1>3, <2>1, <4>1
    <3> QED
      BY <3>1, <3>2
  <2>4. w \in Valuations(f, W)
    <3>1. w = [i \in W |-> w[i]] /\ \A i \in W : w[i] = IF i = j THEN s ELSE y[i]
      OBVIOUS
    <3> HIDE DEF w, s
    <3>2. \A i \in W : w[i] \in f.quants[i].states /\ w[i] \in InitialState
      BY <1>2, <2>2, <3>1
    <3>3. \A i, k \in W : i # k => w[i] # w[k]
      BY <2>2, <2>3, <3>1
    <3> QED
      BY <1>1, <3>1, <3>2, <3>3, ValuationFacts
  <2>5. \A i \in U : w[i] = u[i]
    BY <2>1 DEF W
  <2>6. \A i \in P \ U : w[i] \notin StatesOf({p})
    <3> SUFFICES ASSUME NEW i \in P \ U
                 PROVE  w[i] \notin StatesOf({p})
      OBVIOUS
    <3>1. i \in W /\ i # j /\ i \in R \ (U \ {j})
      BY <1>3 DEF W
    <3>2. w[i] = y[i] /\ y[i] \notin StatesOf({r})
      BY <2>1, <3>1
    <3> HIDE DEF w
    <3> QED
      BY <1>3, <3>2
  <2>7. Ground(f, r, y) = Ground(f, p, w)
    <3>1. DOMAIN w = W /\ DOMAIN y = W \ {j} /\ (\A i \in W \ {j} : y[i] = w[i]) /\ w[j] = s
      BY <1>1, <2>2
    <3> HIDE DEF w
    <3>2. Ground(f, Instantiate(p, f.quants[j].name, w[j]), y) = Ground(f, p, w)
      BY <1>1, <1>2, <3>1, GroundInstance
    <3> QED
      BY <3>1, <3>2 DEF r
  <2>8. HoldsFor(f, p, U, u, truth) <=>
          \E x \in Valuations(f, W) :
            /\ \A i \in U : x[i] = u[i]
            /\ \A i \in P \ U : x[i] \notin StatesOf({p})
            /\ Ground(f, p, x) \in truth
    BY DEF HoldsFor, W, P
  <2> HIDE DEF w
  <2> QED
    BY <2>1, <2>4, <2>5, <2>6, <2>7, <2>8
<1> QED
  BY <1>4, <1>5

(* A variable over some states: one that the property does not mention.    *)
LEMMA HoldsForFresh ==
  ASSUME NEW f \in Formulas, NEW p \in Property, NEW j \in Variables(f, {p}),
         NEW u, NEW v, NEW truth
  PROVE  HoldsFor(f, p, {}, u, truth) <=>
           \E s \in Fresh({p}, f.quants[j].states) :
             HoldsFor(f, Instantiate(p, f.quants[j].name, s), {}, v, truth)
<1> DEFINE S == f.quants[j].states
           P == Variables(f, {p})
           Holds(w) == (\A i \in P \ {j} : w[i] \notin StatesOf({p})) /\ Ground(f, p, w) \in truth
<1>1. j \in DOMAIN f.quants /\ S \subseteq InitialState /\ P \subseteq DOMAIN f.quants /\ j \in P
  <2>1. j \in DOMAIN f.quants
    BY DEF Variables
  <2> QED
    BY <2>1, QuantifierFacts DEF Variables
<1>2. \A s \in S : s \in Fresh({p}, S) <=> s \notin StatesOf({p})
  BY <1>1 DEF Fresh, StatesOf
<1>3. ASSUME NEW s \in Fresh({p}, S)
      PROVE  HoldsFor(f, Instantiate(p, f.quants[j].name, s), {}, v, truth) <=>
               \E w \in Valuations(f, P) : w[j] = s /\ Holds(w)
  <2> DEFINE y == [i \in {j} |-> s]
             z == [i \in {j} \ {j} |-> y[i]]
             r == Instantiate(p, f.quants[j].name, s)
  <2>1. s \in S
    BY DEF Fresh
  <2>2. y \in Valuations(f, {j}) /\ {j} \subseteq DOMAIN f.quants /\ y[j] = s
    <3>1. {j} \subseteq DOMAIN f.quants /\ y = [i \in {j} |-> y[i]] /\ \A i \in {j} : y[i] = s
      BY <1>1
    <3> HIDE DEF y
    <3> QED
      BY <1>1, <2>1, <3>1, ValuationFacts
  <2> HIDE DEF y, P, r
  <2>3. HoldsFor(f, r, {j} \ {j}, z, truth) <=> HoldsFor(f, p, {j}, y, truth)
    <3>1. HoldsFor(f, Instantiate(p, f.quants[j].name, y[j]), {j} \ {j}, z, truth)
            <=> HoldsFor(f, p, {j}, y, truth)
      BY <2>2, HoldsForInstance
    <3> QED
      BY <2>2, <3>1 DEF r
  <2>4. {j} \ {j} = {} /\ {j} \cup P = P
    BY <1>1
  <2> HIDE DEF z
  <2>5. HoldsFor(f, r, {}, z, truth) <=> HoldsFor(f, r, {}, v, truth)
    BY DEF HoldsFor
  <2>6. HoldsFor(f, p, {j}, y, truth) <=> \E w \in Valuations(f, P) : w[j] = s /\ Holds(w)
    <3>1. HoldsFor(f, p, {j}, y, truth) <=>
            \E w \in Valuations(f, {j} \cup P) :
              /\ \A i \in {j} : w[i] = y[i]
              /\ \A i \in P \ {j} : w[i] \notin StatesOf({p})
              /\ Ground(f, p, w) \in truth
      BY DEF HoldsFor, P
    <3> QED
      BY <2>2, <2>4, <3>1
  <2> QED
    BY <2>3, <2>4, <2>5, <2>6 DEF r
<1>4. HoldsFor(f, p, {}, u, truth) <=>
        \E w \in Valuations(f, P) : w[j] \notin StatesOf({p}) /\ Holds(w)
  <2>1. HoldsFor(f, p, {}, u, truth) <=>
          \E w \in Valuations(f, P) :
            (\A i \in P : w[i] \notin StatesOf({p})) /\ Ground(f, p, w) \in truth
    BY DEF HoldsFor
  <2> HIDE DEF P
  <2> QED
    BY <1>1, <2>1
<1>5. \A w \in Valuations(f, P) : w[j] \in S
  <2> HIDE DEF P
  <2> QED
    BY <1>1, ValuationFacts
<1> HIDE DEF P, S, Holds
<1>6. \A s : s \in Fresh({p}, S) => s \in S
  BY DEF Fresh
<1>7. HoldsFor(f, p, {}, u, truth) <=>
        \E s \in Fresh({p}, S) : \E w \in Valuations(f, P) : w[j] = s /\ Holds(w)
  BY <1>2, <1>4, <1>5, <1>6
<1> QED
  BY <1>3, <1>7 DEF S

AreProperties(props) == \A p \in props : p \in Property

(* The line for a state of variable j.                                     *)
LineFor(f, props, j, s) == {Instantiate(p, f.quants[j].name, s) : p \in props}

(* What the properties of a line mention, before and after.                *)
LineForFacts(f, props, j, s) ==
  /\ Variables(f, LineFor(f, props, j, s)) = Variables(f, props) \ {j}
  /\ StatesOf(LineFor(f, props, j, s)) = StatesOf(props) \cup {s}
  /\ AreProperties(LineFor(f, props, j, s))
  /\ LineFor(f, props, j, s) \ {NoProperty} = LineFor(f, props \ {NoProperty}, j, s)

LEMMA InstancesOfLine ==
  ASSUME NEW f \in Formulas, NEW props, AreProperties(props), NEW j \in Variables(f, props),
         NEW s \in InitialState
  PROVE  LineForFacts(f, props, j, s)
<1> DEFINE x == f.quants[j].name
           insts == LineFor(f, props, j, s)
<1>0. insts = {Instantiate(p, x, s) : p \in props}
  BY DEF LineFor
<1>1. j \in DOMAIN f.quants
  BY DEF Variables
<1>2. x \in StateVariable /\ x \notin InitialState
  BY <1>1, QuantifierFacts
<1>3. \A p \in props : \A y :
        Mentions(Instantiate(p, x, s), y) <=> (Mentions(p, y) /\ y # x) \/ (Mentions(p, x) /\ y = s)
  BY <1>2, InstanceMentions DEF AreProperties
<1> HIDE DEF insts
<1>4. Variables(f, insts) = Variables(f, props) \ {j}
  <2>1. \A i : i \in Variables(f, insts) <=> i \in DOMAIN f.quants /\
                 \E p \in props : Mentions(Instantiate(p, x, s), f.quants[i].name)
    BY <1>0 DEF Variables
  <2>2. \A i \in DOMAIN f.quants : f.quants[i].name # s /\ (f.quants[i].name = x <=> i = j)
    BY <1>1, QuantifierFacts
  <2> HIDE DEF x
  <2>3. \A i : i \in Variables(f, insts) <=> i \in DOMAIN f.quants /\
                 \E p \in props : Mentions(p, f.quants[i].name) /\ i # j
    BY <1>3, <2>1, <2>2
  <2>4. \A i : i \in Variables(f, props) <=> i \in DOMAIN f.quants /\
                 \E p \in props : Mentions(p, f.quants[i].name)
    BY DEF Variables
  <2> QED
    BY <2>3, <2>4
<1>5. StatesOf(insts) = StatesOf(props) \cup {s}
  <2>1. \E p \in props : Mentions(p, x)
    BY DEF Variables
  <2>2. \A t : t \in StatesOf(insts) <=> t \in InitialState /\
                 \E p \in props : Mentions(Instantiate(p, x, s), t)
    BY <1>0 DEF StatesOf
  <2> HIDE DEF x
  <2>3. \A t : t \in StatesOf(insts) <=> t \in InitialState /\ ((\E p \in props : Mentions(p, t)) \/ t = s)
    BY <1>2, <1>3, <2>1, <2>2
  <2>4. \A t : t \in StatesOf(props) <=> t \in InitialState /\ \E p \in props : Mentions(p, t)
    BY DEF StatesOf
  <2> QED
    BY <2>3, <2>4
<1>6. \A p \in props : Instantiate(p, x, s) \in Property
  <2> HIDE DEF x
  <2> QED
    BY InstanceType DEF AreProperties
<1>7. \A p \in props : Instantiate(p, x, s) = NoProperty <=> p = NoProperty
  <2> SUFFICES ASSUME NEW p \in props
               PROVE  Instantiate(p, x, s) = NoProperty <=> p = NoProperty
    OBVIOUS
  <2>1. p \in Seq(StateVariable \cup InitialState)
    BY DEF AreProperties, Property
  <2>2. DOMAIN Instantiate(p, x, s) = DOMAIN p /\ DOMAIN p = 1..Len(p) /\ Len(p) \in Nat
    BY <2>1 DEF Instantiate
  <2>3. Instantiate(p, x, s) \in Seq(StateVariable \cup InitialState)
    BY <1>6 DEF Property
  <2> QED
    BY <2>1, <2>2, <2>3 DEF NoProperty
<1> HIDE DEF x, insts
<1>8. AreProperties(insts)
  BY <1>0, <1>6 DEF AreProperties
<1>9. insts \ {NoProperty} = {Instantiate(p, x, s) : p \in props \ {NoProperty}}
  BY <1>0, <1>7
<1>10. {Instantiate(p, x, s) : p \in props \ {NoProperty}} = LineFor(f, props \ {NoProperty}, j, s)
  BY DEF LineFor, x
<1> QED
  BY <1>4, <1>5, <1>8, <1>9, <1>10 DEF insts, LineForFacts

(* A line for each state of a variable over all states.                    *)
LEMMA HoldsVertically ==
  ASSUME NEW f \in Formulas, NEW props, AreProperties(props), SeparableLine(f, props),
         NEW j \in Variables(f, props) \cap Universal(f), NEW truth
  PROVE  HoldsStill(f, props, truth) <=>
           \A s \in Fresh(props, f.quants[j].states) :
             HoldsStill(f, LineFor(f, props, j, s), truth)
<1> DEFINE S == f.quants[j].states
           x == f.quants[j].name
           U == Variables(f, props) \cap Universal(f)
           Insts(s) == LineFor(f, props, j, s)
<1>1. /\ j \in DOMAIN f.quants /\ U \subseteq DOMAIN f.quants /\ j \in U /\ S \subseteq InitialState
      /\ U \ {j} \subseteq DOMAIN f.quants
  <2>1. j \in DOMAIN f.quants
    BY DEF Variables
  <2> QED
    BY <2>1, QuantifierFacts DEF Variables
<1>2. \A s \in S : s \in Fresh(props, S) <=> s \notin StatesOf(props)
  BY <1>1 DEF Fresh, StatesOf
<1>3. \A s \in Fresh(props, S) : s \in S
  BY DEF Fresh
<1>4. ASSUME NEW s \in S
      PROVE  /\ Variables(f, Insts(s)) \cap Universal(f) = U \ {j}
             /\ StatesOf(Insts(s)) = StatesOf(props) \cup {s}
             /\ Insts(s) \ {NoProperty} = LineFor(f, props \ {NoProperty}, j, s)
  <2>1. /\ s \in InitialState /\ j \in Variables(f, props)
        /\ f \in Formulas /\ AreProperties(props)
    BY <1>1
  <2>2. LineForFacts(f, props, j, s)
    BY <2>1, InstancesOfLine
  <2> QED
    BY <2>2 DEF LineForFacts
<1>5. ASSUME NEW p \in props
      PROVE  j \in Variables(f, {p}) \/ Variables(f, {p}) \subseteq U
  <2>1. \/ Variables(f, {p}) \subseteq Universal(f)
        \/ U \subseteq Variables(f, {p})
    BY DEF SeparableLine
  <2>2. Variables(f, {p}) \subseteq Variables(f, props)
    BY DEF Variables
  <2> QED
    BY <1>1, <2>1, <2>2
<1>6. ASSUME NEW p \in props, NEW u \in Valuations(f, U), NEW v, v = [i \in U \ {j} |-> u[i]]
      PROVE  HoldsFor(f, Instantiate(p, x, u[j]), U \ {j}, v, truth) <=> HoldsFor(f, p, U, u, truth)
  <2>1. p \in Property
    BY DEF AreProperties
  <2>2. j \in Variables(f, {p}) \/ Variables(f, {p}) \subseteq U
    BY <1>5
  <2> HIDE DEF U
  <2> QED
    BY <1>1, <1>6, <2>1, <2>2, HoldsForInstance
<1>7. HoldsStill(f, props, truth) <=>
        \A u \in Valuations(f, U) : (\A i \in U : u[i] \notin StatesOf(props)) =>
          \E p \in props \ {NoProperty} : HoldsFor(f, p, U, u, truth)
  BY DEF HoldsStill
<1>8. ASSUME NEW s \in S
      PROVE  HoldsStill(f, Insts(s), truth) <=>
               \A v \in Valuations(f, U \ {j}) :
                 (\A i \in U \ {j} : v[i] \notin StatesOf(props) /\ v[i] # s) =>
                   \E p \in props \ {NoProperty} : HoldsFor(f, Instantiate(p, x, s), U \ {j}, v, truth)
  <2> DEFINE V == Variables(f, Insts(s)) \cap Universal(f)
  <2>1. HoldsStill(f, Insts(s), truth) <=>
          \A v \in Valuations(f, V) : (\A i \in V : v[i] \notin StatesOf(Insts(s))) =>
            \E p \in Insts(s) \ {NoProperty} : HoldsFor(f, p, V, v, truth)
    BY DEF HoldsStill
  <2>2. V = U \ {j}
    BY <1>4
  <2>4. \A t : t \notin StatesOf(Insts(s)) <=> t \notin StatesOf(props) /\ t # s
    BY <1>4
  <2> HIDE DEF V
  <2>3. \A v : (\E p \in Insts(s) \ {NoProperty} : HoldsFor(f, p, V, v, truth)) <=>
               \E p \in props \ {NoProperty} : HoldsFor(f, Instantiate(p, x, s), V, v, truth)
    <3> DEFINE Q == props \ {NoProperty}
    <3>1. Insts(s) \ {NoProperty} = {Instantiate(p, x, s) : p \in Q}
      BY <1>4 DEF LineFor
    <3> HIDE DEF Insts, Q, x
    <3>2. \A v : (\E p \in Insts(s) \ {NoProperty} : HoldsFor(f, p, V, v, truth)) <=>
                 \E p \in Q : HoldsFor(f, Instantiate(p, x, s), V, v, truth)
      BY ONLY <3>1
    <3> QED
      BY <3>2 DEF Q
  <2> HIDE DEF Insts, U
  <2>5. HoldsStill(f, Insts(s), truth) <=>
          \A v \in Valuations(f, V) : (\A i \in V : v[i] \notin StatesOf(props) /\ v[i] # s) =>
            \E p \in props \ {NoProperty} : HoldsFor(f, Instantiate(p, x, s), V, v, truth)
    BY <2>1, <2>3, <2>4
  <2> QED
    BY <2>2, <2>5
<1> HIDE DEF U, S, x, Insts
<1>9. ASSUME HoldsStill(f, props, truth), NEW s \in Fresh(props, S)
      PROVE  HoldsStill(f, Insts(s), truth)
  <2>1. s \in S /\ s \notin StatesOf(props)
    BY <1>2, <1>3
  <2> SUFFICES ASSUME NEW v \in Valuations(f, U \ {j}),
                      \A i \in U \ {j} : v[i] \notin StatesOf(props) /\ v[i] # s
               PROVE  \E p \in props \ {NoProperty} : HoldsFor(f, Instantiate(p, x, s), U \ {j}, v, truth)
    BY <1>8, <2>1
  <2>2. /\ v = [i \in U \ {j} |-> v[i]]
        /\ \A i \in U \ {j} : v[i] \in f.quants[i].states /\ v[i] \in InitialState
        /\ \A i, k \in U \ {j} : i # k => v[i] # v[k]
    BY <1>1, ValuationFacts
  <2> DEFINE u == [i \in U |-> IF i = j THEN s ELSE v[i]]
  <2>3. u = [i \in U |-> u[i]] /\ u[j] = s /\ \A i \in U \ {j} : u[i] = v[i]
    BY <1>1
  <2>4. v = [i \in U \ {j} |-> u[i]]
    BY <2>2, <2>3
  <2> HIDE DEF u
  <2>5. u \in Valuations(f, U)
    <3>1. \A i \in U : u[i] \in f.quants[i].states /\ u[i] \in InitialState
      BY <1>1, <2>1, <2>2, <2>3 DEF S
    <3>2. \A i, k \in U : i # k => u[i] # u[k]
      BY <2>2, <2>3
    <3> QED
      BY <1>1, <2>3, <3>1, <3>2, ValuationFacts
  <2>6. \A i \in U : u[i] \notin StatesOf(props)
    BY <2>1, <2>3
  <2>7. PICK p \in props \ {NoProperty} : HoldsFor(f, p, U, u, truth)
    BY <1>7, <1>9, <2>5, <2>6
  <2>8. HoldsFor(f, Instantiate(p, x, u[j]), U \ {j}, v, truth)
    BY <1>6, <2>4, <2>5, <2>7
  <2> QED
    BY <2>3, <2>7, <2>8
<1>10. ASSUME \A s \in Fresh(props, S) : HoldsStill(f, Insts(s), truth)
       PROVE  HoldsStill(f, props, truth)
  <2> SUFFICES ASSUME NEW u \in Valuations(f, U), \A i \in U : u[i] \notin StatesOf(props)
               PROVE  \E p \in props \ {NoProperty} : HoldsFor(f, p, U, u, truth)
    BY <1>7
  <2>1. /\ u = [i \in U |-> u[i]]
        /\ \A i \in U : u[i] \in f.quants[i].states /\ u[i] \in InitialState
        /\ \A i, k \in U : i # k => u[i] # u[k]
    BY <1>1, ValuationFacts
  <2> DEFINE s == u[j]
             v == [i \in U \ {j} |-> u[i]]
  <2>2. s \in S /\ s \in Fresh(props, S)
    BY <1>1, <1>2, <2>1 DEF S
  <2>3. v = [i \in U \ {j} |-> v[i]] /\ \A i \in U \ {j} : v[i] = u[i]
    OBVIOUS
  <2>4. v \in Valuations(f, U \ {j}) /\ \A i \in U \ {j} : v[i] \notin StatesOf(props) /\ v[i] # s
    <3> HIDE DEF v
    <3>1. \A i \in U \ {j} : v[i] \in f.quants[i].states /\ v[i] \in InitialState
      BY <2>1, <2>3
    <3>2. \A i, k \in U \ {j} : i # k => v[i] # v[k]
      BY <2>1, <2>3
    <3>3. \A i \in U \ {j} : v[i] \notin StatesOf(props) /\ v[i] # s
      BY <1>1, <2>1, <2>3
    <3> QED
      BY <1>1, <2>3, <3>1, <3>2, <3>3, ValuationFacts
  <2>5. PICK p \in props \ {NoProperty} : HoldsFor(f, Instantiate(p, x, s), U \ {j}, v, truth)
    <3> HIDE DEF v, s
    <3> QED
      BY <1>8, <1>10, <2>2, <2>4
  <2>6. HoldsFor(f, p, U, u, truth)
    BY <1>6, <2>5
  <2> QED
    BY <2>5, <2>6
<1> QED
  BY <1>9, <1>10 DEF S, x, Insts

(* Only existential variables are left in some properties.                 *)
IsExistential(f, props) == \A i \in Variables(f, props) : i \notin Universal(f)

(* Without universal variables, a property holds for some states of its    *)
(* variables.                                                              *)
LEMMA HoldsExistentially ==
  ASSUME NEW f \in Formulas, NEW props, IsExistential(f, props),
         NEW u, NEW truth
  PROVE  HoldsStill(f, props, truth) <=>
           \E p \in props \ {NoProperty} : HoldsFor(f, p, {}, u, truth)
<1> DEFINE e == [i \in {} |-> i]
<1>1. \A v \in Valuations(f, {}) : \A p : HoldsFor(f, p, {}, v, truth) <=> HoldsFor(f, p, {}, u, truth)
  BY DEF HoldsFor
<1>2. e \in Valuations(f, {})
  BY DEF Valuations
<1> DEFINE U == Variables(f, props) \cap Universal(f)
<1>3. HoldsStill(f, props, truth) <=>
        \A v \in Valuations(f, U) : (\A i \in U : v[i] \notin StatesOf(props)) =>
          \E p \in props \ {NoProperty} : HoldsFor(f, p, U, v, truth)
  BY DEF HoldsStill
<1>4. U = {}
  BY DEF IsExistential
<1> HIDE DEF U, e
<1> QED
  BY <1>1, <1>2, <1>3, <1>4

LEMMA InstancesHold ==
  ASSUME NEW f \in Formulas, NEW p \in Property, NEW j \in DOMAIN f.quants, NEW truth, NEW u
  PROVE  HoldsFor(f, p, {}, u, truth) <=>
           \E r \in InstancesOf(p, f.quants[j].name, f.quants[j].states) :
             HoldsFor(f, r, {}, u, truth)
<1> DEFINE x == f.quants[j].name
           S == f.quants[j].states
<1>1. CASE Mentions(p, x)
  <2>1. j \in Variables(f, {p})
    BY <1>1 DEF Variables
  <2>2. HoldsFor(f, p, {}, u, truth) <=>
          \E s \in Fresh({p}, S) : HoldsFor(f, Instantiate(p, x, s), {}, u, truth)
    BY <2>1, HoldsForFresh
  <2>3. InstancesOf(p, x, S) = {Instantiate(p, x, s) : s \in Fresh({p}, S)}
    BY <1>1 DEF InstancesOf
  <2> QED
    BY <2>2, <2>3
<1>2. CASE ~ Mentions(p, x)
  <2>1. InstancesOf(p, x, S) = {p}
    BY <1>2 DEF InstancesOf
  <2> QED
    BY <2>1
<1> QED
  BY <1>1, <1>2

LEMMA InstancesAreProperties ==
  ASSUME NEW p \in Property, NEW x, NEW S \in SUBSET InitialState, NEW r \in InstancesOf(p, x, S)
  PROVE  r \in Property /\ (r = NoProperty <=> p = NoProperty)
<1>1. CASE r = p
  BY <1>1
<1>2. ASSUME Mentions(p, x), NEW s \in Fresh({p}, S), r = Instantiate(p, x, s)
      PROVE  r \in Property /\ (r = NoProperty <=> p = NoProperty)
  <2>1. s \in InitialState
    BY DEF Fresh
  <2>2. r \in Property
    BY <1>2, <2>1, InstanceType
  <2>3. DOMAIN r = DOMAIN p /\ DOMAIN p # {}
    BY <1>2 DEF Instantiate, Mentions
  <2>4. DOMAIN NoProperty = {}
    BY DEF NoProperty
  <2> QED
    BY <2>2, <2>3, <2>4
<1> QED
  BY <1>1, <1>2 DEF InstancesOf

(* What has no variables below n has none below it when variable n has     *)
(* been replaced.                                                          *)
LEMMA InstancesHaveVariables ==
  ASSUME NEW f \in Formulas, NEW p \in Property, NEW j \in DOMAIN f.quants,
         NEW r \in InstancesOf(p, f.quants[j].name, f.quants[j].states)
  PROVE  \A i : i \in Variables(f, {r}) => i \in Variables(f, {p}) /\ i # j
<1> DEFINE x == f.quants[j].name
           S == f.quants[j].states
<1>1. CASE r = p /\ ~ Mentions(p, x)
  BY <1>1 DEF Variables
<1>2. ASSUME NEW s \in Fresh({p}, S), r = Instantiate(p, x, s)
      PROVE  \A i : i \in Variables(f, {r}) => i \in Variables(f, {p}) /\ i # j
  <2>1. s \in InitialState
    BY QuantifierFacts DEF Fresh
  <2>2. Variables(f, {r}) = Variables(f, {p}) \ {j}
    BY <1>2, <2>1, InstanceVariables
  <2> QED
    BY <2>2
<1> QED
  BY <1>1, <1>2 DEF InstancesOf

LEMMA VariablesOfMembers ==
  ASSUME NEW f, NEW props, NEW i
  PROVE  i \in Variables(f, props) <=> \E p \in props : i \in Variables(f, {p})
BY DEF Variables

(* A line whose properties are replaced by their instances for an          *)
(* existential variable.                                                   *)
AreInstances(f, props, j, insts) ==
  \A r : r # NoProperty =>
    (r \in insts <=> \E p \in props : r \in InstancesOf(p, f.quants[j].name, f.quants[j].states))

LEMMA HoldsHorizontally ==
  ASSUME NEW f \in Formulas, NEW props, AreProperties(props), NEW j \in DOMAIN f.quants,
         IsExistential(f, props),
         NEW insts, AreInstances(f, props, j, insts), NEW truth
  PROVE  HoldsStill(f, insts, truth) <=> HoldsStill(f, props, truth)
<1> DEFINE x == f.quants[j].name
           S == f.quants[j].states
           u == << >>
<1>1. S \in SUBSET InitialState
  BY QuantifierFacts
<1>2. \A r : r # NoProperty => (r \in insts <=> \E p \in props : r \in InstancesOf(p, x, S))
  BY DEF AreInstances
<1>3. \A p \in props : p \in Property
  BY DEF AreProperties
<1> HIDE DEF u
<1>4. \A p \in props : \A r \in InstancesOf(p, x, S) : r = NoProperty <=> p = NoProperty
  BY <1>1, <1>3, InstancesAreProperties
<1>5. \A p \in props : HoldsFor(f, p, {}, u, truth) <=>
        \E r \in InstancesOf(p, x, S) : HoldsFor(f, r, {}, u, truth)
  BY <1>3, InstancesHold
<1>6. IsExistential(f, insts)
  <2> SUFFICES ASSUME NEW i \in Variables(f, insts)
               PROVE  i \notin Universal(f)
    BY DEF IsExistential
  <2>1. PICK r \in insts : i \in Variables(f, {r})
    <3>1. i \in Variables(f, insts) <=> \E r \in insts : i \in Variables(f, {r})
      BY VariablesOfMembers
    <3> QED
      BY <3>1
  <2>2. r # NoProperty
    BY <2>1 DEF Variables, Mentions, NoProperty
  <2>3. PICK p \in props : r \in InstancesOf(p, x, S)
    BY <1>2, <2>1, <2>2
  <2>4. i \in Variables(f, {p})
    BY <1>3, <2>1, <2>3, InstancesHaveVariables
  <2>5. i \in Variables(f, props)
    BY <2>3, <2>4, VariablesOfMembers
  <2> QED
    BY <2>5 DEF IsExistential
<1>7. /\ HoldsStill(f, insts, truth) <=> \E p \in insts \ {NoProperty} : HoldsFor(f, p, {}, u, truth)
      /\ HoldsStill(f, props, truth) <=> \E p \in props \ {NoProperty} : HoldsFor(f, p, {}, u, truth)
  BY <1>6, HoldsExistentially
<1> HIDE DEF x, S
<1> QED
  BY <1>2, <1>4, <1>5, <1>7

-----------------------------------------------------------------------------
(* The state of a line after n quantifiers, and what becomes of it.        *)
IsLineAfter(f, n, line) ==
  /\ line \in Seq(Property)
  /\ SeparableLine(f, ToSet(line))
  /\ HasVariablesAfter(f, n, ToSet(line))

LEMMA LineOfProperties ==
  ASSUME NEW line \in Seq(Property)
  PROVE  AreProperties(ToSet(line))
BY DEF AreProperties, ToSet

(* The variables that are left are existential when one of them has its    *)
(* turn.                                                                   *)
LEMMA OnlyExistentialLeft ==
  ASSUME NEW f \in Formulas, NEW n \in Nat, n + 1 \in DOMAIN f.quants,
         f.quants[n + 1].quant = "E", NEW props, HasVariablesAfter(f, n, props)
  PROVE  IsExistential(f, props)
<1> SUFFICES ASSUME NEW i \in Variables(f, props)
             PROVE  i \notin Universal(f)
  BY DEF IsExistential
<1>1. i \in DOMAIN f.quants /\ i > n /\ i \in Nat
  BY QuantifierFacts DEF HasVariablesAfter, Variables
<1>2. f.quants[i].quant = "E"
  <2>1. CASE i = n + 1
    BY <2>1
  <2>2. CASE n + 1 < i
    BY <1>1, <2>2, FormulasAssumption
  <2> QED
    BY <1>1, <2>1, <2>2
<1> QED
  BY <1>2 DEF Universal

LEMMA HorizontalLine ==
  ASSUME NEW f \in Formulas, NEW n \in Nat, n + 1 \in DOMAIN f.quants,
         f.quants[n + 1].quant = "E", NEW line, IsLineAfter(f, n, line),
         NEW new, new = grow_horizontally(line, f.quants[n + 1].name, f.quants[n + 1].states)
  PROVE  /\ IsLineAfter(f, n + 1, new)
         /\ \A truth : HoldsStill(f, ToSet(new), truth) <=> HoldsStill(f, ToSet(line), truth)
<1> DEFINE j == n + 1
           x == f.quants[j].name
           S == f.quants[j].states
           props == ToSet(line)
           insts == ToSet(new)
<1>1. /\ line \in Seq(Property) /\ AreProperties(props) /\ S \in SUBSET InitialState
      /\ new \in Seq(Property)
  <2>1. line \in Seq(Property) /\ S \in SUBSET InitialState
    BY QuantifierFacts DEF IsLineAfter
  <2> QED
    BY <2>1, LineOfProperties, HorizontalType
<1>2. IsExistential(f, props)
  BY OnlyExistentialLeft DEF IsLineAfter
<1>3. \A r : r # NoProperty => (r \in insts <=> \E p \in props : r \in InstancesOf(p, x, S))
  BY <1>1, HorizontalMembers
<1>4. AreInstances(f, props, j, insts)
  BY <1>3 DEF AreInstances
<1>5. ASSUME NEW i \in Variables(f, insts)
      PROVE  i \in Variables(f, props) /\ i > j
  <2>1. PICK r \in insts : i \in Variables(f, {r})
    BY VariablesOfMembers
  <2>2. r # NoProperty
    BY <2>1 DEF Variables, Mentions, NoProperty
  <2>3. PICK p \in props : r \in InstancesOf(p, x, S)
    BY <1>3, <2>2
  <2>4. i \in Variables(f, {p}) /\ i # j
    BY <1>1, <2>1, <2>3, InstancesHaveVariables DEF AreProperties
  <2>5. i \in Variables(f, props)
    BY <2>3, <2>4, VariablesOfMembers
  <2>6. i > n /\ i \in Nat
    BY <2>5, QuantifierFacts DEF IsLineAfter, HasVariablesAfter, Variables
  <2> QED
    BY <2>4, <2>5, <2>6
<1>6. IsExistential(f, insts)
  BY <1>2, <1>5 DEF IsExistential
<1>7. SeparableLine(f, insts)
  BY <1>6 DEF SeparableLine, IsExistential
<1>8. HasVariablesAfter(f, j, insts)
  BY <1>5 DEF HasVariablesAfter
<1>9. IsLineAfter(f, j, new)
  BY <1>1, <1>7, <1>8 DEF IsLineAfter
<1>10. \A truth : HoldsStill(f, insts, truth) <=> HoldsStill(f, props, truth)
  <2> HIDE DEF insts, props
  <2> QED
    BY <1>1, <1>2, <1>4, HoldsHorizontally
<1> QED
  BY <1>9, <1>10

LEMMA VerticalLine ==
  ASSUME NEW f \in Formulas, NEW n \in Nat, n + 1 \in DOMAIN f.quants,
         f.quants[n + 1].quant = "A", NEW line, IsLineAfter(f, n, line),
         NEW new, new = grow_vertically(line, f.quants[n + 1].name, f.quants[n + 1].states)
  PROVE  /\ \A l \in new : IsLineAfter(f, n + 1, l)
         /\ \A truth : HoldsStill(f, ToSet(line), truth) <=> \A l \in new : HoldsStill(f, ToSet(l), truth)
<1> DEFINE j == n + 1
           x == f.quants[j].name
           S == f.quants[j].states
           props == ToSet(line)
           For(s) == [k \in DOMAIN line |-> Instantiate(line[k], x, s)]
<1>1. /\ line \in Seq(Property) /\ AreProperties(props) /\ S \in SUBSET InitialState
      /\ \A l \in new : l \in Seq(Property)
  <2>1. line \in Seq(Property) /\ S \in SUBSET InitialState
    BY QuantifierFacts DEF IsLineAfter
  <2> QED
    BY <2>1, LineOfProperties, VerticalType
<1>2. /\ SeparableLine(f, props)
      /\ \A i \in Variables(f, props) : i > n /\ i \in Nat
  BY QuantifierFacts DEF IsLineAfter, HasVariablesAfter, Variables
<1>3. j \in Variables(f, props) <=> \E p \in props : Mentions(p, x)
  BY DEF Variables
<1>4. CASE j \notin Variables(f, props)
  <2>1. new = {line}
    BY <1>3, <1>4 DEF grow_vertically
  <2>2. HasVariablesAfter(f, j, props)
    <3> SUFFICES ASSUME NEW i \in Variables(f, props)
                 PROVE  i > j
      BY DEF HasVariablesAfter
    <3>1. i > n /\ i \in Nat /\ i # j
      BY <1>2, <1>4
    <3> QED
      BY <3>1
  <2>3. IsLineAfter(f, j, line)
    BY <1>1, <1>2, <2>2 DEF IsLineAfter
  <2> QED
    BY <2>1, <2>3
<1>5. CASE j \in Variables(f, props)
  <2>1. new = {For(s) : s \in Fresh(props, S)}
    BY <1>3, <1>5 DEF grow_vertically
  <2>2. ASSUME NEW s
        PROVE  ToSet(For(s)) = LineFor(f, props, j, s)
    BY DEF ToSet, LineFor
  <2>3. j \in Universal(f) /\ \A s \in Fresh(props, S) : s \in InitialState
    BY <1>1 DEF Universal, Fresh
  <2>4. ASSUME NEW s \in Fresh(props, S)
        PROVE  IsLineAfter(f, j, For(s))
    <3> DEFINE insts == LineFor(f, props, j, s)
    <3>1. LineForFacts(f, props, j, s) /\ s \in InitialState
      <4> HIDE DEF props, S
      <4> QED
        BY <1>1, <1>5, <2>3, InstancesOfLine
    <3>2. \A i : i \in Variables(f, insts) <=> i \in Variables(f, props) /\ i # j
      BY <3>1 DEF LineForFacts
    <3>3. HasVariablesAfter(f, j, insts)
      <4> HIDE DEF insts, props
      <4> SUFFICES ASSUME NEW i \in Variables(f, insts)
                   PROVE  i > j
        BY DEF HasVariablesAfter
      <4>1. i > n /\ i \in Nat /\ i # j
        BY <1>2, <3>2
      <4> QED
        BY <4>1
    <3>4. SeparableLine(f, insts)
      <4> SUFFICES ASSUME NEW p \in props
                   PROVE  \/ Variables(f, {Instantiate(p, x, s)}) \subseteq Universal(f)
                          \/ Variables(f, insts) \cap Universal(f)
                               \subseteq Variables(f, {Instantiate(p, x, s)})
        BY DEF SeparableLine, LineFor
      <4>1. p \in Property
        BY <1>1 DEF AreProperties
      <4>2. Variables(f, {Instantiate(p, x, s)}) = Variables(f, {p}) \ {j}
        BY <3>1, <4>1, InstanceVariables
      <4>3. \/ Variables(f, {p}) \subseteq Universal(f)
            \/ Variables(f, props) \cap Universal(f) \subseteq Variables(f, {p})
        BY <1>2 DEF SeparableLine
      <4> HIDE DEF insts, props, x, j
      <4> QED
        BY <3>2, <4>2, <4>3
    <3>5. For(s) \in Seq(Property)
      BY <1>1, <2>1
    <3> HIDE DEF insts, props, For
    <3>6. ToSet(For(s)) = insts
      BY <2>2 DEF insts
    <3> QED
      BY <3>3, <3>4, <3>5, <3>6 DEF IsLineAfter
  <2>5. ASSUME NEW truth
        PROVE  HoldsStill(f, props, truth) <=> \A l \in new : HoldsStill(f, ToSet(l), truth)
    <3>1. HoldsStill(f, props, truth) <=>
            \A s \in Fresh(props, S) : HoldsStill(f, LineFor(f, props, j, s), truth)
      <4> HIDE DEF props, j
      <4> QED
        BY <1>1, <1>2, <1>5, <2>3, HoldsVertically DEF S
    <3> HIDE DEF For, props, S
    <3> QED
      BY <2>1, <2>2, <3>1
  <2> QED
    BY <2>1, <2>4, <2>5
<1> QED
  BY <1>4, <1>5

(* The lines of the properties file.                                       *)
LEMMA OriginalLine ==
  ASSUME NEW f \in Formulas, NEW l \in f.lines
  PROVE  /\ l \in Seq(Property)
         /\ Separable(f) => IsLineAfter(f, 0, l)
         /\ \A truth : LineHolds(f, l, truth) <=> HoldsStill(f, ToSet(l), truth)
<1> DEFINE props == ToSet(l)
<1>1. l \in Seq(Seq(StateVariable) \ {<< >>}) /\ StateVariable \cap InitialState = {}
  BY FormulasAssumption
<1>2. \A p \in props : p \in Seq(StateVariable) /\ p # NoProperty
  BY <1>1 DEF ToSet, NoProperty
<1>3. l \in Seq(Property)
  BY OriginalType
<1>4. ASSUME NEW p \in props
      PROVE  \A s : s \notin StatesOf({p}) /\ s \notin StatesOf(props)
  <2>1. \A q \in props : \A s \in InitialState : ~ Mentions(q, s)
    BY <1>1, <1>2 DEF Mentions
  <2> HIDE DEF props
  <2> QED
    BY <2>1 DEF StatesOf
<1>5. ASSUME Separable(f)
      PROVE  IsLineAfter(f, 0, l)
  <2>1. SeparableLine(f, props)
    BY <1>5 DEF Separable, SeparableLine
  <2>2. HasVariablesAfter(f, 0, props)
    <3> SUFFICES ASSUME NEW i \in Variables(f, props)
                 PROVE  i > 0
      BY DEF HasVariablesAfter
    <3>1. i \in DOMAIN f.quants /\ f.quants \in Seq(Quantifier)
      BY FormulasAssumption DEF Variables
    <3> QED
      BY <3>1
  <2> QED
    BY <1>3, <2>1, <2>2 DEF IsLineAfter
<1>6. ASSUME NEW truth
      PROVE  LineHolds(f, l, truth) <=> HoldsStill(f, props, truth)
  <2> DEFINE U == Variables(f, props) \cap Universal(f)
             Says(p, u) == \E v \in Valuations(f, U \cup Variables(f, {p})) :
                             (\A i \in U : v[i] = u[i]) /\ Ground(f, p, v) \in truth
  <2>1. LineHolds(f, l, truth) <=> \A u \in Valuations(f, U) : \E p \in props : Says(p, u)
    BY DEF LineHolds
  <2>2. HoldsStill(f, props, truth) <=>
          \A u \in Valuations(f, U) : (\A i \in U : u[i] \notin StatesOf(props)) =>
            \E p \in props \ {NoProperty} : HoldsFor(f, p, U, u, truth)
    BY DEF HoldsStill
  <2> HIDE DEF U, props
  <2>3. \A p \in props : \A u : HoldsFor(f, p, U, u, truth) <=> Says(p, u)
    BY <1>4 DEF HoldsFor
  <2>4. \A p \in props : p \in props \ {NoProperty}
    BY <1>2
  <2>5. \A s : s \in StatesOf(props) => \A p \in props : FALSE
    BY <1>4
  <2> HIDE DEF Says
  <2>6. CASE props = {}
    BY <2>1, <2>2, <2>6 DEF StatesOf
  <2>7. CASE props # {}
    BY <2>1, <2>2, <2>3, <2>4, <2>5, <2>7
  <2> QED
    BY <2>6, <2>7
<1> QED
  BY <1>3, <1>5, <1>6

(* A line without variables.                                               *)
LEMMA FinalLine ==
  ASSUME NEW f \in Formulas, NEW l, IsLineAfter(f, Len(f.quants), l),
         NoProperty \notin ToSet(l), NEW truth
  PROVE  HoldsStill(f, ToSet(l), truth) <=> \E p \in ToSet(l) : p \in truth
<1> DEFINE props == ToSet(l)
           u == << >>
<1>1. \A i : i \notin Variables(f, props)
  <2> SUFFICES ASSUME NEW i \in Variables(f, props)
               PROVE  FALSE
    OBVIOUS
  <2>1. i \in DOMAIN f.quants /\ f.quants \in Seq(Quantifier)
    BY FormulasAssumption DEF Variables
  <2>2. i > Len(f.quants)
    BY DEF IsLineAfter, HasVariablesAfter
  <2> QED
    BY <2>1, <2>2
<1>2. IsExistential(f, props)
  BY <1>1 DEF IsExistential
<1> HIDE DEF u
<1>3. HoldsStill(f, props, truth) <=> \E p \in props \ {NoProperty} : HoldsFor(f, p, {}, u, truth)
  BY <1>2, HoldsExistentially
<1>4. ASSUME NEW p \in props
      PROVE  HoldsFor(f, p, {}, u, truth) <=> p \in truth
  <2>1. Variables(f, {p}) = {}
    <3>1. \A i : i \in Variables(f, {p}) => i \in Variables(f, props)
      BY DEF Variables
    <3> HIDE DEF props
    <3> QED
      BY <1>1, <3>1
  <2>2. HoldsFor(f, p, {}, u, truth) <=>
          \E w \in Valuations(f, Variables(f, {p})) : Ground(f, p, w) \in truth
    <3>1. {} \cup Variables(f, {p}) = Variables(f, {p}) /\ Variables(f, {p}) \ {} = {}
      BY <2>1
    <3> QED
      BY <3>1 DEF HoldsFor
  <2>3. p \in Property
    BY LineOfProperties DEF IsLineAfter, AreProperties
  <2>4. \A w \in Valuations(f, {}) : Ground(f, p, w) = p
    <3> SUFFICES ASSUME NEW w \in Valuations(f, {})
                 PROVE  Ground(f, p, w) = p
      OBVIOUS
    <3>1. DOMAIN w = {}
      BY DEF Valuations
    <3>2. Ground(f, p, w) = [k \in DOMAIN p |-> p[k]]
      BY <3>1 DEF Ground
    <3>3. p = [k \in DOMAIN p |-> p[k]]
      BY <2>3 DEF Property
    <3> QED
      BY <3>2, <3>3
  <2>5. Valuations(f, {}) # {}
    <3>1. [i \in {} |-> i] \in Valuations(f, {})
      BY DEF Valuations
    <3> QED
      BY <3>1
  <2> HIDE DEF props
  <2>6. (\E w \in Valuations(f, {}) : Ground(f, p, w) \in truth) <=> p \in truth
    BY <2>4, <2>5
  <2> QED
    BY <2>1, <2>2, <2>6
<1> QED
  BY <1>3, <1>4

(* What the lines say, after n quantifiers.                                *)
SayTheSame(f, ls, n) ==
  Separable(f) =>
    /\ \A l \in ls : IsLineAfter(f, n, l)
    /\ \A truth : Meaning(f, truth) <=> \A l \in ls : HoldsStill(f, ToSet(l), truth)

LEMMA SpreadInitSays == SpreadInit => SayTheSame(formula, lines, 0)
<1> SUFFICES ASSUME SpreadInit, Separable(formula)
             PROVE  /\ \A l \in lines : IsLineAfter(formula, 0, l)
                    /\ \A truth : Meaning(formula, truth) <=>
                         \A l \in lines : HoldsStill(formula, ToSet(l), truth)
  BY DEF SayTheSame
<1>1. formula \in Formulas /\ lines = formula.lines
  BY DEF SpreadInit
<1> QED
  BY <1>1, OriginalLine DEF Meaning

(* A quantifier of a program that tells its states apart.                  *)
LEMMA SpreadStepSays ==
  ASSUME SpreadTypeOK, SayTheSame(formula, lines, quantified), SpreadQuantifier(TRUE),
         expansion' # "failed"
  PROVE  SayTheSame(formula, lines, quantified)'
<1> DEFINE n == quantified
           q == formula.quants[n + 1]
<1> SUFFICES ASSUME Separable(formula')
             PROVE  /\ \A l \in lines' : IsLineAfter(formula', quantified', l)
                    /\ \A truth : Meaning(formula', truth) <=>
                         \A l \in lines' : HoldsStill(formula', ToSet(l), truth)
  BY DEF SayTheSame
<1>1. /\ formula' = formula /\ quantified' = n + 1 /\ n < Len(formula.quants)
      /\ \/ q.quant = "E" /\ lines' = {grow_horizontally(l, q.name, q.states) : l \in lines}
         \/ q.quant # "E" /\ lines' = UNION {grow_vertically(l, q.name, q.states) : l \in lines}
  BY DEF SpreadQuantifier, VisibleStates
<1>2. formula \in Formulas /\ n \in Nat /\ n + 1 \in DOMAIN formula.quants
  <2>1. formula \in Formulas /\ formula.quants \in Seq(Quantifier) /\ n \in Nat
    BY FormulasAssumption DEF SpreadTypeOK
  <2> QED
    BY <1>1, <2>1
<1>3. /\ \A l \in lines : IsLineAfter(formula, n, l)
      /\ \A truth : Meaning(formula, truth) <=> \A l \in lines : HoldsStill(formula, ToSet(l), truth)
  BY <1>1 DEF SayTheSame
<1> HIDE DEF n
<1>4. CASE q.quant = "E"
  <2>1. lines' = {grow_horizontally(l, q.name, q.states) : l \in lines}
    BY <1>1, <1>4
  <2>2. \A l \in lines : /\ IsLineAfter(formula, n + 1, grow_horizontally(l, q.name, q.states))
                         /\ \A truth : HoldsStill(formula, ToSet(grow_horizontally(l, q.name, q.states)), truth)
                                         <=> HoldsStill(formula, ToSet(l), truth)
    BY <1>2, <1>3, <1>4, HorizontalLine
  <2> HIDE DEF q
  <2> QED
    BY <1>1, <1>3, <2>1, <2>2
<1>5. CASE q.quant # "E"
  <2>1. lines' = UNION {grow_vertically(l, q.name, q.states) : l \in lines}
    BY <1>1, <1>5
  <2>2. q.quant = "A"
    BY <1>2, <1>5, QuantifierFacts
  <2>3. \A l \in lines : /\ \A k \in grow_vertically(l, q.name, q.states) : IsLineAfter(formula, n + 1, k)
                         /\ \A truth : HoldsStill(formula, ToSet(l), truth) <=>
                              \A k \in grow_vertically(l, q.name, q.states) :
                                HoldsStill(formula, ToSet(k), truth)
    BY <1>2, <1>3, <2>2, VerticalLine
  <2> HIDE DEF q
  <2>4. \A k : k \in lines' <=> \E l \in lines : k \in grow_vertically(l, q.name, q.states)
    BY <2>1
  <2> QED
    BY <1>1, <1>3, <2>3, <2>4
<1> QED
  BY <1>4, <1>5

-----------------------------------------------------------------------------
(* While a run instantiates its formula, the lines say what the formula    *)
(* says; before, they are the lines of the formula.                        *)
ExpansionInv ==
  /\ pc[self] # "parsed" => quantified = 0 /\ expansion = "running"
  /\ expansion = "done" =>
       quantified = Len(formula.quants) /\ \A l \in lines : NoProperty \notin ToSet(l)
  /\ expansion # "failed" /\ (ToldApart \/ pc[self] # "parsed")
       => SayTheSame(formula, lines, quantified)

LEMMA ParsedStays ==
  ASSUME FileTypeOK, FileNext, pc[self] = "parsed"
  PROVE  pc'[self] = "parsed" /\ program'[self] = program[self]
<1>1. PICK r \in Run : FileStep(r)
  BY DEF FileNext
<1>2. self \in DOMAIN pc /\ self \in DOMAIN program
  BY SelfAssumption DEF FileTypeOK
<1>3. pc[r] # "parsed"
  BY <1>1 DEF FileStep, ReadSketch, ExtendSketch, ParseSketch, TruncateSketch, WriteBack, Kill
<1>4. \E status : pc' = [pc EXCEPT ![r] = status]
  BY <1>1 DEF FileStep, ReadSketch, ExtendSketch, ParseSketch, TruncateSketch, WriteBack, Kill
<1>5. program' = program \/ \E content : program' = [program EXCEPT ![r] = content]
  BY <1>1 DEF FileStep, ReadSketch, ExtendSketch, ParseSketch, TruncateSketch, WriteBack, Kill
<1> QED
  BY <1>2, <1>3, <1>4, <1>5

LEMMA ExpansionInit == Init => ExpansionInv
<1> SUFFICES ASSUME Init
             PROVE  ExpansionInv
  OBVIOUS
<1>1. quantified = 0 /\ expansion = "running" /\ SayTheSame(formula, lines, 0)
  BY SpreadInitSays DEF Init, SpreadInit
<1> QED
  BY <1>1 DEF ExpansionInv

LEMMA ExpansionStep ==
  ASSUME SpreadTypeOK, FileTypeOK, ExpansionInv, [Next]_vars
  PROVE  ExpansionInv'
<1> USE DEF ExpansionInv
<1>1. CASE ParseProgram
  <2>1. UNCHANGED spread_vars /\ FileNext
    BY <1>1 DEF ParseProgram
  <2>2. UNCHANGED <<formula, lines, quantified, expansion>>
    BY <2>1 DEF spread_vars
  <2>3. SayTheSame(formula, lines, quantified) => SayTheSame(formula, lines, quantified)'
    BY <2>2
  <2>4. CASE pc[self] = "parsed"
    <3>1. pc'[self] = "parsed" /\ program'[self] = program[self]
      BY <2>1, <2>4, ParsedStays
    <3>2. ToldApart' <=> ToldApart
      BY <3>1 DEF ToldApart
    <3> QED
      BY <2>2, <2>3, <2>4, <3>1, <3>2
  <2>5. CASE pc[self] # "parsed"
    BY <2>2, <2>3, <2>5
  <2> QED
    BY <2>4, <2>5
<1>2. CASE Instantiating
  <2>1. pc[self] = "parsed" /\ (SpreadQuantifier(ToldApart) \/ ParseProperties) /\ UNCHANGED file_vars
    BY <1>2 DEF Instantiating
  <2>2. pc' = pc /\ (ToldApart' <=> ToldApart)
    BY <2>1 DEF file_vars, ToldApart
  <2>3. CASE SpreadQuantifier(ToldApart)
    <3>1. expansion = "running" /\ expansion' # "done"
      BY <2>3 DEF SpreadQuantifier
    <3>2. ASSUME ToldApart, expansion' # "failed"
          PROVE  SayTheSame(formula, lines, quantified)'
      <4>1. ToldApart = TRUE
        BY <3>2 DEF ToldApart
      <4>2. SpreadQuantifier(TRUE)
        BY <2>3, <4>1
      <4> QED
        BY <3>1, <3>2, <4>2, SpreadStepSays
    <3> QED
      BY <2>1, <2>2, <3>1, <3>2
  <2>4. CASE ParseProperties
    <3>1. /\ UNCHANGED <<formula, lines, quantified>> /\ expansion = "running"
          /\ quantified = Len(formula.quants)
          /\ expansion' = "done" => \A l \in lines : NoProperty \notin ToSet(l)
      BY <2>4 DEF ParseProperties
    <3>2. SayTheSame(formula, lines, quantified) => SayTheSame(formula, lines, quantified)'
      BY <3>1
    <3> QED
      BY <2>1, <2>2, <3>1, <3>2
  <2> QED
    BY <2>1, <2>3, <2>4
<1>3. CASE BuildingQuotient \/ UNCHANGED vars
  <2>1. UNCHANGED <<formula, lines, quantified, expansion, pc, program>>
    BY <1>3 DEF BuildingQuotient, vars, file_vars, spread_vars
  <2>2. SayTheSame(formula, lines, quantified) => SayTheSame(formula, lines, quantified)'
    BY <2>1
  <2>3. ToldApart' <=> ToldApart
    BY <2>1 DEF ToldApart
  <2> QED
    BY <2>1, <2>2, <2>3
<1> QED
  BY <1>1, <1>2, <1>3 DEF Next

(* The lines of a formula that has been instantiated.                      *)
LEMMA DoneIsCorrect ==
  ASSUME SpreadTypeOK, ExpansionInv, expansion = "done", ToldApart
  PROVE  ExpansionCorrect
<1> SUFFICES ASSUME Separable(formula), NEW truth
             PROVE  Meaning(formula, truth) <=> \A l \in lines : \E p \in ToSet(l) : p \in truth
  BY DEF ExpansionCorrect
<1>1. /\ formula \in Formulas /\ quantified = Len(formula.quants)
      /\ \A l \in lines : NoProperty \notin ToSet(l)
  BY DEF SpreadTypeOK, ExpansionInv
<1>2. /\ \A l \in lines : IsLineAfter(formula, Len(formula.quants), l)
      /\ Meaning(formula, truth) <=> \A l \in lines : HoldsStill(formula, ToSet(l), truth)
  BY <1>1 DEF ExpansionInv, SayTheSame
<1>3. \A l \in lines : HoldsStill(formula, ToSet(l), truth) <=> \E p \in ToSet(l) : p \in truth
  BY <1>1, <1>2, FinalLine
<1> QED
  BY <1>2, <1>3

-----------------------------------------------------------------------------
LoadingInv == SpreadTypeOK /\ QuotientInv

LEMMA InvariantOfLoading == Spec => []LoadingInv
<1>1. Init => LoadingInv
  BY SpreadInitType, InitEstablishesQuotientInv DEF Init, LoadingInv
<1>2. LoadingInv /\ [Next]_vars => LoadingInv'
  <2> SUFFICES ASSUME LoadingInv, [Next]_vars
               PROVE  LoadingInv'
    OBVIOUS
  <2>1. [QuotientNext]_quotient_vars
    BY DEF Next, ParseProgram, Instantiating, BuildingQuotient, vars
  <2>2. QuotientInv'
    BY <2>1, QuotientStepPreserves DEF LoadingInv
  <2>3. CASE UNCHANGED spread_vars
    <3>1. SpreadTypeOK'
      BY <2>3 DEF LoadingInv, SpreadTypeOK, spread_vars
    <3> QED
      BY <2>2, <3>1 DEF LoadingInv
  <2>4. CASE Instantiating
    <3>1. SpreadQuantifier(ToldApart) \/ ParseProperties
      BY <2>4 DEF Instantiating
    <3>2. ToldApart \in BOOLEAN
      BY DEF ToldApart
    <3>3. SpreadTypeOK'
      BY <3>1, <3>2, SpreadStepType DEF LoadingInv
    <3> QED
      BY <2>2, <3>3 DEF LoadingInv
  <2> QED
    BY <2>3, <2>4 DEF Next, ParseProgram, BuildingQuotient, vars
<1> QED
  BY <1>1, <1>2, PTL DEF Spec

(* Loading a sketch does nothing to the sketch file but what a run does.   *)
LEMMA LoadingUsesFile == Spec => FileSpec
<1>1. Init => FileInit
  BY DEF Init
<1>2. [Next]_vars => [FileNext]_file_vars
  BY DEF Next, ParseProgram, Instantiating, BuildingQuotient, vars
<1> QED
  BY <1>1, <1>2, PTL DEF Spec, FileSpec

(* The variables have their types: the holes and options of actions exist, *)
(* every hole of a family has an option, and the lines are made of         *)
(* properties, an empty one for a property without instances (HyperSketch. *)
(* __init__, spread_properties).                                           *)
THEOREM TypeCorrect == Spec => []TypeOK
<1>1. FileSpec => []FileTypeOK
  <2>1. FileInv => FileTypeOK
    BY DEF FileInv
  <2> QED
    BY <2>1, FileInvariant, PTL
<1>2. LoadingInv => SpreadTypeOK /\ QuotientTypeOK
  BY InvImpliesTypeOK DEF LoadingInv
<1>3. FileTypeOK /\ SpreadTypeOK /\ QuotientTypeOK => TypeOK
  BY DEF TypeOK
<1> QED
  BY <1>1, <1>2, <1>3, LoadingUsesFile, InvariantOfLoading, PTL

(* Whatever the other runs do to its file, a run that loads a sketch takes *)
(* and writes back nothing but the sketch, and the file is the sketch when *)
(* no run has its declaration in it (parse_program).                       *)
THEOREM FileShared == Spec => []OnlySketchAccepted /\ []FileRestored
BY LoadingUsesFile, SketchAccepted, SketchRestored, PTL

(* However a family was reached, by any splits, its MDP has just the       *)
(* actions of its members' chains (select_actions, build_chain).           *)
THEOREM ChainsOfFamily == Spec => []FamilyHasChains
<1>1. LoadingInv => FamilyHasChains
  BY InvImpliesChains DEF LoadingInv
<1> QED
  BY <1>1, InvariantOfLoading, PTL

(* The holes that the states of a quotient are given one after the other   *)
(* stand for its policies: an assignment takes one action in each state,   *)
(* the same label in related states, and no policy is missing (the loop of *)
(* HyperPropertyQuotientContainer.__init__).                               *)
THEOREM HolesOfSketch == Spec => HolesMatchSketch
<1>1. LoadingInv /\ quotient = "built" => HolesArePolicies
  BY InvImpliesPolicies DEF LoadingInv, QuotientInv, FamilyInv
<1>2. LoadingInv' => (quotient # "built" /\ quotient' = "built" => HolesArePolicies')
  <2> DEFINE Inv == LoadingInv /\ quotient = "built"
  <2>1. Inv => HolesArePolicies
    BY <1>1
  <2> HIDE DEF Inv
  <2>2. Inv' => HolesArePolicies'
    BY <2>1, PTL
  <2>3. LoadingInv' /\ quotient' = "built" => Inv'
    BY DEF Inv
  <2> QED
    BY <2>2, <2>3
<1> QED
  BY <1>2, InvariantOfLoading, PTL DEF HolesMatchSketch

(* What a run goes on to check is what its formula says about the initial  *)
(* states, if its program tells schedulers apart (spread_properties).      *)
THEOREM LoadedFormulas == Spec => LoadedFormulaCorrect
<1>1. Spec => [](SpreadTypeOK /\ FileTypeOK)
  <2>1. TypeOK => SpreadTypeOK /\ FileTypeOK
    BY DEF TypeOK
  <2> QED
    BY <2>1, TypeCorrect, PTL
<1>2. Init => ExpansionInv
  BY ExpansionInit
<1>3. SpreadTypeOK /\ FileTypeOK /\ ExpansionInv /\ [Next]_vars => ExpansionInv'
  BY ExpansionStep
<1>4. (SpreadTypeOK /\ ExpansionInv)' =>
        (expansion # "done" /\ expansion' = "done" => (ToldApart => ExpansionCorrect)')
  <2>1. SpreadTypeOK /\ ExpansionInv => (expansion = "done" /\ ToldApart => ExpansionCorrect)
    BY DoneIsCorrect
  <2>2. (SpreadTypeOK /\ ExpansionInv)' => (expansion = "done" /\ ToldApart => ExpansionCorrect)'
    BY <2>1, PTL
  <2> QED
    BY <2>2
<1> QED
  BY <1>1, <1>2, <1>3, <1>4, PTL DEF Spec, LoadedFormulaCorrect

=============================================================================
