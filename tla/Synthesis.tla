------------------------------ MODULE Synthesis ------------------------------
(***************************************************************************)
(* What every synthesis method promises to the user of the command line,   *)
(* whatever it does inside: each assignment it adopts satisfies the        *)
(* specification and, under an objective, improves on the one before; and  *)
(* it stops with a result if it may stop at the first one, and otherwise   *)
(* only when no assignment would still improve on its result.  A method    *)
(* that excludes assignments with a tolerance of its own promises less: no *)
(* assignment that satisfies the constraints with what it respects would   *)
(* improve on the result by more than the margin.                          *)
(***************************************************************************)
EXTENDS FamilyAnalysis

VARIABLES
  task,                   (* the problem and the command line, fixed       *)
  satisfying_assignment,  (* the result so far, or None                    *)
  respected,              (* what the method takes for satisfied, fixed    *)
  margin,                 (* what it takes for no improvement, fixed       *)
  finished                (* synthesize has returned                       *)

avars == <<task, satisfying_assignment, respected, margin, finished>>

Init ==
  /\ task \in Task
  /\ satisfying_assignment = None
  /\ respected \in [Constraint -> SUBSET Assignment]
  /\ \A c \in Constraint : respected[c] \subseteq task.sat[c]
  /\ margin \in Nat
  /\ margin >= Precision(task)
  /\ finished = FALSE

(* A better result; without an objective any other solution will do.       *)
Adopt ==
  /\ ~ finished
  /\ \E a \in Assignment :
       /\ SatisfiesSpec(task.sat, a)
       /\ task.objective = "none" \/ ImprovesResult(task, a, satisfying_assignment)
       /\ satisfying_assignment' = a
  /\ finished' \in {FALSE, ~ task.explore_all}
  /\ UNCHANGED <<task, respected, margin>>

Finish ==
  /\ ~ finished
  /\ ~ \E a \in Assignment :
         ImprovesBeyond(task, respected, a, satisfying_assignment, margin)
  /\ finished' = TRUE
  /\ UNCHANGED <<task, satisfying_assignment, respected, margin>>

Next == Adopt \/ Finish

Spec == Init /\ [][Next]_avars

=============================================================================
