----------------------------- MODULE Enumeration -----------------------------
(***************************************************************************)
(* The methods that analyse one assignment after the other                 *)
(* (hypersynthesizers/hypersynthesizer.py): HyperSynthesizer1By1 visits    *)
(* every combination of options, HyperSynthesizerCEGIS asks a solver for   *)
(* an assignment that no clause excludes.  The clauses, or the visited     *)
(* combinations, are kept as the families they exclude.  One step is one   *)
(* iteration of the loop.                                                  *)
(***************************************************************************)
EXTENDS AssignmentAnalysis

CONSTANT Tasks   (* the tasks considered: TLC starts from each of them *)

ASSUME TasksAssumption == Tasks \subseteq Task

VARIABLES
  method,                 (* "onebyone" or "cegis", fixed                  *)
  task,                   (* the problem and the command line, fixed       *)
  excluded,               (* the families excluded so far                  *)
  satisfying_assignment,  (* the result so far, or None                    *)
  optimum,                (* the optimum kept by the specification         *)
  status                  (* "running", "stopped", "exhausted", "failed"   *)

vars == <<method, task, excluded, satisfying_assignment, optimum, status>>

(* The variables range over results and families of the design space: in   *)
(* particular every clause of exclude_assignment is a subfamily.           *)
TypeOK ==
  /\ method \in {"onebyone", "cegis"}
  /\ task \in Task
  /\ excluded \subseteq Family
  /\ satisfying_assignment \in Assignment \cup {None}
  /\ optimum \in Nat \cup {None}
  /\ status \in {"running", "stopped", "exhausted", "failed"}

-----------------------------------------------------------------------------
(* sat_initialize: the solver has no clause.                               *)
Init ==
  /\ method \in {"onebyone", "cegis"}
  /\ task \in Tasks
  /\ excluded = {}
  /\ satisfying_assignment = None
  /\ optimum = None
  /\ status = "running"

(* The combinations to come, or what pick_assignment may return.           *)
Candidates == {a \in Assignment : \A F \in excluded : a \notin Members(F)}

Adopt(a) ==
  /\ satisfying_assignment' = a
  /\ optimum' = UpdatedOptimum(task, a, optimum)

KeepResult == UNCHANGED <<satisfying_assignment, optimum>>

(* 1-by-1: the assignment violates the specification.                      *)
Skip(a) ==
  /\ ~ AllSat(task, Constraint, a)
  /\ KeepResult
  /\ UNCHANGED status

(* 1-by-1: one solution is enough.                                         *)
TakeFirst(a) ==
  /\ AllSat(task, Constraint, a)
  /\ task.objective # "sched_hyperoptimality"
  /\ ~ task.explore_all
  /\ Adopt(a)
  /\ status' = "stopped"

(* 1-by-1: the result of the scheduler difference is consulted, whether or *)
(* not the specification asks for it.                                      *)
Consult(a) ==
  /\ AllSat(task, Constraint, a)
  /\ task.objective # "sched_hyperoptimality"
  /\ task.explore_all
  /\ status' = "failed"
  /\ KeepResult

Compare(a) ==
  /\ AllSat(task, Constraint, a)
  /\ task.objective = "sched_hyperoptimality"
  /\ IF ImprovesOptimum(task, DifferenceOf(a, task.minimizing), optimum)
     THEN Adopt(a)
     ELSE KeepResult
  /\ UNCHANGED status

Visit ==
  /\ status = "running"
  /\ method = "onebyone"
  /\ \E a \in Candidates :
       /\ excluded' = excluded \cup {AsFamily(a)}
       /\ Skip(a) \/ TakeFirst(a) \/ Consult(a) \/ Compare(a)
  /\ UNCHANGED <<method, task>>

(* CEGIS: the difference of schedulers is not supported.                   *)
NotSupported ==
  /\ status = "running"
  /\ method = "cegis"
  /\ Candidates # {}
  /\ task.objective = "sched_hyperoptimality"
  /\ status' = "failed"
  /\ UNCHANGED <<method, task, excluded, satisfying_assignment, optimum>>

(* CEGIS: a solution, and there is no objective.                           *)
(* Mutant: a solution is not excluded when the whole space is explored.    *)
SolutionKept(a) ==
  /\ AllSat(task, Constraint, a)
  /\ task.objective = "none"
  /\ Adopt(a)
  /\ status' = IF task.explore_all THEN status ELSE "stopped"
  /\ UNCHANGED excluded

Solution(a) ==
  /\ AllSat(task, Constraint, a)
  /\ task.objective = "none"
  /\ Adopt(a)
  /\ IF task.explore_all
     THEN excluded' = excluded \cup {AsFamily(a)} /\ UNCHANGED status
     ELSE status' = "stopped" /\ UNCHANGED excluded

(* CEGIS: conflicts.  A solution that improves the optimum is adopted      *)
(* first, so that it is itself in conflict with the new optimum.           *)
Conflict(a) ==
  /\ AllSat(task, Constraint, a) => task.objective # "none"
  /\ IF AllSat(task, Constraint, a) /\ Adopts(task, a, optimum)
     THEN Adopt(a)
     ELSE KeepResult
  /\ \E families \in Exclusions(task, Options, Constraint, a, optimum') :
       excluded' = excluded \cup families
  /\ UNCHANGED status

Analyze ==
  /\ status = "running"
  /\ method = "cegis"
  /\ task.objective # "sched_hyperoptimality"
  /\ \E a \in Candidates : Solution(a) \/ Conflict(a)
  /\ UNCHANGED <<method, task>>

(* No combination is left, or the solver answers unsat.                    *)
Exhaust ==
  /\ status = "running"
  /\ Candidates = {}
  /\ status' = "exhausted"
  /\ UNCHANGED <<method, task, excluded, satisfying_assignment, optimum>>

(* The program has ended.                                                  *)
Terminated == status # "running" /\ UNCHANGED vars

Next == Visit \/ NotSupported \/ Analyze \/ Exhaust \/ Terminated

Spec == Init /\ [][Next]_vars

(* The loop runs on its own: nothing else has to happen for its next step. *)
FairSpec == Spec /\ WF_vars(Visit \/ NotSupported \/ Analyze \/ Exhaust)

-----------------------------------------------------------------------------
(***************************************************************************)
(* Properties.                                                             *)
(***************************************************************************)

(* No excluded assignment would improve on the result: the clauses, each   *)
(* drawn from one assignment and the optimum of its time, never rule out a *)
(* better assignment (analyze_family_assignment_cegis, exclude_assignment).*)
NoSolutionLost ==
  status # "failed" =>
    \A a \in Assignment : ImprovesResult(task, a, satisfying_assignment) => a \in Candidates

(* What 1-by-1 excludes it has compared itself; CEGIS also excludes what   *)
(* its conflicts take for violated or for no improvement.                  *)
Respected == IF method = "cegis" THEN ClearlySat(task) ELSE task.sat
Margin == IF method = "cegis" THEN Tolerance(task) ELSE Precision(task)

(* Whatever the tolerances, no excluded assignment is better than the      *)
(* result by more than the larger of the two comparisons' and satisfies    *)
(* the specification by more than the generator's (Counterexample.cpp      *)
(* against property.py).                                                   *)
LossWithinTolerance ==
  status # "failed" =>
    \A a \in Assignment \ Candidates :
      ~ ImprovesBeyond(task, Respected, a, satisfying_assignment, Margin)

(* Every step that does not end the program excludes the assignment it     *)
(* analysed, so the loop terminates (the loops of synthesize).             *)
Terminates == <>(status # "running")

(* The abstract specification: both methods adopt only better and better   *)
(* solutions, and end with a best one, up to the tolerances of CEGIS.      *)
Abstract == INSTANCE Synthesis WITH
  respected <- Respected,
  margin    <- Margin,
  finished  <- status \in {"stopped", "exhausted"}
RefinesSynthesis == Abstract!Spec

=============================================================================
