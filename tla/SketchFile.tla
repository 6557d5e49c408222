------------------------------ MODULE SketchFile ------------------------------
(***************************************************************************)
(* The sketch file while it is parsed (HyperParser.parse_program).  With   *)
(* several scheduler variables the parser adds the declaration of the      *)
(* variable sched_quant to the file itself, has Storm parse the file, and  *)
(* writes back what it had read.  Several runs of the program may use the  *)
(* same sketch, and each may be killed at any moment (mcbench.sh runs the  *)
(* program under a timeout).                                               *)
(*                                                                         *)
(* What matters of the file is whether it has the body of the sketch, with *)
(* its init ... endinit, and how many declarations were added to it.       *)
(***************************************************************************)
EXTENDS Naturals

CONSTANTS
  Run,             (* the runs of the program on the sketch                *)
  n_sched_quants   (* the number of scheduler variables                    *)

ASSUME SketchFileAssumption == n_sched_quants \in Nat \ {0}

VARIABLES
  sketch_file,     (* the content of the file                              *)
  read_lines,      (* the content each run has read                        *)
  program,         (* the content each run has had parsed                  *)
  pc,              (* where each run is                                    *)
  extended         (* history: runs that extended the file and have not    *)
                   (* written it back                                      *)

file_vars == <<sketch_file, read_lines, program, pc, extended>>

Content == [body : BOOLEAN, declarations : Nat]

Original == [body |-> TRUE, declarations |-> 0]
Empty == [body |-> FALSE, declarations |-> 0]

FileInit ==
  /\ sketch_file = Original
  /\ read_lines = [r \in Run |-> Empty]
  /\ program = [r \in Run |-> Empty]
  /\ pc = [r \in Run |-> "read"]
  /\ extended = {}

(* parse_formulas_and_check_init raises: the reserved word is in the file, *)
(* or there is no init ... endinit.                                        *)
(* Mutant: a file without init ... endinit is accepted.                    *)
RefusedIfReserved(content) == content.declarations > 0

Refused(content) == content.declarations > 0 \/ ~ content.body

ReadSketch(r) ==
  /\ pc[r] = "read"
  /\ read_lines' = [read_lines EXCEPT ![r] = sketch_file]
  /\ pc' = [pc EXCEPT ![r] = IF Refused(sketch_file) THEN "refused"
                             ELSE IF n_sched_quants > 1 THEN "extend" ELSE "parse"]
  /\ UNCHANGED <<sketch_file, program, extended>>

ExtendSketch(r) ==
  /\ pc[r] = "extend"
  /\ sketch_file' = [sketch_file EXCEPT !.declarations = @ + 1]
  /\ extended' = extended \cup {r}
  /\ pc' = [pc EXCEPT ![r] = "parse"]
  /\ UNCHANGED <<read_lines, program>>

(* Storm's parser fails without a body or if a variable is declared twice; *)
(* nothing catches its exception.                                          *)
Parses(content) == content.body /\ content.declarations <= 1

ParseSketch(r) ==
  /\ pc[r] = "parse"
  /\ IF Parses(sketch_file)
     THEN /\ program' = [program EXCEPT ![r] = sketch_file]
          /\ pc' = [pc EXCEPT ![r] = IF n_sched_quants > 1 THEN "truncate" ELSE "parsed"]
     ELSE /\ pc' = [pc EXCEPT ![r] = "parse_failed"]
          /\ UNCHANGED program
  /\ UNCHANGED <<sketch_file, read_lines, extended>>

(* The file is opened for writing, then written when it is closed; what is *)
(* written is longer than what another run may have added in between.      *)
TruncateSketch(r) ==
  /\ pc[r] = "truncate"
  /\ sketch_file' = Empty
  /\ pc' = [pc EXCEPT ![r] = "write"]
  /\ UNCHANGED <<read_lines, program, extended>>

(* Mutant: the lines are written with the declaration.                     *)
WrittenParsed(r) == program[r]

Written(r) == read_lines[r]

WriteBack(r) ==
  /\ pc[r] = "write"
  /\ sketch_file' = Written(r)
  /\ extended' = extended \ {r}
  /\ pc' = [pc EXCEPT ![r] = "parsed"]
  /\ UNCHANGED <<read_lines, program>>

Kill(r) ==
  /\ pc[r] \in {"read", "extend", "parse", "truncate", "write"}
  /\ pc' = [pc EXCEPT ![r] = "killed"]
  /\ UNCHANGED <<sketch_file, read_lines, program, extended>>

FileStep(r) ==
  ReadSketch(r) \/ ExtendSketch(r) \/ ParseSketch(r) \/ TruncateSketch(r) \/ WriteBack(r) \/ Kill(r)

FileNext == \E r \in Run : FileStep(r)

FileSpec == FileInit /\ [][FileNext]_file_vars

-----------------------------------------------------------------------------
FileTypeOK ==
  /\ sketch_file \in Content
  /\ read_lines \in [Run -> Content]
  /\ program \in [Run -> Content]
  /\ pc \in [Run -> {"read", "refused", "extend", "parse", "parse_failed", "truncate",
                     "write", "parsed", "killed"}]
  /\ extended \subseteq Run

(* A run never takes the file in an intermediate state for the sketch: the *)
(* content a run goes on with, and may write back, is the original one     *)
(* (the checks of parse_formulas_and_check_init).                          *)
OnlySketchAccepted ==
  \A r \in Run : pc[r] \in {"extend", "parse", "truncate", "write", "parsed"}
                   => read_lines[r] = Original

(* The file is as it was unless a run has extended it and has not written  *)
(* it back: a run that is still at it, was killed, or failed to parse.     *)
FileRestored == extended = {} => sketch_file = Original

=============================================================================
