----------------------------- MODULE HyperSketch -----------------------------
(***************************************************************************)
(* Loading a sketch (HyperSketch.__init__, HyperParser.parse_properties):  *)
(* a run has the program parsed, instantiates the quantified properties    *)
(* for its initial states and builds the quotient MDP, while other runs    *)
(* use the same sketch file.                                               *)
(***************************************************************************)
EXTENDS SketchFile, QuantifierExpansion, Quotient

CONSTANT self   (* the run whose sketch is loaded                          *)

ASSUME SelfAssumption == self \in Run

vars == <<file_vars, spread_vars, quotient_vars>>

Init == FileInit /\ SpreadInit /\ QuotientInit

(* The program distinguishes the states of different schedulers.           *)
ToldApart == n_sched_quants = 1 \/ program[self].declarations = 1

ParseProgram ==
  /\ FileNext
  /\ UNCHANGED <<spread_vars, quotient_vars>>

Instantiating ==
  /\ pc[self] = "parsed"
  /\ SpreadQuantifier(ToldApart) \/ ParseProperties
  /\ UNCHANGED <<file_vars, quotient_vars>>

BuildingQuotient ==
  /\ expansion = "done"
  /\ QuotientNext
  /\ UNCHANGED <<file_vars, spread_vars>>

Next == ParseProgram \/ Instantiating \/ BuildingQuotient

Spec == Init /\ [][Next]_vars

-----------------------------------------------------------------------------
(* The variables of the three parts have their types, the holes and        *)
(* options of actions exist and no family has a hole without options.      *)
TypeOK == FileTypeOK /\ SpreadTypeOK /\ QuotientTypeOK

(* What a run goes on to check is what its formula says, if the program it *)
(* parsed tells schedulers apart (parse_program, spread_properties).       *)
LoadedFormulaCorrect ==
  [][expansion # "done" /\ expansion' = "done" => (ToldApart => ExpansionCorrect)']_vars

(* The step that completes the quotient leaves holes whose assignments are *)
(* the policies of the sketch.                                             *)
HolesMatchSketch == [][quotient # "built" /\ quotient' = "built" => HolesArePolicies']_vars

=============================================================================
