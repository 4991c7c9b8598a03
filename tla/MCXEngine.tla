----------------------------- MODULE MCXEngine -----------------------------
(* Model-checking instances of the engine. *)
EXTENDS XEngine, TLC

CONSTANTS e1, e2, none
MCSymmetry == Permutations({e1, e2})

MCNoRoot == "none"
MCRoot   == "r"

From(kind, on) ==
  [kind |-> kind, phase |-> on, mode |-> "Enter", cycles |-> 0,
   program |-> [kind |-> "Expr", root |-> MCRoot, mode |-> "Enter"]]

StepOn(kind) ==
  [kind |-> kind, root |-> MCRoot, minimum |-> 0, maximum |-> 0, cycles |-> 0]

RisingEdge  == From("Edge", "RisingStable")
DriveSample == From("Sample", "DriveStable")
TwoCycles   == [From("ClockCycles", "RisingStable") EXCEPT !.cycles = 2]
BecomesTrue == From("Expr", "RisingStable")
Changes     == From("ValueChange", "RisingStable")
Sequence    == [From("Sequence", "RisingStable") EXCEPT
                  !.program = [kind |-> "Sequence", steps |-> <<StepOn("Wait"), StepOn("Next")>>]]
Machine     == [From("Fsm", "FallingStable") EXCEPT
                  !.program = [kind |-> "Fsm", states |-> 2, start |-> 0,
                     transitions |->
                       <<[from |-> 0, root |-> MCRoot, next |-> 1, trigger |-> FALSE, terminal |-> 0],
                         [from |-> 1, root |-> MCNoRoot, next |-> 0, trigger |-> TRUE, terminal |-> 3]>>]]

MCWaits    == {DriveSample, TwoCycles, BecomesTrue, Changes, Sequence}
MCShared   == {RisingEdge}
MCCounting == {TwoCycles}
=============================================================================
