------------------------------ MODULE MCXClock ------------------------------
(* Model-checking instances of the clock. *)
EXTENDS XClock, TLC

CONSTANTS f, g, null
MCFuncs == {f, g}
MCSymmetry == Permutations(MCFuncs)

(* Calls that leave half steps whole, and those that may cut them short. *)
MCOrderly  == {"Step", "StepHalf", "RunUntil", "Disable", "AddCallBack", "ClearCallBacks",
               "RemoveCallBack", "AcquireClock", "ReleaseClock"}
MCAllCalls == MCOrderly \cup {"Reset", "Throw", "default_stop_on_rise"}
MCThrow    == {"Throw"}
MCReset    == {"Reset"}
=============================================================================
