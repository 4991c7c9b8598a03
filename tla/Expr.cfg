SPECIFICATION Spec
CONSTANTS
  WordBits = 3
  MaxCycle = 5
  FlagNames = {"$flag_seen"}
  CounterNames = {"$counter_n"}
  Width <- MCWidth
  Inputs <- MCInputs
  Programs <- MCPrograms
INVARIANTS
  FollowsProgram
  IterativeMatchesRecursive
