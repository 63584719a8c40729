SPECIFICATION Spec
CONSTANTS
  Panels = {folder, verify}
  MaxRuns = 2
  MaxEvents = 0
  MaxEventsPerPoll = 1
SYMMETRY MC_Symmetry
INVARIANTS
  GlobalsOwned
