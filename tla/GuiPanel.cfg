SPECIFICATION Spec
CONSTANTS
  Panels = {folder}
  MaxRuns = 2
  MaxEvents = 2
  MaxEventsPerPoll = 1
INVARIANTS
  CancelShown
PROPERTIES
  ResultShownOnce
  ControlsComeBack
