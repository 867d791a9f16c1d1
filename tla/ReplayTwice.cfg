\* Two pollers: one reads a run the other has just claimed.
SPECIFICATION Spec
CONSTANTS
  MaxRun = 1
  Capsules = {c1}
  Pollers = {p1, p2}
  OneShots = {}
  Results <- TypicalResults
  EventsPerRun = 1
  MaxCrashes = 0
  MaxManual = 0
  MaxResets = 0
  MaxApiRestarts = 0
INVARIANTS
  SingleExecution
