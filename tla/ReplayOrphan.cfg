\* Two pollers, one of which dies after a claim.
SPECIFICATION FairSpec
CONSTANTS
  MaxRun = 1
  Capsules = {c1}
  Pollers = {p1, p2}
  OneShots = {}
  Results <- TypicalResults
  EventsPerRun = 1
  MaxCrashes = 1
  MaxManual = 0
  MaxResets = 0
  MaxApiRestarts = 0
PROPERTIES
  ValidatingSettles
