\* One poller that may crash and be restarted, and a restarted Core API: all runner results.
SPECIFICATION FairSpec
CONSTANTS
  MaxRun = 2
  Capsules = {c1}
  Pollers = {p1}
  OneShots = {}
  Results <- AllResults
  EventsPerRun = 2
  MaxCrashes = 1
  MaxManual = 0
  MaxResets = 0
  MaxApiRestarts = 1
INVARIANTS
  TypeOK
  SingleExecution
  EvidenceIsExact
PROPERTIES
  CreatedIsTaken
  RunningSettles
