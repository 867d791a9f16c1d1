\* A poller and a worker started by hand on any run, a crash and a demo reset.
SPECIFICATION Spec
CONSTANTS
  MaxRun = 2
  Capsules = {c1}
  Pollers = {p1}
  OneShots = {o1}
  Results <- TypicalResults
  EventsPerRun = 1
  MaxCrashes = 1
  MaxManual = 1
  MaxResets = 1
  MaxApiRestarts = 0
INVARIANTS
  WhatIfGate
  EvidencePersisted
PROPERTIES
  TerminalIsFinal
  ImplementsLifecycle
