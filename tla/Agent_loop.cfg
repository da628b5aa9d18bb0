\* Two requests, counters up to three, six events.
SPECIFICATION Spec
CONSTANTS
  MaxSteps = 2
  Top = 3
  Reports <- MCReports
  MaxEvents = 6
INVARIANTS
  TypeOK
  EventsAreComplete
  AskedWithinBudget
\* A run ends.
CHECK_DEADLOCK FALSE
