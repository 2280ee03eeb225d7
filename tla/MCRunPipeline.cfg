\* Two runs, two workers, one backend, one fault.
CONSTANTS
  Runs = {r1, r2}
  Workers = {w1, w2}
  Consumers = {c1}
  NodeCount = 1
  WorkerCount = 2
  EventCount = 2
  MaxFaults = 1
SPECIFICATION Spec
SYMMETRY Symmetry
INVARIANTS
  TransportSound
  RelayedIsSaved
PROPERTIES
  RunsAdvance
