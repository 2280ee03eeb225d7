\* Two backends, no crashes: what can be delivered is answered, and the
\* answer stays unless the other backend overtakes it.
CONSTANTS
  Runs = {r1}
  Workers = {w1, w2}
  Consumers = {c1, c2}
  NodeCount = 2
  WorkerCount = 2
  EventCount = 1
  MaxFaults = 0
SPECIFICATION FairSpec
PROPERTY
  DeliverableEnds
