\* One viewer of a run of three nodes.
CONSTANTS
  Viewers = {v1}
  NodeCount = 3
SPECIFICATION FairSpec
INVARIANTS
  StreamSound
  PromptSeesAll
PROPERTIES
  PromptEnds
