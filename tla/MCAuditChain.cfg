\* Three transactions of up to two rows, one edit.
CONSTANTS
  Writers = {w1, w2, w3}
  MaxEntries = 2
  MaxEdits = 1
SPECIFICATION Spec
SYMMETRY Symmetry
INVARIANTS
  ChainSound
  SerialChainVerifies
