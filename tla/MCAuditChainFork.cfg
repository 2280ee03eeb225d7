\* Two transactions, nobody edits anything.
CONSTANTS
  Writers = {w1, w2}
  MaxEntries = 1
  MaxEdits = 0
SPECIFICATION Spec
INVARIANT
  BrokenMeansEdited
