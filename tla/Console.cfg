SPECIFICATION Spec
CONSTANTS
  File = {x, y}
  Key = {k1, k2}
  Task = {t1}
  Slot = {f1, f2}
  LoneSlot = {f0}
SYMMETRY Symmetry
INVARIANTS
  TimersAccounted
  PageShowsItsFiles
  DraftInStep
  FieldsInStep
  StateShown
  PreviewExact
CHECK_DEADLOCK FALSE
