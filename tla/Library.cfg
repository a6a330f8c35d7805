SPECIFICATION Spec
CONSTANTS
  BaseId = {b1}
  NewId = {n1, n2}
  LoneNewId = {n0}
  ApiThread = {a1, a2}
  LoneThread = {a0}
  WorkerThread = {w1}
  NoOne = NoOne
  Cut = Cut
  Torn = Torn
  Request = {r1, r2, r3}
  Slot = {f1, f2}
SYMMETRY Symmetry
INVARIANTS
  OverlayExact
  EditsKept
  ListCurrent
  PagesExact
  ConfirmedIsKept
  FinalIsFrozen
  NothingHidden
  PermitsAccounted
PROPERTIES
  OpensOnRows
CHECK_DEADLOCK FALSE
