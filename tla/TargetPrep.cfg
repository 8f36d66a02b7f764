CONSTANTS
  p0 = p0
  p1 = p1
  p2 = p2
  Names <- MCNames
  Workspace <- ws
  RunNames <- MCRunNames
  Scenes <- AllScenes
SPECIFICATION Spec
CHECK_DEADLOCK FALSE
INVARIANTS CreatesOnlyInside AloneSucceedsIffAcceptable IsolatedRunIsOwn
  PreparedServesAll MountsStayInside
PROPERTY KeepsWhatExists
SYMMETRY Symmetry
