\* Two boards with one serial and a plain one, with the udev tree; two moves.
SPECIFICATION Spec
CONSTANTS
  Boards <- MCBoards
  Port <- MCPort
  Serial <- MCSerial
  Shape <- MCShape
  Nodes = {ttyACM0, ttyACM1, ttyACM2}
  Labels <- MCLabels
  Selectors <- MCSelectors
  HasTree = TRUE
  None = None
  MaxMoves = 2
SYMMETRY Symmetry
INVARIANTS
  SettledMeansRight
  OnlyTheNamedBoards
  SelectorsByShape
CHECK_DEADLOCK FALSE
