SPECIFICATION Spec
CONSTANTS
  Cols = 2
  Pages = 2
  Cell = 2
  Channels = {0, 1}
  NoChannel <- MCNoChannel
  MaxLit = 3
CONSTRAINT Bounds
PROPERTIES ImplementsScreen
