CONSTANTS
  Cols = 3
  Rows = 2
  Narrow = {"a"}
  Wide = {"W"}
  Args = {0, 7}
  Sizes <- MCSizes
  IntBits = 4
  TabSpaces = 2
  AllowAltScreen = FALSE
  PrivateModes = {6, 7, 1048}
  AnsiModes = {4, 20}
  Inputs <- MCAllInputs
SPECIFICATION Spec
VIEW GeometryView
INVARIANT TypeOK
INVARIANT CursorInBounds
