CONSTANTS
  Cols = 3
  Rows = 1
  Narrow = {"a"}
  Wide = {}
  Args = {7}
  Sizes = {}
  IntBits = 4
  TabSpaces = 2
  AllowAltScreen = FALSE
  PrivateModes = {}
  AnsiModes = {}
  Inputs <- MCAllInputs
SPECIFICATION Spec
PROPERTY CursorForwardNeverBack
