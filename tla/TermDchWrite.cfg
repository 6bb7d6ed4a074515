CONSTANTS
  Cols = 3
  Rows = 1
  Narrow = {"a"}
  Wide = {"W"}
  Args = {1}
  Sizes = {}
  IntBits = 4
  TabSpaces = 2
  AllowAltScreen = FALSE
  PrivateModes = {}
  AnsiModes = {}
  Inputs <- MCAllInputs
SPECIFICATION Spec
INVARIANT NoOutOfRowWrite
