CONSTANTS
  Cols = 2
  Rows = 2
  Narrow = {"a"}
  Wide = {}
  Args = {1, 2}
  Sizes <- MCAltSizes
  IntBits = 4
  TabSpaces = 2
  AllowAltScreen = TRUE
  PrivateModes = {1047, 1048, 1049}
  AnsiModes = {}
  Inputs <- MCContentInputs
SPECIFICATION AltSpec
VIEW AltTripView
INVARIANT AltScreenClean
PROPERTY AltRoundTrip
