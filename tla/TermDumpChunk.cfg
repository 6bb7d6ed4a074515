CONSTANTS
  CHUNK_SIZE = 4
  CodeOf <- MCCodeOf
  Cols = 2
  Rows = 2
  Narrow = {"a"}
  Wide = {}
  Args = {1}
  Sizes = {}
  IntBits = 4
  TabSpaces = 2
  AllowAltScreen = FALSE
  PrivateModes = {}
  AnsiModes = {}
  Inputs <- MCContentInputs
SPECIFICATION Spec
INVARIANT DumpChunksFit
