CONSTANTS
  Runes <- MCRunes
  ByteStrings <- MCByteStrings
  Messages <- MCMessages
  Whitespace <- MCWhitespace
  Junk <- MCJunk
  Screens <- MCScreens
  CHUNK_SIZE = 4
  CodeOf <- MCCodeOf
  DefaultFg = 258
  DefaultBg = 259
  Attrs <- MCAttrs
  SgrVectors <- MCSgrVectors
SPECIFICATION Spec
CHECK_DEADLOCK FALSE
INVARIANT Utf8RoundTrip Utf8DecodeWellFormed Base64Fits Base64DecodesStandard DumpsAgree SgrMatchesSpec
