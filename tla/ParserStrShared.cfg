SPECIFICATION Spec
CONSTANTS
  t1 = t1
  t2 = t2
  Terms <- MCTerms
  Runes <- MCStrRunes
  EscBufSiz = 4
  EscArgSiz = 2
  SizeMax = 20
VIEW ParserView
SYMMETRY MCSymmetry
INVARIANT StrTerminatorFits
