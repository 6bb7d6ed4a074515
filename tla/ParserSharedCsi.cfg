SPECIFICATION Spec
CONSTANTS
  t1 = t1
  t2 = t2
  Terms <- MCTerms
  Runes <- MCCsiRunes
  EscBufSiz = 4
  EscArgSiz = 2
  SizeMax = 20
INVARIANT CsiTerminatorFits
