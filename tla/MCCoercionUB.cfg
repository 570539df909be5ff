CONSTANTS
  Samples <- MCSamples
  CharSigned = TRUE
  SizeofLong = 8
  MaxDepth = 3
SPECIFICATION Spec
INVARIANT NoUndefinedCast
