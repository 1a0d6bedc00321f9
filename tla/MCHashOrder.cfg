CONSTANTS
  HashSize = 4
  Radix = 2
  Slices <- MCSlices
  Texts <- MCTexts
SPECIFICATION Spec
INVARIANTS
  TextIsInByteOrder
