SPECIFICATION Spec
CONSTANTS
  Bytes = 6
  AutoAt = 1
  MarkAt = 2
  Set = 136
  Erased = 255
  Chars = {1, 2}
  Names <- MCNames
  InitialStore <- MCInitialStore
  None = None
INVARIANTS GuestOnImage
