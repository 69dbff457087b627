SPECIFICATION Spec
CONSTANTS
  MemSize = 128
  Guests <- MCGuests
  Programs <- MCPrograms
  InBytes <- MCInBytes
  MaxIns = 4
INVARIANTS TypeOK WordArithmetic CallsReturn DaaIsDecimalExceptNine
CHECK_DEADLOCK FALSE
