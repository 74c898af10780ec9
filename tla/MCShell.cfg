SPECIFICATION Spec
CONSTANTS
  MODULUS = 256
  DIGITS = 3
  Lines <- MCLines
  Numbers <- MCNumbers
INVARIANTS
  TypeOK
  NumbersExact
  TypedMeansDone
