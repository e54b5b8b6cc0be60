SPECIFICATION Spec
CONSTANTS
  amina = amina
  bilal = bilal
  Nobody = Nobody
  NoToken = NoToken
  Reader <- MCReader
  MaxWrites = 1
  MaxSecond = 2
  MaxTokens = 3
  MaxUsers = 2
CONSTRAINT
  TwoSecondsOrThreeTokens
INVARIANTS
  DeletedStaysDeleted
  SignedInAsHolder
  CleanHandOver
PROPERTIES
  OnlyHandOverForgets
SYMMETRY Either
