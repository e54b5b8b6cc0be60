SPECIFICATION Spec
CONSTANTS
  amina = amina
  bilal = bilal
  Nobody = Nobody
  NoToken = NoToken
  Reader <- MCReader
  MaxWrites = 1
  MaxSecond = 1
  MaxTokens = 2
  MaxUsers = 2
INVARIANTS
  TheirOwnAccount
SYMMETRY Either
