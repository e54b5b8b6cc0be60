SPECIFICATION MCSpec
CONSTANTS
  Ayas <- MCAyas
  Recordings <- MCRecordings
  MaxUntimed = 2
  NoAya = NoAya
  Verses <- MCVerses
  Text <- MCText
  Pages <- MCPages
  Roots <- MCRoots
  Shapes <- MCShapes
  Stems <- MCStems
  Kin <- MCKin
  Markers <- MCMarkers
  Evidence <- MCEvidence
  Proposals <- MCProposals
  Calibration <- MCCalibration
  Suras <- MCSuras
  Words <- MCWords
  Named <- MCNamed
  Morphologies <- MCMorphologies
  NotRoots = {"mA"}
  Retries = 1
  CorpusRoots <- MCCorpusRoots
  Strays = {"xyz"}
  Workers = 2
  Limits = {0, 2}
  MaxRuns = 2
  Databases <- MCDatabases
  Asked <- MCAsked
INVARIANTS
  JudgesAgree
  TimesOnTheirWord
  FrenchIsTheWordsOwn
  AsManyAsPossible
  OrderIsEnough
  CostIsWhatShips
  NoSharedProse
  ParsingIsTheWordsOwn
  TallyAddsUp
  WordFindsItsRoot
  NeverAGuess
  SameOnEveryRun
  StripsWhatWasAdded
  PatternsReadBack
PROPERTIES
  CompleteStands
  NotPaidForTwice
CHECK_DEADLOCK FALSE
