SPECIFICATION
  MCSpec
CONSTANTS
  Alphabet <- MCAlphabet
  Texts <- MCTexts
  Parameters <- MCParameters
  Catalogs = {"c1", "c2"}
  Letters <- MCLetters
  Universe <- MCUniverse
  Names <- MCNames
  Calls <- MCCalls
  Any = Any
  MaxChanges = 2
  Words <- MCWords
  Lines <- MCLines
  GLOBAL_OPTIONS <- MCGlobalOptions
  OwnOptions <- MCOwnOptions
  Commands = {"create"}
  Argument = Argument
  NoValue = NoValue
INVARIANTS
  BoundAsWritten
  ListingExact
  HoistedAsMeant
CHECK_DEADLOCK FALSE
