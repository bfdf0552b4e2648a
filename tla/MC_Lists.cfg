SPECIFICATION ParserSpec
CONSTANTS
  Alphabet <- ListAlphabet
  MaxTokens = 8
INVARIANTS TypeOK SignificanceMatchesStack FailureIsRecorded CommasSeparateArguments
           BracketsBalance NodesFitTheirSlots
PROPERTIES ParseTerminates
CONSTRAINT ListTexts
