SPECIFICATION ParserSpec
CONSTANTS
  Alphabet <- BrokenAlphabet
  MaxTokens = 6
INVARIANTS SourceTypeOK StrayIsFirstMisplaced StrayIsInsideExpression SeparatorsEndExpressions
           SelectorsEndAtSeparators ErrorsAreContained RecoveryIsLocal
CONSTRAINT BrokenTexts
