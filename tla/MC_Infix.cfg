SPECIFICATION ParserSpec
CONSTANTS
  Alphabet <- InfixAlphabet
  MaxTokens = 14
INVARIANTS PrecedenceRespected ElseBelongsToNearestIf ElseNeedsNoSeparator NodesFitTheirSlots
CONSTRAINT InfixTexts
