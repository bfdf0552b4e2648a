SPECIFICATION ParserSpec
CONSTANTS
  Alphabet <- LineBreakAlphabet
  MaxTokens = 3
INVARIANT SelectorsSurviveOneLineBreak
CONSTRAINT LineBreakTexts
