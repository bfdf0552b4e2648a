SPECIFICATION SyncSpec
CONSTANTS
  Closed = Closed
  NoReply = NoReply
  OpenTexts <- SomeTexts
  Inserts <- SomeInserts
  Formatted <- SomeFormatted
  Setting = "Crlf"
  Notebooks <- OnlyFile
  MaxLength = 5
  MaxBatch = 2
  MaxEdits = 2
  MaxChanges = 3
INVARIANT CrlfConvertsLineEndings
CHECK_DEADLOCK FALSE
