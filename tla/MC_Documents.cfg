SPECIFICATION SyncSpec
CONSTANTS
  Closed = Closed
  NoReply = NoReply
  OpenTexts <- SomeTexts
  Inserts <- SomeInserts
  Formatted <- SomeFormatted
  Setting = "Auto"
  Notebooks <- NotebookOrFile
  MaxLength = 5
  MaxBatch = 2
  MaxEdits = 2
  MaxChanges = 3
INVARIANTS ServerSurvives ServerFollowsEditor EditsGiveFormattedText
CHECK_DEADLOCK FALSE
