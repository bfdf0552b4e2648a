SPECIFICATION Spec
CHECK_DEADLOCK FALSE
INVARIANTS
  CommentsAreKept
  PrintedTextIsTheProgram
  FormattingTwiceIsOnce
  SkippedTextIsKept
