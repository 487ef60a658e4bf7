SPECIFICATION MCSpec
CONSTANTS
  Sources <- MCSources
  Texts <- MCTexts
  BufferSize = 17
  Strings = {"a", "b"}
  Scalars = {"1"}
  MaxTokens = 12
INVARIANTS
  RoundTrip
  AcceptedIsUtf8
  BufferFits
  TreeIsText
  RefsAlive
PROPERTY
  DumpEnds
CHECK_DEADLOCK FALSE
