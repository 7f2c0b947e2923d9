SPECIFICATION FairSpec
CONSTRAINT Bounded
CONSTANTS
  Letters = {"x"}
  Indices = {0, 1}
  CallIds = {"a", "call_0"}
  FallbackId <- MCFallback
  Names = {"f", "c", " "}
  BlankNames = {" "}
  CustomNames = {"c"}
  FinishReasons = {"tool_calls", "length", "stop"}
  Chunks <- MCChunks
  MaxChunks = 4
INVARIANTS
  TypeOK
  TerminalIsLast
  OutputIndicesUnique
  ItemsAnnounced
  DoneTextIsStreamed
  StoredCallsComplete
  NoLateDeltas
  OutputIsWhatWasStreamed
  TextHeldBack
  ChunkingInvisible
  StoredIffFinished
  NoSilentTruncation
PROPERTIES
  EventuallyClosed
  ImplementsResponsesStream
