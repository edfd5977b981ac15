CONSTANTS
  MaxAttempts = 2
  MaxChunks = 2
  Statuses <- MCStatuses
  None = None
  Streams <- MCStreams
  Protocols = {"messages", "chat"}
  Objects <- MCObjects
  MaxEventBytes = 3
  Unknown = Unknown
SPECIFICATION MCSpec
INVARIANTS
  BytesInOrder
  AnswerIsTrue
  ScoresAreDeserved
  UsageIsWhole
PROPERTY
  RequestEnds
