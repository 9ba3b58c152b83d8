\* One exchange; requests and keys are replaced at any time while it runs.
SPECIFICATION FairSpec
CONSTANTS
  OpenText = OpenText
  CloseText = CloseText
  Newline = Newline
  BadByte = BadByte
  Blank = Blank
  NoParent = NoParent
  NoText = NoText
  NoKey = NoKey
  BadKey = BadKey
  Key = Key
  MaxVersionText <- MCMaxVersionText
  JsonDepthLimit = 3
  NonScalarText = {"lone"}
  LongMetadata = {"long"}
  Document <- MCDocument
  MaxPromptBytes = 1
  MaxResponseBytes = 2
  MaxPayloadBytes = 1
  MaxMembers = 1
  LongText = {}
  ReservedText = {}
  ForbiddenField = {}
  Requests <- MCRequests
  Utf8 <- MCUtf8
  Credentials <- MCCredentials
  MaxBodyBytes = 2
  Byte <- MCByte
  Served <- MCServed
INVARIANTS
  OpenedIsClosed
  OverlongIsNeverCaptured
  AcceptedAnswersAreKept
PROPERTIES
  ImplementsAttempt
  EveryExchangeEnds
CHECK_DEADLOCK FALSE
