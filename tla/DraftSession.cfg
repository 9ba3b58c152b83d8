\* One draft, a variant of one or two of its records, or of its linkage.
SPECIFICATION Spec
CONSTANTS
  OpenText = OpenText
  CloseText = CloseText
  Newline = Newline
  BadByte = BadByte
  Prose = Prose
  Blank = Blank
  NoParent = NoParent
  NoText = NoText
  MaxVersionText <- MCMaxVersionText
  JsonDepthLimit = 5
  NonScalarText = {"lone"}
  LongMetadata = {}
  Document <- MCDocument
  MaxPromptBytes = 1
  MaxResponseBytes = 8
  MaxPayloadBytes = 2
  MaxMembers = 3
  LongText = {"long"}
  ReservedText = {"reserved"}
  ForbiddenField = {"base", "live", "status"}
  Exchanges <- MCExchanges
  Tampers <- MCTampers
INVARIANTS
  ExtractedDraftsAreLinked
  ExtractionIsExact
CHECK_DEADLOCK FALSE
