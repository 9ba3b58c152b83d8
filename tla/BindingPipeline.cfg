\* Up to two plans at a time, and up to three attestations for their tasks.
SPECIFICATION BindingSpec
CONSTANTS
  Ref <- MCRef
  NoRef <- MCNoRef
  MalformedRef = {"malformed"}
  ReservedRef = {"reserved"}
  BadIdRef = {"malformed"}
  BadVersionRef = {"huge"}
  Registry <- MCRegistry
  Packages = {}
  RegistryId = "registry"
  RegistryVersion = 1
  CheckerVersion <- MCCheckerVersion
  MaxVersion = 5
  MaxFinalEvidence = 2
  OpenText = OpenText
  CloseText = CloseText
  Newline = Newline
  BadByte = BadByte
  NoParent = NoParent
  NoText = NoText
  MaxVersionText <- MCMaxVersionText
  JsonDepthLimit = 5
  NonScalarText = {}
  LongMetadata = {}
  Document <- MCDocument
  MaxPromptBytes = 1
  MaxResponseBytes = 5
  MaxPayloadBytes = 1
  MaxMembers = 2
  LongText = {}
  ReservedText = {}
  ForbiddenField = {"live"}
  FittingForm <- MCFittingForm
  Captures <- MCCaptures
  Policies <- MCPolicies
  Answers <- MCAnswers
  MaxPlans = 2
  MaxEvidence = 3
INVARIANTS
  BoundPackagesFailOnContentOnly
  CertificatesAnswerTheirTask
  EveryAnswerIsUsedOnce
  OriginsRecoverTheDraft
  LiveAtomsAreAttested
