\* The skeleton package with up to three listed changes of meaning.
SPECIFICATION PipelineSpec
CONSTANTS
  Ref <- MCRef
  NoRef <- MCNoRef
  MalformedRef <- MCMalformedRef
  ReservedRef <- MCReservedRef
  Registry <- MCRegistry
  Packages <- MeaningfulPackages
  MaxDeviations = 3
INVARIANTS
  CompilerNeverAsserts
  RulesStayInUniverse
  BaseStatusesAreNotDerived
  EvaluationNeverRaises
  GatesFollowTheProfile
  SourceAtomsMeanThePackage
  ClearFaceHasNoUnansweredBlocker
