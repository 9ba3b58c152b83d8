\* The skeleton package with at most one listed change of meaning.
SPECIFICATION FairPipelineSpec
CONSTANTS
  Ref <- MCRef
  NoRef <- MCNoRef
  MalformedRef <- MCMalformedRef
  ReservedRef <- MCReservedRef
  Registry <- MCRegistry
  Packages <- MeaningfulPackages
  MaxDeviations = 1
PROPERTIES
  EveryPackageIsAnswered
