\* The skeleton package with every pair of listed faults.
SPECIFICATION ValidateSpec
CONSTANTS
  Ref <- MCRef
  NoRef <- MCNoRef
  MalformedRef <- MCMalformedRef
  ReservedRef <- MCReservedRef
  Registry <- MCRegistry
  Packages <- FaultyPackages
  MaxDeviations = 2
INVARIANTS
  LocalClosuresAreTruthful
  OwnershipIsMutual
  LocalInquiriesAskTheirOwner
  ReferencesFindOneRecord
