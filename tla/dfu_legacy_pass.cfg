\* The legacy engine: initialize, then three jobs of any of the four shapes, allocate or or-else-reserve.
CONSTANTS
  Engine = "legacy"
  Fuel = 8
  Horizon = 4
  PlannerNumTypes = 2
  MaxInitialize = 1
  HierTypes = {}
  Jobs = {j1, j2, j3}
  Vertices <- MCVertices
  VType <- MCVType
  VSize <- MCVSize
  OutEdges <- MCOutEdges
  Member <- MCMember
  Subsystems <- MCSubsystems
  Roots <- MCRoots
  SdauTypes <- MCSdau
  Jobspecs <- MCJobspecs
  StartTimes <- MCStartTimes
SYMMETRY MCSymmetry
SPECIFICATION Spec

INVARIANT CommitSatisfiesRequest
INVARIANT AllocationsBacked
INVARIANT SubtreeAccounting
INVARIANT AllocationIsolation
INVARIANT EpochEquivalence
INVARIANT NoLeakedSpans
PROPERTY AllocatorRefinement
