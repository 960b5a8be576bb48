\* Initialize, then three jobs of any of the four shapes, allocate or
\* or-else-reserve, on the 2-node 4-core cluster with the power up-walk.
CONSTANTS
  Engine = "slot"
  Fuel = 8
  Horizon = 4
  PlannerNumTypes = 2
  MaxInitialize = 1
  HierTypes = {}
  Jobs = {j1, j2, j3}
  Vertices <- AuxVertices
  VType <- AuxVType
  VSize <- AuxVSize
  OutEdges <- AuxOutEdges
  Member <- AuxMember
  Subsystems <- AuxSubsystems
  Roots <- AuxRoots
  SdauTypes <- AuxSdau
  Jobspecs <- MCJobspecs
  StartTimes <- MCStartTimes
SYMMETRY MCSymmetry
SPECIFICATION Spec
INVARIANT CommitSatisfiesRequest
INVARIANT AllocationsBacked
INVARIANT SubtreeAccounting
INVARIANT AllocationIsolation
INVARIANT EpochEquivalence
INVARIANT NoLeakedSpans
PROPERTY AllocatorRefinement
