\* One node with three cores of size 2 and a slot of 1..3 cores: dom_slot
\* counts two slots, the first takes 2 + 2 cores, and the second slot's
\* cursor runs past the last core.
CONSTANTS
  Engine = "slot"
  Fuel = 8
  Horizon = 4
  PlannerNumTypes = 2
  MaxInitialize = 1
  HierTypes = {}
  Jobs = {j1}
  Vertices <- PoolVertices
  VType <- PoolVType
  VSize <- PoolVSize
  OutEdges <- PoolOutEdges
  Member <- MCMember
  Subsystems <- MCSubsystems
  Roots <- MCRoots
  SdauTypes <- PoolSdau
  Jobspecs <- PoolJobspecs
  StartTimes <- MCStartTimes
  Ops <- AllocateOnly
SPECIFICATION Spec
INVARIANT NoCrash
