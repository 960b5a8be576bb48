\* node1 cannot host core[2]; dom_dfv still reports it matched with the
\* previous sibling's score and count, and update allocates it.
CONSTANTS
  Engine = "slot"
  Fuel = 8
  Horizon = 4
  PlannerNumTypes = 2
  MaxInitialize = 1
  HierTypes = {}
  Jobs = {j1}
  Vertices <- HetVertices
  VType <- HetVType
  VSize <- HetVSize
  OutEdges <- HetOutEdges
  Member <- MCMember
  Subsystems <- MCSubsystems
  Roots <- MCRoots
  SdauTypes <- HetSdau
  Jobspecs <- HetJobspecs
  StartTimes <- MCStartTimes
  Ops <- AllocateOnly
SPECIFICATION Spec
INVARIANT CommitSatisfiesRequest
