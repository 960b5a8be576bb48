\* With no rolled-up types the root has no subtree planner: an or-else-
\* reserve job that cannot be allocated makes run() throw out_of_range.
CONSTANTS
  Engine = "slot"
  Fuel = 8
  Horizon = 4
  PlannerNumTypes = 2
  MaxInitialize = 1
  HierTypes = {}
  Jobs = {j1}
  Vertices <- HetVertices
  VType <- HetVType
  VSize <- HetVSize
  OutEdges <- HetOutEdges
  Member <- MCMember
  Subsystems <- MCSubsystems
  Roots <- MCRoots
  SdauTypes <- HetSdau
  Jobspecs <- HetJobspecs
  StartTimes <- MCStartTimes
SPECIFICATION Spec
INVARIANT NoCrash
