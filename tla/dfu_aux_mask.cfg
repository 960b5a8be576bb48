\* Two subsystems; node1 has no cores.  Its containment explore fails, its
\* power up-walk succeeds, dom_exp returns the latter's rc, and node[2]
\* with core[1] each is committed on node0 and the coreless node1.
CONSTANTS
  Engine = "slot"
  Fuel = 8
  Horizon = 4
  PlannerNumTypes = 2
  MaxInitialize = 1
  HierTypes = {}
  Jobs = {j1}
  Vertices <- SvcVertices
  VType <- AuxVType
  VSize <- AuxVSize
  OutEdges <- SvcOutEdges
  Member <- AuxMember
  Subsystems <- AuxSubsystems
  Roots <- AuxRoots
  SdauTypes <- SvcSdau
  Jobspecs <- MCJobspecs
  StartTimes <- MCStartTimes
  Ops <- AllocateOnly
SPECIFICATION Spec
INVARIANT CommitSatisfiesRequest
