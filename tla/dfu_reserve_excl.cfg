\* A reservation retry skips the tag prune and reserves a node exclusively
\* while another job holds one of its cores over an overlapping window.
CONSTANTS
  Engine = "slot"
  Fuel = 8
  Horizon = 4
  PlannerNumTypes = 2
  MaxInitialize = 1
  HierTypes = {}
  Jobs = {j1, j2}
  Vertices <- MCVertices
  VType <- MCVType
  VSize <- MCVSize
  OutEdges <- MCOutEdges
  Member <- MCMember
  Subsystems <- MCSubsystems
  Roots <- MCRoots
  SdauTypes <- MCSdau
  Jobspecs <- MCJobspecs
  StartTimes <- MCStartTimes
SYMMETRY MCSymmetry
SPECIFICATION Spec
INVARIANT ExclusiveIsolation
