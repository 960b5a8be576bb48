\* The jobs of dfu_pass, where a caller may pass a Jobspec object that already
\* went through one run(): prime() adds the child counts into its user_data again.
CONSTANTS
  Engine = "slot"
  Fuel = 8
  Horizon = 4
  PlannerNumTypes = 2
  MaxInitialize = 1
  HierTypes = {}
  Jobs = {j1, j2, j3}
  Vertices <- AuxVertices
  VType <- AuxVType
  VSize <- AuxVSize
  OutEdges <- AuxOutEdges
  Member <- AuxMember
  Subsystems <- AuxSubsystems
  Roots <- AuxRoots
  SdauTypes <- AuxSdau
  Jobspecs <- ReusedJobspecs
  StartTimes <- MCStartTimes
SYMMETRY MCSymmetry
SPECIFICATION Spec
INVARIANT ReuseEquivalence
