SPECIFICATION Spec
CONSTANTS
  Generations = 16
  Templates <- MCTemplates
  Links <- MCLinks
  Subgraph = {s1, s2}
  NodeCalls = {"create", "create_dynamic_buffer", "create_retained_texture", "destroy_retained_texture", "reroute", "submit_fails"}
  NoHandle = NoHandle
  NoData = NoData
  MaxEdits = 4
  MaxCalls = 2
  MaxFrames = 2
INVARIANTS RunsContributors RefsFollowEdges StorageAccounted
CHECK_DEADLOCK FALSE
SYMMETRY MCSymmetry
