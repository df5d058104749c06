SPECIFICATION Spec
CONSTANTS
  MaxAssets = 2
  Path = {p1, p2}
  Contents <- TwoContents
  UserOps = {"delete", "restore", "rename", "copy"}
  MaxUserOps = 2
  MaxSaves = 1
  MaxCrashes = 1
SYMMETRY Symmetry
INVARIANTS ArtifactsOnDisk MapFollowsEntries MirrorsDisk ResourcesFollow BusyIsImported
CHECK_DEADLOCK FALSE
