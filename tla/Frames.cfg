SPECIFICATION FairRendererSpec
CONSTANTS
  Slots = 5
  Object = {o1}
  Size = 3
  Images = 2
  Align = 2
  Sizes = {2, 4}
  ImageSizes = {2}
  MaxSubmit = 7
  MaxFailures = 1
  DownloadRing = 3
  DownloadSize = 2
  Loads <- LightAndHeavy
  MaxDownloads = 2
INVARIANTS FenceIsIdle StagedIntact ReleasedAfterUse DownloadsIntact
PROPERTIES StageReturns
