SPECIFICATION Spec
CONSTANTS
  Generations = 2
  Component <- MCComponent
  Tag <- MCTag
  Value = {"default", "written"}
  Default = "default"
  ChunkCapacity = 2
  NoEntity = NoEntity
  Signatures <- MCSignatures
  MaxEntities = 3
  MaxCommands = 1
  MaxCalls = 5
  MaxModificationId = 1
  OverreadMatches = TRUE
PROPERTIES ImplementsEntityStore
CHECK_DEADLOCK FALSE
