SPECIFICATION Spec
CONSTANTS
  Generations = 2
  Component <- MCComponent
  Tag <- MCTag
  Value = {"default", "written"}
  Default = "default"
  ChunkCapacity = 2
  NoEntity = NoEntity
  Signatures <- MCSignatures
  MaxEntities = 3
  MaxCommands = 1
  MaxCalls = 5
  MaxModificationId = 1
  OverreadMatches = FALSE
INVARIANTS LocationsAgree ConstructedExactly IndicesOwnedOnce NotifiedIsSeen
PROPERTIES ImplementsEntityStore
CHECK_DEADLOCK FALSE
