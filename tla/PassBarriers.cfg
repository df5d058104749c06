SPECIFICATION Spec
CONSTANTS
  Pin = {"stable", "other"}
  StablePin = {"stable"}
  ShaderStage = {compute, graphics}
  MaxUsages = 4
  MaxFrames = 3
INVARIANTS Synchronized StableKept
CHECK_DEADLOCK FALSE
SYMMETRY MCSymmetry
