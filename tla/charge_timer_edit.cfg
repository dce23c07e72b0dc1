SPECIFICATION Spec
CONSTANTS
  Kinds = {"charge_timer"}
  Value = {"v1", "v2"}
  MaxAlone = 0
  MaxEdits = 2
  MaxTimeouts = 0
PROPERTIES
  PreservesUnspecified
CHECK_DEADLOCK FALSE
