SPECIFICATION Spec
CONSTANTS
  MaxItems = 5
  MaxWeight = 3
  U32 = 8
INVARIANT DrawsFair
PROPERTY TableIsMade
CHECK_DEADLOCK FALSE
