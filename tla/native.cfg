SPECIFICATION Spec
CONSTANTS
  Hosts = {"windows", "xnu"}
  MaxNames = 2
  Excepted <- MCExcepted
INVARIANT TypeOK
PROPERTY LikeNative
CHECK_DEADLOCK FALSE
