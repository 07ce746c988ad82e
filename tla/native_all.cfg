SPECIFICATION Spec
CONSTANTS
  Hosts = {"windows", "xnu"}
  MaxNames = 2
  Excepted <- NoneExcepted
PROPERTY LikeNative
CHECK_DEADLOCK FALSE
