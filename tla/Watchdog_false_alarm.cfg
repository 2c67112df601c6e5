SPECIFICATION Spec
CONSTANTS
  Timeout = 5
PROPERTIES NoFalseAlarm
CHECK_DEADLOCK FALSE
