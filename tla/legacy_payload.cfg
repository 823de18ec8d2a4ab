SPECIFICATION CardSpec
CONSTANT MaxWrites = 1
PROPERTY NoAnswerIsDropped
CHECK_DEADLOCK FALSE
