CONSTANTS
    ReadSize = 2
    MaxLine = 6
    Bytes = 9
    Connections = 2
SPECIFICATION Spec
INVARIANTS BufferHasRoom AnswerIsTheNewestLine
CHECK_DEADLOCK FALSE
