\* Two calls of two tasks, a Send, two pushed frames; a relay that may not answer.
CONSTANTS
    Commands = Commands
    Processor = Processor
    None = None  Closed = Closed  Deliver = Deliver  Notice = Notice
    InQueue = 1
    MaxReqs = 2
    MaxSends = 1
    MaxPushed = 2
SPECIFICATION ReaderSpec
CHECK_DEADLOCK FALSE
INVARIANTS
    Replies
PROPERTIES
    RequestEnds
    ReaderNeverBlocks
