\* A reply that comes after its request timed out.
CONSTANTS
    Commands = Commands
    Processor = Processor
    None = None  Closed = Closed  Deliver = Deliver  Notice = Notice
    InQueue = 1
    MaxReqs = 2
    MaxSends = 0
    MaxPushed = 0
SPECIFICATION Spec
CHECK_DEADLOCK FALSE
INVARIANTS
    LateReplyNotMisrouted
