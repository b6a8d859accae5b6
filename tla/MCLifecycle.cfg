CONSTANTS
    Assigns = {a1}
    Hellos = {h1}
    Callers = {c1}
    Subtasks = 1
    Peers = {p1}
    Self = self
    REDUNDANCY = 2
    MAX_WORKERS = 1
    MaxRounds = 1
    None = none
SPECIFICATION Spec
INVARIANTS
    TypeOK
    WorkIsAccountedFor
PROPERTIES
    SilentOnceStopped
    ThreadsEnd
    CallsEnd
    AcceptedIsExecuted
CHECK_DEADLOCK FALSE
