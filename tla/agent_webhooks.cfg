SPECIFICATION Spec
CONSTANTS
    Handlers = {h1, h2}
    Statuses = {s1, s2}
    MaxAttempts = 2
    LogLimit = 2
    Window = 1
    MaxTime = 1
    MaxEvents = 4
    None = None
SYMMETRY Symmetric
INVARIANT AgentIsTold OnlyOverlapsLoseFacts
CHECK_DEADLOCK FALSE
