SPECIFICATION FairCommandsSpec
CONSTANTS
    p1 = p1
    a1 = a1
    s1 = s1
    g1 = g1
    g2 = g2
    NoCommand = NoCommand
    NoBinding = NoBinding
    Prompts = {p1}
    Aborts = {}
    Sessions = {s1}
    Generations = {g1}
    WorkspaceMayVanish = FALSE
    MaxCursor = 0
PROPERTY AcknowledgedSettles
