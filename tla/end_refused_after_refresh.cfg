SPECIFICATION DispatchSpec
CONSTANTS
    p1 = p1
    p2 = p2
    a1 = a1
    s1 = s1
    g1 = g1
    g2 = g2
    NoCommand = NoCommand
    NoBinding = NoBinding
    Prompts = {p1}
    Aborts = {a1}
    Sessions = {s1}
    Generations = {g1, g2}
    WorkspaceMayVanish = FALSE
INVARIANT EndSupersedesSettled
