SPECIFICATION FairOutboxSpec
CONSTANTS
    p = p
    f = f
    h1 = h1
    h2 = h2
    NoHost = NoHost
    NoCommand = NoCommand
    Prompts = {p}
    FollowUps = {f}
    Hosts = {h1, h2}
    HostOf <- MCOneHost
    IdOf <- MCOwnId
    Left = {p}
    BatchLimit = 1
    MaxMoves = 1
PROPERTIES OutboxDrains
