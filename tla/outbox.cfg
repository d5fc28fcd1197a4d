SPECIFICATION OutboxSpec
CONSTANTS
    p = p
    f = f
    h1 = h1
    h2 = h2
    NoHost = NoHost
    NoCommand = NoCommand
    Prompts = {p}
    FollowUps = {f}
    Hosts = {h1, h2}
    HostOf <- MCHostOf
    IdOf <- MCIdOf
    Left = {}
    BatchLimit = 1
    MaxMoves = 4
INVARIANTS OwnedUntilSettled AuthorityExact
PROPERTIES NoBlindResend ProofIsFinal
