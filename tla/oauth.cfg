SPECIFICATION OAuthSpec
CONSTANTS
    a1 = a1
    a2 = a2
    Attempts = {a1, a2}
    MaxConnections = 2
    MaxQueue = 2
INVARIANTS EffectsOnce AbsenceIsFinal OutcomeTruthful NeverRefused
SYMMETRY Interchangeable
