------------------------- MODULE MCResidentCommands -------------------------
EXTENDS ResidentCommandsInvariant
CONSTANTS p1, a1, s1, g1, g2
=============================================================================
