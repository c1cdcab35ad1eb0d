\* Two calls for one installation, one for another.
CONSTANTS
    c1 = c1
    c2 = c2
    c3 = c3
    i1 = i1
    i2 = i2
    None = None
    Calls <- MCCalls
    InstallationOf <- MCInstallationOf
SPECIFICATION TokenFairSpec
INVARIANTS
    TInv
PROPERTIES
    NoFreshTokenReplaced
    FlightsEnd
