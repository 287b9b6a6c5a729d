SPECIFICATION FairSpec
CONSTANTS
    plain = plain
    tiered = tiered
    short = short
    Tokens = {t1, t2, t3}
    NoToken = NoToken
    NStrategies = 2
    Units = 1
    Options = {tiered}
    Requested <- MCRequested
    AutoTier <- MCAutoTier
    MaxFaults = 1
PROPERTIES
    CompletesOrRefuses
