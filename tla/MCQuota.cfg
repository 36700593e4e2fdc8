SPECIFICATION QuotaSpec
CONSTANTS
    Limit = 2
    Cutoff = 0
    Duration = 2
    Attempts = {k1, k2, k3}
    Quantities = {1, 2}
    Deliverers = {d1, d2}
    Headers <- HeaderViews
    Hints = {2}
    Worlds <- AllWorlds
    Unset = Unset
SYMMETRY SymmetricAttempts
INVARIANT WindowTruthful
PROPERTIES NeverOverspends
CHECK_DEADLOCK FALSE
