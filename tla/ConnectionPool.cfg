SPECIFICATION PoolSpec
CONSTANTS
    Users = {u1, u2}
    Nobody = Nobody
    Slots = {s1, s2}
    PoolSize = 1
    Recycle = 1
    FirewallIdle = 2
SYMMETRY Symmetry
INVARIANTS PoolTypeOK DeadSessionFailsOnce SilentIsExpired
PROPERTY InheritsNothing
