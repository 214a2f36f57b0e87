SPECIFICATION FairSpec
CONSTANTS
    Cpus = {c1, c2, c3}
    Nobody = Nobody
INVARIANTS LockProtects
PROPERTIES ImplementsService SomebodyGetsIn
