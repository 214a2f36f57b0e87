SPECIFICATION FairSpec
CONSTANTS
    Deployments <- MCDeployments
    Trials <- MCTrials
    Shared <- MCShared
    Contested <- MCContested
    Unbacked <- MCUnbacked
    Doubled <- MCDoubled
    MaxDevices = 16
    Width <- MCWidth
CHECK_DEADLOCK FALSE
INVARIANTS
    Partitioned
    AffinityKept
    GuestBacked
    NothingTwice
    ChannelsMeet
    AcceptedSound
    DeployedAccepted
PROPERTY EveryVmStarts
