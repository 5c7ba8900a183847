\* A load and a worker of /alice/ensure, in any interleaving, with crashes.
CONSTANTS
    shard1 = shard1
    shard2 = shard2
    config = config
    Files = {shard1, config}
    Patterns = {shard1, config}
    Listings <- OneShardOrNone
    Primary = config
    Loaders = {l1}
    Ensurers = {e1}
    MaxAttempts = 2
    NoOne = NoOne
    NoFile = NoFile
    VERIFIED_SENTINEL = VERIFIED_SENTINEL
SPECIFICATION FairSpec
PROPERTIES NeverOverwritten StepsCount EveryCallEnds
