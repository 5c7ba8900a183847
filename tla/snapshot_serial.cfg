\* One load at a time: the lock of ModelManager.load, with crashes.
CONSTANTS
    shard1 = shard1
    shard2 = shard2
    config = config
    Files = {shard1, shard2, config}
    Patterns = {shard1, shard2, config}
    Listings <- TwoShards
    Primary = config
    Loaders = {l1, l2}
    Ensurers = {}
    MaxAttempts = 3
    NoOne = NoOne
    NoFile = NoFile
    VERIFIED_SENTINEL = VERIFIED_SENTINEL
SPECIFICATION FairSpec
INVARIANTS PublishedIsVerified ReadyIsPublished
PROPERTIES FetchedIsWhole StoreSpec
