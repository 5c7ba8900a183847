\* The same threads: what the final place promises is lost.
CONSTANTS
    shard1 = shard1
    shard2 = shard2
    config = config
    Files = {shard1, config}
    Patterns = {shard1, config}
    Listings <- OneShard
    Primary = config
    Loaders = {l1}
    Ensurers = {e1}
    MaxAttempts = 2
    NoOne = NoOne
    NoFile = NoFile
    VERIFIED_SENTINEL = VERIFIED_SENTINEL
SPECIFICATION Spec
INVARIANT PublishedIsVerified
