\* A load of the big tier, two chats that share the cached engine and build the
\* small one, and a request that changes the context on its own, with crashes.
CONSTANTS
    lite = lite
    pro = pro
    short = short
    long = long
    Tiers = {lite, pro}
    DefaultTier = lite
    Contexts = {short, long}
    DefaultContext = long
    Requests <- BigAndShort
    Tunings <- BigAndShort
    Loaders = {l1}
    Chats = {c1, c2}
    Tuners = {u1}
    MaxLoads = 2
    NoTier = NoTier
    NoContext = NoContext
    NoOne = NoOne
SPECIFICATION FairSpec
INVARIANTS SettledIsOneModel ManagerAgrees LocksAreServed
PROPERTIES EngineNeverGoesBack SlotSpec EveryChatEnds EveryLoadEnds
