\* A switch of tiers while the chat provider still refers to the old weights.
CONSTANTS
    lite = lite
    pro = pro
    short = short
    long = long
    Tiers = {lite, pro}
    DefaultTier = lite
    Contexts = {short, long}
    DefaultContext = long
    Requests <- BigAndShort
    Tunings <- BigAndShort
    Loaders = {l1}
    Chats = {c1}
    Tuners = {}
    MaxLoads = 2
    NoTier = NoTier
    NoContext = NoContext
    NoOne = NoOne
SPECIFICATION Spec
INVARIANT OneResident
