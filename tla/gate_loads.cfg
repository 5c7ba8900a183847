\* An Apple laptop with 16 GB, three tiers and one request at a time.
CONSTANTS
    lite = lite
    std = std
    rp = rp
    NoContext = NoContext
    NoModel = NoModel
    ContextMin = 4
    ContextDefault = 8
    ContextFallbackMax = 32
    ContextHardCap = 256
    Tiers = {lite, std, rp}
    DefaultTier = lite
    Ladder <- BestFirst
    Pinned = {lite, std, rp}
    Served = {lite, std}
    Usable <- Laptop
    Comfort <- Comforts
    Floor <- Floors
    Heuristic <- Heuristics
    Geometry <- Geometries
    ModelMax <- Declared
    Requests = {r1}
    Asked = {2, 300}
SPECIFICATION Spec
INVARIANTS ResidentFits ContextsAreServable RecommendedIsAdmitted
PROPERTY OldModelStays
