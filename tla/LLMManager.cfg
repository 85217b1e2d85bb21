\* Two handlers and a call at a time on three providers.
CONSTANTS
    gateway = gateway
    claude = claude
    own = own
    k1 = k1
    m = m
    Keyless = {gateway}
    Catalogue = {claude}
    Native = {claude}
    Names = {own}
    EnvProvider = claude
    Gateway = gateway
    Rank <- MCRank
    Keys = {k1}
    Models = {m}
    BaseCooldown <- OneKind
    MaxCooldown = 1
    FloatLimit = 1
    Desks = {d1, d2}
    Chats = {c1}
    MaxOrders = 3
    MaxFaults = 2
    None = None
SYMMETRY Symmetry
SPECIFICATION MCSpec
INVARIANTS
    TypeOK
    ClientsCurrent
PROPERTIES
    ChoiceKept
    RegistryKept
    KeysKept
