SPECIFICATION Spec
CONSTANTS
    l1 = l1
    l2 = l2
    l3 = l3
    l4 = l4
    e1 = e1
    e2 = e2
    k1 = k1
    k2 = k2
    k3 = k3
    h1 = h1
    nyaa = nyaa
    AB = AB
    NoKey = NoKey
    NoHash = NoHash
    Listings <- MCListings
    EntryOf <- MCEntryOf
    KeyOf <- MCKeyOf
    HashOf <- MCHashOf
    ScopeOf <- MCScopeOf
    FilmKeys = {k2, k3}
    MayBe <- MCMayBe
    Configs <- MCConfigs
    MaxAge = 1
    MaxLog = 4
PROPERTY WindowSuppresses
