SPECIFICATION PartSpec
CONSTANTS
    UserIds = {u1, u2}
    Emails = {m1, m2}
    Passwords = {w1}
    TokenIds = {t1}
    Avatars = {a1, a2}
    NoAvatar = none
    PhoneIds = {p1, p2, p3}
    Calls = {c1, c2}
    Galleries = {g1, g2}
    MaxPhotos = 10
    EventIds = {e1, e2}
    NoEvent = new
    Slugs = {race}
    Suffixes = {x1}
    Configs <- PriceLists
    CoverFiles = {f1, f2}
    AssetSlugs = {k1, k2, k3}
    NoCover = none
    Categories = {n1}
    Signals = {s1}
    NoActor = system
    FetchFactor = 2
    Window = 1
    MaxRows = 5
    Places = {1, 2}
INVARIANTS BackofficeTypeOK ContactKept EventsFindable FilesServed PricingKept NextPriceReached BilledAsPreviewed PushedIsListed ActivityPagesExact
PROPERTIES KeepsBook KeepsProgramme
SYMMETRY Symmetry
CHECK_DEADLOCK FALSE
