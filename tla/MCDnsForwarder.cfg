SPECIFICATION FairSpec
CONSTANTS
    Tasks = {t1, t2}
    Keys = {k1}
    Xids = {x1, x2}
    Servers = {s1}
    FALLBACK_DNS_SERVER = s8
    Elsewhere = s9
    MAX_PENDING_QUERIES = 1
    Ttls = {0, 2}
    MAX_TTL = 1
    XidReuse = TRUE
    None = None
INVARIANTS
    DnsTypeOK
    NoEntryLeaks
    PendingBounded
PROPERTY
    QueryEnds
