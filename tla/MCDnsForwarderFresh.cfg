SPECIFICATION Spec
CONSTANTS
    Tasks = {t1, t2}
    Keys = {k1, k2}
    Xids = {x1, x2, x3}
    Servers = {s1}
    FALLBACK_DNS_SERVER = s8
    Elsewhere = s9
    MAX_PENDING_QUERIES = 2
    Ttls = {0, 2}
    MAX_TTL = 1
    XidReuse = FALSE
    None = None
SYMMETRY DnsSymmetry
INVARIANT
    AnswerMatches
PROPERTIES
    EntryUndisturbed
    ImplementsResolver
