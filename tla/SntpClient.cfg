SPECIFICATION FairSpec
CONSTANTS
    POLL = 1
    RETRY_INTERVAL = 2
    MAX_RETRY_INTERVAL = 30
    SYNC_INTERVAL = 60
    DNS_TIMEOUT = 2
    NTP_TIMEOUT = 2
    Addresses = {w1, w2}
    None = None
INVARIANTS
    TypeOK
    ClockRecovers
PROPERTIES
    NotPressed
    KeepsTime
