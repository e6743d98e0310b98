CONSTANTS
    FREE_PACKET_POOL = 10
    DEFAULT_ALLOC_SIZE = 4096
    Sites <- CheckedSites
    MaxLive = 12
SPECIFICATION Spec
INVARIANT PoolAccounting
