\* Two paying clients on two workers, with peer_polling, GETs and compaction on the same
\* database, lost answers, failing calls and a restart.
SPECIFICATION Spec
CONSTANTS
    None = None
    Garbage = Garbage
    NotPop = NotPop
    k1 = k1
    b1 = b1
    e1 = e1
    c1 = c1
    c2 = c2
    w1 = w1
    w2 = w2
    p1 = p1
    PubKeys = {k1}
    Bodies = {b1}
    Entries = {e1}
    Schemes = {1}
    MaxI64 = 3
    RawAddress <- MCRawAddress
    Workers = {w1, w2}
    Pollers = {p1}
    MaxTime = 1
    AddrStrs = {"cashaddr", "invalid"}
    AddrBody <- MCAddrBody
    Urls = {"plain", "port", "alias", "mistyped"}
    Clients = {c1, c2}
    WorkerOf <- MCWorkerOf
    UrlsOf <- MCUrlsOf
    MetaOf <- MCMetaOf
    PeerInputs <- MCPeerInputs
    PathOf <- MCPathOf
    Normal <- MCNormal
    AddrsOf <- MCAddrsOf
    MaxAddr = 6
    MaxPasses = 3
    MaxCrashes = 1
    MaxEvents = 2
INVARIANTS TypeOK StoredIsPaid ChargedOnce RefusedWithCause
PROPERTIES Settled
\* The clients may all have what they came for.
CHECK_DEADLOCK FALSE
