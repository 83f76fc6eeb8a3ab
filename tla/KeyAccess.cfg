\* Client and peer writes that race, with every kind of malformed metadata, and TTLs at the ends of i64.
SPECIFICATION FairSpec
CONSTANTS
    None = None
    Garbage = Garbage
    k1 = k1
    k2 = k2
    b1 = b1
    b2 = b2
    e1 = e1
    PubKeys = {k1, k2}
    Bodies = {b1, b2}
    Entries = {e1}
    Schemes = {0, 1}
    MaxI64 = 3
    AddrStrs = {"cashaddr", "base58", "invalid"}
    RawAddress <- MCRawAddress
    AddrBody <- MCAddrBody
    Workers = {w1}
    Pollers = {p1}
    MaxTime = 2
    Inputs <- AuthInputs
INVARIANTS TypeOK OnlyAuthentic NoPanic FreshReads
PROPERTIES RegressOnlyByRace VanishOnlyByRace Answered
