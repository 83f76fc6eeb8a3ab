\* Two workers, one with two tasks, on a shared wallet, with lost answers, dropped tasks and a restart.
SPECIFICATION Spec
CONSTANTS
    None = None
    Garbage = Garbage
    NotPop = NotPop
    t1 = t1
    t2 = t2
    t3 = t3
    w1 = w1
    w2 = w2
    a1 = a1
    a2 = a2
    u1 = u1
    u2 = u2
    Tasks = {t1, t2, t3}
    Workers = {w1, w2}
    WorkerOf <- SharedWorker
    Addrs = {a1, a2}
    Urls = {u1, u2}
    Decodable = {u1}
    Txs <- PayMany
    Posts <- PostMany
    MaxPasses = 1
    MaxCrashes = 1
SYMMETRY SameWorker
INVARIANTS TypeOK TokensArePaid GateIsPaid InvoiceHonoured OncePerWorker
PROPERTIES PromiseSpec
