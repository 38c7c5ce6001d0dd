\* One server; the security code against its start-up and its restarts.
SPECIFICATION Spec
CONSTANTS
    n1 = n1
    o1 = o1
    o2 = o2
    Names = {n1}
    Objs = {o1}
    NameOf <- OneObj
    BridgePrefixed = {}
    Tools = {t1}
    Invokers = {}
    Handlers = {}
    Closers = {c1, main}
    Main = main
    NoObj = NoObj
    Remote = Remote
    Nobody = Nobody
INVARIANT SecurityKillsAll
