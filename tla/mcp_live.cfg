\* One server, a system code and the signal; two prompts that call its tools.
SPECIFICATION FairSpec
CONSTANTS
    n1 = n1
    o1 = o1
    o2 = o2
    Names = {n1}
    Objs = {o1}
    NameOf <- OneObj
    BridgePrefixed = {}
    Tools = {t1}
    Invokers = {i1, i2}
    Handlers = {}
    Closers = {c1, main}
    Main = main
    NoObj = NoObj
    Remote = Remote
    Nobody = Nobody
PROPERTIES ShutdownAllReturns DeadServerLeaves InvokeReturns
