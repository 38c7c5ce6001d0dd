\* Three callers, ids modulo four: a late answer meets a later call.
SPECIFICATION FairSpec
CONSTANTS
    Callers = {a, b, c}
    MaxRpc = 4
INVARIANTS TypeOK QuietBetweenCalls
PROPERTIES RefinesRawRpc CallsReturn
