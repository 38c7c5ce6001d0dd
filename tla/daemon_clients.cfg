\* Two connections that may use one name or two; no prompt, nor the timer and the
\* idle code, which leave the table alone.  The system may stop: a shutdown that closes a
\* client waits for itself.
SPECIFICATION Spec
CONSTANTS
    Conns = {c1, c2}
    Names = {x, y}
    Prompts = {}
    Stallers = {}
    Events = {"wake", "security", "reset", "signal", "audit"}
    Main = Main
    NoConn = NoConn
    NoName = NoName
SYMMETRY MCSymmetry
CHECK_DEADLOCK FALSE
INVARIANTS TypeOK NoDeadClientEntry ReachableUnlessDuplicate CrashOnlyInShutdown OneShutdownActs
