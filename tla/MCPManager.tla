----------------------------- MODULE MCPManager -----------------------------
(***************************************************************************)
(* The MCP manager of cognitiveosd (src/internal/daemon/mcp_lifecycle.go): *)
(* tool-server processes are spawned, registered in a table, asked for     *)
(* their tools, invoked over stdin/stdout, supervised, restarted and, on a *)
(* system code or a signal, terminated.                                    *)
(*                                                                         *)
(* Goroutines modelled, each with a program counter:                       *)
(*   - one supervision chain per element of Objs: Spawn, DiscoverTools and *)
(*     Wait of one MCPServer object after another (Wait restarts by        *)
(*     calling Spawn, so a chain works on one object at a time);           *)
(*   - Invokers: prompts and tune requests that call Invoke;               *)
(*   - Handlers: client connections that send mcp_register/mcp_unregister; *)
(*   - Closers: client connections that send system codes, and Main, the   *)
(*     goroutine of Daemon.Run that handles a termination signal.          *)
(*                                                                         *)
(* The manager's RWMutex m.mu has Go's semantics: a writer that waits      *)
(* (writer # Nobody) keeps new readers out.  Critical sections that cannot *)
(* block are one action; Invoke, which blocks inside its own, is not.      *)
(***************************************************************************)
EXTENDS Naturals, FiniteSets

CONSTANTS
    Names,           \* names of tool servers (keys of m.servers)
    Objs,            \* supervision chains, each with its MCPServer object
    NameOf,          \* the server name a chain works for
    BridgePrefixed,  \* names that start with "bridge-": never restarted
    Tools,           \* tool names
    Invokers,        \* goroutines that call Invoke
    Handlers,        \* connections that register and unregister servers
    Closers,         \* goroutines that call ShutdownAll
    Main,            \* the one of them that runs Daemon.Run
    NoObj,           \* no entry in the table
    Remote,          \* the entry of a server known only from mcp_register
    Nobody           \* no writer waits for m.mu

ASSUME NameOfType == NameOf \in [Objs -> Names]
ASSUME SpecialObjs == NoObj \notin Objs /\ Remote \notin Objs /\ NoObj # Remote
ASSUME Goroutines ==
    /\ Nobody \notin Objs \cup Handlers \cup Closers
    /\ Objs \cap Handlers = {} /\ Objs \cap Closers = {} /\ Handlers \cap Closers = {}
    /\ Main \in Closers
ASSUME BridgePrefixed \subseteq Names

VARIABLES
    servers,    \* m.servers: name -> object, Remote or NoObj
    announced,  \* tools of the Remote entry of a name
    task,       \* program counter of a supervision chain
    proc,       \* the process of the chain's current object
    active,     \* MCPServer.active
    tools,      \* MCPServer.Tools
    conn,       \* MCPServer.Conn # nil
    signalled,  \* ShutdownAll has sent SIGTERM and watches the process
    writer,     \* the goroutine inside m.mu.Lock()
    call,       \* program counter of an Invoke call
    target,     \* the object an Invoke call works on
    req,        \* the request a handler executes
    code,       \* program counter of a closer
    state,      \* Daemon.State: "up" stands for all but idle and shutdown
    unspawned,  \* names the start-up has not spawned yet
    daemon      \* the daemon process itself

chainVars  == <<task, proc, active, tools, conn, signalled>>
tableVars  == <<servers, announced>>
invokeVars == <<call, target>>
outerVars  == <<req, code, state, unspawned, daemon>>
vars == <<tableVars, chainVars, writer, invokeVars, outerVars>>

Writers == Objs \cup Handlers \cup Closers

TypeOK ==
    /\ servers \in [Names -> Objs \cup {NoObj, Remote}]
    /\ announced \in [Names -> SUBSET Tools]
    /\ task \in [Objs -> {"free", "start", "register", "discover", "wait",
                          "reaped", "unregister", "decide"}]
    /\ proc \in [Objs -> {"none", "running", "exited", "reaped"}]
    /\ active \in [Objs -> BOOLEAN]
    /\ tools \in [Objs -> SUBSET Tools]
    /\ conn \in [Objs -> BOOLEAN]
    /\ signalled \in [Objs -> BOOLEAN]
    /\ writer \in Writers \cup {Nobody}
    /\ call \in [Invokers -> {"idle", "want", "locked", "scan"}]
    /\ target \in [Invokers -> Objs \cup {NoObj, Remote}]
    /\ req \in [Handlers -> {"none", "register", "unregister"}]
    /\ code \in [Closers -> {"none", "idle", "idled", "stop", "down", "final", "done"}]
    /\ state \in {"up", "idle", "shutdown"}
    /\ unspawned \subseteq Names
    /\ daemon \in {"running", "crashed", "exited"}

Init ==
    /\ servers = [n \in Names |-> NoObj]
    /\ announced = [n \in Names |-> {}]
    /\ task = [o \in Objs |-> "free"]
    /\ proc = [o \in Objs |-> "none"]
    /\ active = [o \in Objs |-> FALSE]
    /\ tools = [o \in Objs |-> {}]
    /\ conn = [o \in Objs |-> FALSE]
    /\ signalled = [o \in Objs |-> FALSE]
    /\ writer = Nobody
    /\ call = [i \in Invokers |-> "idle"]
    /\ target = [i \in Invokers |-> NoObj]
    /\ req = [h \in Handlers |-> "none"]
    /\ code = [c \in Closers |-> "none"]
    /\ state = "up"
    /\ unspawned = Names
    /\ daemon = "running"

\* Goroutines move while the daemon process is there.
Running == daemon = "running"

-----------------------------------------------------------------------------
(* m.mu                                                                    *)

\* Invoke holds the read lock from resolveServer to its return.
Reading(i) == call[i] \in {"locked", "scan"}
NoReaders == \A i \in Invokers : ~Reading(i)

\* A goroutine whose next statement is m.mu.Lock().
Wants(g) ==
    \/ g \in Objs /\ task[g] \in {"register", "unregister"}
    \/ g \in Handlers /\ req[g] # "none"
    \/ g \in Closers /\ code[g] \in {"idle", "stop", "final"}

\* m.mu.Lock() is called: from here on no new reader is admitted.
Announce(g) ==
    /\ Running
    /\ writer = Nobody
    /\ Wants(g)
    /\ writer' = g
    /\ UNCHANGED <<tableVars, chainVars, invokeVars, outerVars>>

\* Mutant of WriteLocked: Invoke gives the read lock back before its RPC.
WriteLockedBesideInvoke(g) == writer = g /\ writer' = Nobody

\* The goroutine has the write lock and will release it in this action.
WriteLocked(g) == writer = g /\ NoReaders /\ writer' = Nobody

\* Mutant of RemoveEntry: the entry is deactivated and not deleted.
RemoveEntryKeepsIt(n) ==
    /\ UNCHANGED tableVars
    /\ active' = [p \in Objs |-> active[p] /\ servers[n] # p]

\* Unregister(name): whatever the name stands for now is deactivated and removed.
RemoveEntry(n) ==
    /\ servers' = [servers EXCEPT ![n] = NoObj]
    /\ announced' = [announced EXCEPT ![n] = {}]
    /\ active' = [p \in Objs |-> active[p] /\ servers[n] # p]

-----------------------------------------------------------------------------
(* Supervision: Spawn, DiscoverTools, Wait                                 *)

\* go m.Spawn(name, path), for a core bridge or a patch, when the daemon starts.
SpawnAtStartup(o) ==
    /\ Running
    /\ NameOf[o] \in unspawned
    /\ task[o] = "free"
    /\ task' = [task EXCEPT ![o] = "start"]
    /\ unspawned' = unspawned \ {NameOf[o]}
    /\ UNCHANGED <<tableVars, proc, active, tools, conn, signalled, writer,
                   invokeVars, req, code, state, daemon>>

\* cmd.Start() succeeds and a new active MCPServer is made.
Start(o) ==
    /\ Running
    /\ task[o] = "start"
    /\ task' = [task EXCEPT ![o] = "register"]
    /\ proc' = [proc EXCEPT ![o] = "running"]
    /\ active' = [active EXCEPT ![o] = TRUE]
    /\ UNCHANGED <<tableVars, tools, conn, signalled, writer, invokeVars, outerVars>>

\* The pipes or cmd.Start() fail: Spawn returns, nobody tries again.
StartFails(o) ==
    /\ Running
    /\ task[o] = "start"
    /\ task' = [task EXCEPT ![o] = "free"]
    /\ UNCHANGED <<tableVars, proc, active, tools, conn, signalled, writer,
                   invokeVars, outerVars>>

\* Mutant of RegisterProcess: the table keeps the name instead of the object.
RegisterProcessByName(o) ==
    /\ Running
    /\ task[o] = "register"
    /\ WriteLocked(o)
    /\ servers' = [servers EXCEPT ![NameOf[o]] = NameOf[o]]
    /\ announced' = [announced EXCEPT ![NameOf[o]] = {}]
    /\ task' = [task EXCEPT ![o] = "discover"]
    /\ UNCHANGED <<proc, active, tools, conn, signalled, invokeVars, outerVars>>

\* RegisterProcess: the entry of the name is overwritten, whatever it was.
RegisterProcess(o) ==
    /\ Running
    /\ task[o] = "register"
    /\ WriteLocked(o)
    /\ servers' = [servers EXCEPT ![NameOf[o]] = o]
    /\ announced' = [announced EXCEPT ![NameOf[o]] = {}]
    /\ task' = [task EXCEPT ![o] = "discover"]
    /\ UNCHANGED <<proc, active, tools, conn, signalled, invokeVars, outerVars>>

\* DiscoverTools appends what a line of the server's stdout lists, without a lock.
Discover(o) ==
    /\ Running
    /\ task[o] = "discover"
    /\ proc[o] \in {"running", "exited"}
    /\ \E T \in SUBSET Tools : tools' = [tools EXCEPT ![o] = @ \cup T]
    /\ task' = [task EXCEPT ![o] = "wait"]
    /\ UNCHANGED <<tableVars, proc, active, conn, signalled, writer,
                   invokeVars, outerVars>>

\* Mutant of DiscoverEOF: DiscoverTools asks again instead of giving up.
DiscoverEOFAsksAgain(o) ==
    /\ Running
    /\ task[o] = "discover"
    /\ proc[o] \in {"exited", "reaped"}
    /\ UNCHANGED vars

\* DiscoverTools meets a broken pipe or the end of stdout.
DiscoverEOF(o) ==
    /\ Running
    /\ task[o] = "discover"
    /\ proc[o] \in {"exited", "reaped"}
    /\ task' = [task EXCEPT ![o] = "wait"]
    /\ UNCHANGED <<tableVars, proc, active, tools, conn, signalled, writer,
                   invokeVars, outerVars>>

\* The process ends: by itself, or killed.
ProcessExit(o) ==
    /\ Running
    /\ proc[o] = "running"
    /\ proc' = [proc EXCEPT ![o] = "exited"]
    /\ UNCHANGED <<tableVars, task, active, tools, conn, signalled, writer,
                   invokeVars, outerVars>>

\* p.Wait() in the goroutine ShutdownAll leaves behind.
WatcherReaps(o) ==
    /\ Running
    /\ signalled[o]
    /\ proc[o] = "exited"
    /\ proc' = [proc EXCEPT ![o] = "reaped"]
    /\ UNCHANGED <<tableVars, task, active, tools, conn, signalled, writer,
                   invokeVars, outerVars>>

\* s.Process.Wait() returns, with a status or because the watcher was first.
Reap(o) ==
    /\ Running
    /\ task[o] = "wait"
    /\ proc[o] \in {"exited", "reaped"}
    /\ proc' = [proc EXCEPT ![o] = "reaped"]
    /\ task' = [task EXCEPT ![o] = "reaped"]
    /\ UNCHANGED <<tableVars, active, tools, conn, signalled, writer,
                   invokeVars, outerVars>>

\* s.mu is held by an Invoke call from its request to its answer.
ServerFree(o) == \A i \in Invokers : ~(call[i] = "scan" /\ target[i] = o)

\* s.active = false under s.mu, without m.mu.
Deactivate(o) ==
    /\ Running
    /\ task[o] = "reaped"
    /\ ServerFree(o)
    /\ active' = [active EXCEPT ![o] = FALSE]
    /\ task' = [task EXCEPT ![o] = "unregister"]
    /\ UNCHANGED <<tableVars, proc, tools, conn, signalled, writer,
                   invokeVars, outerVars>>

\* mgr.Unregister(s.Name): by name, even if the name is another object's by now.
UnregisterSelf(o) ==
    /\ Running
    /\ task[o] = "unregister"
    /\ WriteLocked(o)
    /\ RemoveEntry(NameOf[o])
    /\ task' = [task EXCEPT ![o] = "decide"]
    /\ UNCHANGED <<proc, tools, conn, signalled, invokeVars, outerVars>>

Restarts(o) == NameOf[o] \notin BridgePrefixed /\ state # "shutdown"

\* Mutant of Decide: Spawn reuses the MCPServer object with the tools it had.
DecideKeepsTools(o) ==
    /\ Running
    /\ task[o] = "decide"
    /\ task' = [task EXCEPT ![o] = IF Restarts(o) THEN "start" ELSE "free"]
    /\ proc' = [proc EXCEPT ![o] = "none"]
    /\ active' = [active EXCEPT ![o] = FALSE]
    /\ conn' = [conn EXCEPT ![o] = FALSE]
    /\ signalled' = [signalled EXCEPT ![o] = FALSE]
    /\ UNCHANGED <<tableVars, tools, writer, invokeVars, outerVars>>

\* The end of Wait: the state is read once, the restart comes two seconds later.
Decide(o) ==
    /\ Running
    /\ task[o] = "decide"
    /\ task' = [task EXCEPT ![o] = IF Restarts(o) THEN "start" ELSE "free"]
    /\ proc' = [proc EXCEPT ![o] = "none"]
    /\ active' = [active EXCEPT ![o] = FALSE]
    /\ tools' = [tools EXCEPT ![o] = {}]
    /\ conn' = [conn EXCEPT ![o] = FALSE]
    /\ signalled' = [signalled EXCEPT ![o] = FALSE]
    /\ UNCHANGED <<tableVars, writer, invokeVars, outerVars>>

\* One iteration of the health check, under m.mu.RLock: signal 0 fails only for
\* a process already waited for.  A second chain is started for the name.
HealthTick(o, new) ==
    /\ Running
    /\ writer = Nobody
    /\ servers[NameOf[o]] = o
    /\ active[o]
    /\ proc[o] = "reaped"
    /\ task[new] = "free"
    /\ NameOf[new] = NameOf[o]
    /\ task' = [task EXCEPT ![new] = "start"]
    /\ UNCHANGED <<tableVars, proc, active, tools, conn, signalled, writer,
                   invokeVars, outerVars>>

-----------------------------------------------------------------------------
(* Invoke                                                                  *)

\* A tool call of the model's response, or of a tune request.
CallTool(i) ==
    /\ Running
    /\ call[i] = "idle"
    /\ call' = [call EXCEPT ![i] = "want"]
    /\ UNCHANGED <<tableVars, chainVars, writer, target, outerVars>>

Return(i) ==
    /\ call' = [call EXCEPT ![i] = "idle"]
    /\ target' = [target EXCEPT ![i] = NoObj]

\* resolveServer's test: the entry of n lists tool t.
Offers(n, t) ==
    \/ servers[n] = Remote /\ t \in announced[n]
    \/ servers[n] \in Objs /\ t \in tools[servers[n]]

\* The entry found is used only if it is active; Remote entries always are.
Usable(n) == servers[n] = Remote \/ (servers[n] \in Objs /\ active[servers[n]])

\* RLock, resolveServer (the map's order picks among several offers), the lookup.
InvokeResolve(i) ==
    /\ Running
    /\ call[i] = "want"
    /\ writer = Nobody
    /\ \E t \in Tools, n \in Names :
          /\ Offers(n, t)
          /\ Usable(n)
          /\ target' = [target EXCEPT ![i] = servers[n]]
    /\ call' = [call EXCEPT ![i] = "locked"]
    /\ UNCHANGED <<tableVars, chainVars, writer, outerVars>>

\* E_TOOL_NOT_FOUND, or E_SERVER_NOT_FOUND for an entry no longer active.
InvokeNotFound(i) ==
    /\ Running
    /\ call[i] = "want"
    /\ writer = Nobody
    /\ \E t \in Tools :
          \/ \A n \in Names : ~Offers(n, t)
          \/ \E n \in Names : Offers(n, t) /\ ~Usable(n)
    /\ Return(i)
    /\ UNCHANGED <<tableVars, chainVars, writer, outerVars>>

\* server.mu.Lock(), then the request is written to the server's stdin.
InvokeSend(i) ==
    /\ Running
    /\ call[i] = "locked"
    /\ target[i] \in Objs
    /\ ServerFree(target[i])
    /\ proc[target[i]] = "running"
    /\ call' = [call EXCEPT ![i] = "scan"]
    /\ UNCHANGED <<tableVars, chainVars, writer, target, outerVars>>

\* Mutant of InvokeSendFails: an early return that keeps the locks.
InvokeSendFailsLocked(i) ==
    /\ Running
    /\ call[i] = "locked"
    /\ target[i] \in Objs
    /\ proc[target[i]] # "running"
    /\ UNCHANGED vars

\* The same, but the server's end of the pipe is gone.
InvokeSendFails(i) ==
    /\ Running
    /\ call[i] = "locked"
    /\ target[i] \in Objs
    /\ ServerFree(target[i])
    /\ proc[target[i]] # "running"
    /\ Return(i)
    /\ UNCHANGED <<tableVars, chainVars, writer, outerVars>>

\* A Remote entry has no Stdin: the nil encoder is dereferenced and the daemon dies.
InvokeNilStdin(i) ==
    /\ Running
    /\ call[i] = "locked"
    /\ target[i] = Remote
    /\ daemon' = "crashed"
    /\ UNCHANGED <<tableVars, chainVars, writer, invokeVars, req, code, state, unspawned>>

\* The server answers: a result, a tool error, or a line that does not parse.
InvokeReply(i) ==
    /\ Running
    /\ call[i] = "scan"
    /\ proc[target[i]] \in {"running", "exited"}
    /\ Return(i)
    /\ UNCHANGED <<tableVars, chainVars, writer, outerVars>>

\* The answer's "error" is not an object: the type assertion panics.
InvokeMalformed(i) ==
    /\ Running
    /\ call[i] = "scan"
    /\ proc[target[i]] \in {"running", "exited"}
    /\ daemon' = "crashed"
    /\ UNCHANGED <<tableVars, chainVars, writer, invokeVars, req, code, state, unspawned>>

\* Mutant of InvokeEOF: the call keeps scanning after the end of stdout.
InvokeEOFScansOn(i) ==
    /\ Running
    /\ call[i] = "scan"
    /\ proc[target[i]] \in {"exited", "reaped"}
    /\ UNCHANGED vars

\* Scan meets the end of stdout: "disconnected".
InvokeEOF(i) ==
    /\ Running
    /\ call[i] = "scan"
    /\ proc[target[i]] \in {"exited", "reaped"}
    /\ Return(i)
    /\ UNCHANGED <<tableVars, chainVars, writer, outerVars>>

-----------------------------------------------------------------------------
(* mcp_register and mcp_unregister                                         *)

\* HandleMessage lets a request through unless the daemon is shutting down.
Request(h) ==
    /\ Running
    /\ req[h] = "none"
    /\ state # "shutdown"
    /\ \E r \in {"register", "unregister"} : req' = [req EXCEPT ![h] = r]
    /\ UNCHANGED <<tableVars, chainVars, writer, invokeVars, code, state,
                   unspawned, daemon>>

\* Register for a name with an entry: only its connection and tools change.
RegisterExisting(h) ==
    /\ Running
    /\ req[h] = "register"
    /\ WriteLocked(h)
    /\ \E o \in Objs, T \in SUBSET Tools :
          /\ servers[NameOf[o]] = o
          /\ conn' = [conn EXCEPT ![o] = TRUE]
          /\ tools' = [tools EXCEPT ![o] = T]
    /\ req' = [req EXCEPT ![h] = "none"]
    /\ UNCHANGED <<tableVars, task, proc, active, signalled, invokeVars, code,
                   state, unspawned, daemon>>

\* Register for a name without a process: the entry has no process and no pipes.
RegisterRemote(h) ==
    /\ Running
    /\ req[h] = "register"
    /\ WriteLocked(h)
    /\ \E n \in Names, T \in SUBSET Tools :
          /\ servers[n] \in {NoObj, Remote}
          /\ servers' = [servers EXCEPT ![n] = Remote]
          /\ announced' = [announced EXCEPT ![n] = T]
    /\ req' = [req EXCEPT ![h] = "none"]
    /\ UNCHANGED <<chainVars, invokeVars, code, state, unspawned, daemon>>

\* Unregister for the name in the envelope's From field.
UnregisterNamed(h) ==
    /\ Running
    /\ req[h] = "unregister"
    /\ WriteLocked(h)
    /\ \E n \in Names : RemoveEntry(n)
    /\ req' = [req EXCEPT ![h] = "none"]
    /\ UNCHANGED <<task, proc, tools, conn, signalled, invokeVars, code, state,
                   unspawned, daemon>>

-----------------------------------------------------------------------------
(* System codes, the termination signal, ShutdownAll                       *)

\* idle: ShutdownAll, then StateIdle.
IdleCode(c) ==
    /\ Running
    /\ c # Main
    /\ code[c] = "none"
    /\ state # "shutdown"
    /\ code' = [code EXCEPT ![c] = "idle"]
    /\ UNCHANGED <<tableVars, chainVars, writer, invokeVars, req, state,
                   unspawned, daemon>>

\* security and reset: ShutdownAll, then shutdown, which calls it again.
StopCode(c) ==
    /\ Running
    /\ c # Main
    /\ code[c] = "none"
    /\ state # "shutdown"
    /\ code' = [code EXCEPT ![c] = "stop"]
    /\ UNCHANGED <<tableVars, chainVars, writer, invokeVars, req, state,
                   unspawned, daemon>>

\* SIGTERM, SIGINT or SIGQUIT reaches the loop of Run: shutdown.
Signal ==
    /\ Running
    /\ code[Main] = "none"
    /\ code' = [code EXCEPT ![Main] = "down"]
    /\ UNCHANGED <<tableVars, chainVars, writer, invokeVars, req, state,
                   unspawned, daemon>>

\* Where ShutdownAll returns to, in handleSystemCode and in shutdown.
AfterShutdownAll == [idle |-> "idled", stop |-> "down", final |-> "done"]

\* Mutant of ShutdownAll: the entries are deactivated but stay in the table.
ShutdownAllKeepsEntries(c) ==
    /\ Running
    /\ code[c] \in DOMAIN AfterShutdownAll
    /\ WriteLocked(c)
    /\ signalled' = [o \in Objs |-> signalled[o] \/ servers[NameOf[o]] = o]
    /\ active' = [o \in Objs |-> active[o] /\ servers[NameOf[o]] # o]
    /\ code' = [code EXCEPT ![c] = AfterShutdownAll[@]]
    /\ UNCHANGED <<tableVars, task, proc, tools, conn, invokeVars, req, state,
                   unspawned, daemon>>

\* ShutdownAll: every entry with a process gets SIGTERM and a watcher that kills
\* it after two seconds; every entry is deactivated and removed.
ShutdownAll(c) ==
    /\ Running
    /\ code[c] \in DOMAIN AfterShutdownAll
    /\ WriteLocked(c)
    /\ signalled' = [o \in Objs |-> signalled[o] \/ servers[NameOf[o]] = o]
    /\ active' = [o \in Objs |-> active[o] /\ servers[NameOf[o]] # o]
    /\ servers' = [n \in Names |-> NoObj]
    /\ announced' = [n \in Names |-> {}]
    /\ code' = [code EXCEPT ![c] = AfterShutdownAll[@]]
    /\ UNCHANGED <<task, proc, tools, conn, invokeVars, req, state, unspawned, daemon>>

\* SetState(StateIdle), after the servers are gone.
EnterIdle(c) ==
    /\ Running
    /\ code[c] = "idled"
    /\ code' = [code EXCEPT ![c] = "none"]
    /\ state' = "idle"
    /\ UNCHANGED <<tableVars, chainVars, writer, invokeVars, req, unspawned, daemon>>

\* shutdown sets StateShutdown before its own ShutdownAll.
EnterShutdown(c) ==
    /\ Running
    /\ code[c] = "down"
    /\ code' = [code EXCEPT ![c] = "final"]
    /\ state' = "shutdown"
    /\ UNCHANGED <<tableVars, chainVars, writer, invokeVars, req, unspawned, daemon>>

\* wake and the end of a prompt set StateListening, whatever the state is;
\* the idle timer sets StateIdle without touching the servers.
StateChanges ==
    /\ Running
    /\ \E s \in {"up", "idle"} : s # state /\ state' = s
    /\ UNCHANGED <<tableVars, chainVars, writer, invokeVars, req, code,
                   unspawned, daemon>>

\* After a signal Run returns and the daemon process ends.
Exit ==
    /\ Running
    /\ code[Main] = "done"
    /\ daemon' = "exited"
    /\ UNCHANGED <<tableVars, chainVars, writer, invokeVars, req, code, state, unspawned>>

-----------------------------------------------------------------------------

ChainStep(o) ==
    \/ SpawnAtStartup(o) \/ Start(o) \/ StartFails(o) \/ RegisterProcess(o)
    \/ Discover(o) \/ DiscoverEOF(o) \/ ProcessExit(o) \/ WatcherReaps(o)
    \/ Reap(o) \/ Deactivate(o) \/ UnregisterSelf(o) \/ Decide(o)
    \/ \E new \in Objs : HealthTick(o, new)

InvokeStep(i) ==
    \/ CallTool(i) \/ InvokeResolve(i) \/ InvokeNotFound(i) \/ InvokeSend(i)
    \/ InvokeSendFails(i) \/ InvokeNilStdin(i) \/ InvokeReply(i)
    \/ InvokeMalformed(i) \/ InvokeEOF(i)

HandlerStep(h) ==
    Request(h) \/ RegisterExisting(h) \/ RegisterRemote(h) \/ UnregisterNamed(h)

CloserStep(c) ==
    IdleCode(c) \/ StopCode(c) \/ ShutdownAll(c) \/ EnterIdle(c) \/ EnterShutdown(c)

\* A daemon that has crashed or exited takes no step.
Halted == ~Running /\ UNCHANGED vars

Next ==
    \/ \E g \in Writers : Announce(g)
    \/ \E o \in Objs : ChainStep(o)
    \/ \E i \in Invokers : InvokeStep(i)
    \/ \E h \in Handlers : HandlerStep(h)
    \/ \E c \in Closers : CloserStep(c)
    \/ Signal \/ StateChanges \/ Exit \/ Halted

Spec == Init /\ [][Next]_vars
-----------------------------------------------------------------------------
(* Safety                                                                  *)

\* An entry of the table is an object that serves that very name and whose
\* chain has registered it and has not yet taken it out again: Invoke is never
\* handed an object that is being started, restarted or thrown away
\* (RegisterProcess, Wait and ShutdownAll against each other).
NoStaleEntry ==
    \A n \in Names : servers[n] \in Objs =>
        /\ NameOf[servers[n]] = n
        /\ task[servers[n]] \in {"discover", "wait", "reaped", "unregister"}

\* An entry that is no longer active is on its way out: its chain is just
\* about to unregister it, so E_SERVER_NOT_FOUND for a name never lasts.
InactiveEntryLeaves ==
    \A n \in Names : servers[n] \in Objs /\ ~active[servers[n]] =>
        task[servers[n]] = "unregister"

\* A server cannot be replaced, removed or restarted under an Invoke call that
\* resolved it: the object the call holds is still the entry of some name.
InvokePinsEntry ==
    \A i \in Invokers : Reading(i) => \E n \in Names : servers[n] = target[i]

\* DiscoverTools and Invoke both scan the server's stdout and DiscoverTools
\* takes no lock.  They can only meet, and take each other's answers, when an
\* mcp_register for the name arrived before the discovery was over.
StdoutSharedOnlyAfterRegister ==
    \A i \in Invokers, o \in Objs :
        call[i] = "scan" /\ target[i] = o /\ task[o] = "discover" => conn[o]

-----------------------------------------------------------------------------
(* Liveness.  Nothing is assumed of the tool servers, the clients and the  *)
(* codes; goroutines that can move do, Go's mutexes starve nobody, and the *)
(* kill two seconds after SIGTERM works.                                   *)

ChainFairness(o) ==
    /\ SF_vars(Announce(o))
    /\ WF_vars(Start(o) \/ StartFails(o))
    /\ WF_vars(RegisterProcess(o))
    /\ WF_vars(DiscoverEOF(o))
    /\ WF_vars(signalled[o] /\ ProcessExit(o))
    /\ WF_vars(Reap(o) \/ Deactivate(o))
    /\ WF_vars(UnregisterSelf(o) \/ Decide(o))

InvokeFairness(i) ==
    /\ SF_vars(InvokeResolve(i) \/ InvokeNotFound(i))
    /\ SF_vars(InvokeSend(i) \/ InvokeSendFails(i) \/ InvokeNilStdin(i))
    /\ WF_vars(InvokeEOF(i))

HandlerFairness(h) ==
    /\ SF_vars(Announce(h))
    /\ WF_vars(RegisterExisting(h) \/ RegisterRemote(h) \/ UnregisterNamed(h))

CloserFairness(c) ==
    /\ SF_vars(Announce(c))
    /\ WF_vars(ShutdownAll(c) \/ EnterIdle(c) \/ EnterShutdown(c))

FairSpec ==
    /\ Spec
    /\ \A o \in Objs : ChainFairness(o)
    /\ \A i \in Invokers : InvokeFairness(i)
    /\ \A h \in Handlers : HandlerFairness(h)
    /\ \A c \in Closers : CloserFairness(c)

\* A live server owes an answer to a call.
ToolSilent == \E i \in Invokers : call[i] = "scan" /\ proc[target[i]] = "running"

\* What every promise below is subject to: a tool that never answers, which
\* keeps the read lock of the whole manager, or the end of the daemon.
Excused == <>[]ToolSilent \/ <>~Running

\* A goroutine inside ShutdownAll gets through it; only a tool that is silent
\* for ever can keep a system code or a signal from stopping the servers.
ShutdownAllReturns ==
    \A c \in Closers :
        Excused \/ []<>(code[c] \notin {"idle", "stop", "final"})

\* A server that has died does not stay in the table.
DeadServerLeaves ==
    \A o \in Objs :
        Excused \/ []<>~(servers[NameOf[o]] = o /\ proc[o] \in {"exited", "reaped"})

\* Every Invoke call returns.
InvokeReturns == \A i \in Invokers : Excused \/ []<>(call[i] = "idle")

-----------------------------------------------------------------------------
(* What the README says of the system codes                                *)

\* README.md:11, "security: Kill all processes": when the code's handler is
\* through, no tool server runs that was not told to stop.
SecurityKillsAll ==
    \A c \in Closers \ {Main} : code[c] = "done" =>
        \A o \in Objs : proc[o] = "running" => signalled[o]

\* README.md:10, "idle: ... suspend MCP servers": a server the idle code has
\* stopped is not started again while the daemon is idle.
IdleSuspends ==
    [][\A o \in Objs :
          /\ state = "idle" /\ \A c \in Closers : code[c] = "none"
          /\ task[o] = "decide" /\ signalled[o]
          => task'[o] # "start"]_vars
=============================================================================
