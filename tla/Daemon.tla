------------------------------- MODULE Daemon -------------------------------
(***************************************************************************)
(* The life of the daemon as its clients see it (src/internal/daemon:      *)
(* daemon.go, handlers.go, socket.go): connections and the table of named  *)
(* clients, the global state, prompts, the idle timer, the audit broadcast *)
(* and the shutdown sequence.                                              *)
(*                                                                         *)
(* Goroutines: one ReadLoop per element of Conns, which runs its handlers  *)
(* itself; Main, the loop of Run; one per prompt; the idle timer; the      *)
(* auditor.  clientsMu is a Go RWMutex: a writer that waits keeps new      *)
(* readers out.  The raw model, the Wide Model and the MCP manager are     *)
(* steps that end; that they do is shown, with its conditions, in their    *)
(* own modules.                                                            *)
(***************************************************************************)
EXTENDS Naturals

CONSTANTS
    Conns,    \* client connections, each used once
    Names,    \* the From fields clients use
    Prompts,  \* prompts that can be in flight at once, a bound of the model
    Stallers, \* connections whose client may stop reading
    Events,   \* what may happen besides connections and prompts, a bound of the model
    Main,     \* the goroutine of Run
    NoConn,   \* no entry in the table
    NoName    \* a connection that has not named itself

ASSUME SpecialValues == NoConn \notin Conns /\ NoName \notin Names /\ Main \notin Conns
ASSUME StallersAssumption == Stallers \subseteq Conns
ASSUME EventsAssumption ==
    Events \subseteq {"wake", "idle", "security", "reset", "signal", "timer", "audit"}

VARIABLES
    state,       \* Daemon.State
    at,          \* program counter of a ReadLoop or of Main
    why,         \* the reason of the shutdown a goroutine executes
    victim,      \* the connection that shutdown is about to close
    peer,        \* what a connection's client does
    name,        \* ClientConn.id
    closed,      \* ClientConn.done is closed
    clients,     \* Daemon.clients
    prompt,      \* program counter of a prompt
    owner,       \* the From of a prompt
    dest,        \* the connection a prompt's answer is being sent to
    timer,       \* the goroutine of the idle timer
    touched,     \* a prompt has set lastRequest since the timer was started
    audit,       \* the auditor's goroutine
    listening,   \* the listener is open
    peripherals, \* "on" until the security code switches them off
    daemon       \* the daemon process

tableVars  == <<name, closed, clients>>
promptVars == <<prompt, owner, dest>>
sideVars   == <<timer, touched, audit, listening, peripherals, daemon>>
vars == <<state, at, why, victim, peer, tableVars, promptVars, sideVars>>

Loops == Conns \cup {Main}

States == {"idle", "idle_requested", "listening", "processing", "security", "shutdown"}

\* Run before its loop; ReadLoop; the handlers; shutdown; the end of ReadLoop.
Places ==
    {"start", "ready", "readying", "none"} \cup
    {"scan", "add", "gate", "handle", "accept", "reply", "idling"} \cup
    {"shutdown", "cast", "casting", "listener", "lock", "closing", "victim",
     "stuck", "effects", "over"} \cup
    {"leave", "close", "remove", "end"}

TypeOK ==
    /\ state \in States
    /\ at \in [Loops -> Places]
    /\ why \in [Loops -> {"none", "signal", "security", "reset"}]
    /\ victim \in [Loops -> Conns \cup {NoConn}]
    /\ peer \in [Conns -> {"none", "open", "stalled", "gone"}]
    /\ name \in [Conns -> Names \cup {NoName}]
    /\ closed \in [Conns -> BOOLEAN]
    /\ clients \in [Names -> Conns \cup {NoConn}]
    /\ prompt \in [Prompts -> {"none", "new", "run", "send", "listen"}]
    /\ owner \in [Prompts -> Names \cup {NoName}]
    /\ dest \in [Prompts -> Conns \cup {NoConn}]
    /\ timer \in {"off", "armed", "unload", "done"}
    /\ touched \in BOOLEAN
    /\ audit \in {"wait", "cast", "casting", "off"}
    /\ listening \in BOOLEAN
    /\ peripherals \in {"on", "off"}
    /\ daemon \in {"running", "crashed", "exited"}

\* New, and Run up to the listener: clients come while the daemon still starts.
Init ==
    /\ state = "idle"
    /\ at = [l \in Loops |-> IF l = Main THEN "start" ELSE "none"]
    /\ why = [l \in Loops |-> "none"]
    /\ victim = [l \in Loops |-> NoConn]
    /\ peer = [c \in Conns |-> "none"]
    /\ name = [c \in Conns |-> NoName]
    /\ closed = [c \in Conns |-> FALSE]
    /\ clients = [n \in Names |-> NoConn]
    /\ prompt = [p \in Prompts |-> "none"]
    /\ owner = [p \in Prompts |-> NoName]
    /\ dest = [p \in Prompts |-> NoConn]
    /\ timer = "off"
    /\ touched = FALSE
    /\ audit = "wait"
    /\ listening = TRUE
    /\ peripherals = "on"
    /\ daemon = "running"

Running == daemon = "running"

Goto(l, place) == at' = [at EXCEPT ![l] = place]

\* A panic in any goroutine ends the daemon.
Crash == daemon' = "crashed"

-----------------------------------------------------------------------------
(* clientsMu                                                               *)

\* shutdown keeps the write lock while it closes the clients.
WriteHeld == \E l \in Loops : at[l] \in {"closing", "victim", "stuck"}

\* A broadcast keeps the read lock until its last Send has returned.
ReadHeld == audit = "casting" \/ \E l \in Loops : at[l] \in {"casting", "readying"}

WriteWaiting == \E l \in Loops : at[l] \in {"add", "remove", "lock"}

MayRead == ~WriteHeld /\ ~WriteWaiting
MayWrite == ~WriteHeld /\ ~ReadHeld

\* Send returns, with or without an error, unless the client does not read; it
\* refuses to write once done is closed.
SendReturns(c) == peer[c] # "stalled" \/ closed[c]

InTable(c) == \E n \in Names : clients[n] = c

BroadcastReturns == \A c \in Conns : InTable(c) => SendReturns(c)

-----------------------------------------------------------------------------
(* Run                                                                     *)

\* The raw model, the bridges, the patches and the Wide Model are set up while
\* clients are served already; startIdleTimer is the last of it.
Started ==
    /\ Running
    /\ at[Main] = "start"
    /\ Goto(Main, "ready")
    /\ timer' = "armed"
    /\ touched' = FALSE
    /\ UNCHANGED <<state, why, victim, peer, tableVars, promptVars, audit,
                   listening, peripherals, daemon>>

\* The broadcast of "CognitiveOS ready", then the loop that waits for signals.
ReadyCastBegins ==
    /\ Running
    /\ at[Main] = "ready"
    /\ MayRead
    /\ Goto(Main, "readying")
    /\ UNCHANGED <<state, why, victim, peer, tableVars, promptVars, sideVars>>

ReadyCastEnds ==
    /\ Running
    /\ at[Main] = "readying"
    /\ BroadcastReturns
    /\ Goto(Main, "none")
    /\ UNCHANGED <<state, why, victim, peer, tableVars, promptVars, sideVars>>

-----------------------------------------------------------------------------
(* Connections                                                             *)

\* acceptLoop starts a ReadLoop.
Accept(c) ==
    /\ Running
    /\ listening
    /\ at[c] = "none"
    /\ Goto(c, "scan")
    /\ peer' = [peer EXCEPT ![c] = "open"]
    /\ UNCHANGED <<state, why, victim, tableVars, promptVars, sideVars>>

\* The client stops reading, for as long as it stays connected.
Stall(c) ==
    /\ Running
    /\ c \in Stallers
    /\ peer[c] = "open"
    /\ peer' = [peer EXCEPT ![c] = "stalled"]
    /\ UNCHANGED <<state, at, why, victim, tableVars, promptVars, sideVars>>

\* The client disconnects.
Hangup(c) ==
    /\ Running
    /\ peer[c] \in {"open", "stalled"}
    /\ peer' = [peer EXCEPT ![c] = "gone"]
    /\ UNCHANGED <<state, at, why, victim, tableVars, promptVars, sideVars>>

\* Mutant of Scan: every message with a From names the connection.
ScanRenames(c) ==
    /\ Running
    /\ at[c] = "scan"
    /\ peer[c] \in {"open", "stalled"}
    /\ \/ UNCHANGED name /\ Goto(c, "gate")
       \/ /\ \E n \in Names : name' = [name EXCEPT ![c] = n]
          /\ Goto(c, "add")
    /\ UNCHANGED <<state, why, victim, peer, closed, clients, promptVars, sideVars>>

\* A message is read; the first one with a From names the connection.
Scan(c) ==
    /\ Running
    /\ at[c] = "scan"
    /\ peer[c] \in {"open", "stalled"}
    /\ \/ UNCHANGED name /\ Goto(c, "gate")
       \/ /\ name[c] = NoName
          /\ \E n \in Names : name' = [name EXCEPT ![c] = n]
          /\ Goto(c, "add")
    /\ UNCHANGED <<state, why, victim, peer, closed, clients, promptVars, sideVars>>

\* Mutant of AddClient: only an empty table takes a client.
AddClientOnce(c) ==
    /\ Running
    /\ at[c] = "add"
    /\ MayWrite
    /\ clients' = [n \in Names |-> IF n = name[c] /\ \A m \in Names : clients[m] = NoConn
                                   THEN c ELSE clients[n]]
    /\ Goto(c, "gate")
    /\ UNCHANGED <<state, why, victim, peer, name, closed, promptVars, sideVars>>

\* Mutant of AddClient: the connection that had the name is closed.
AddClientEvicts(c) ==
    /\ Running
    /\ at[c] = "add"
    /\ MayWrite
    /\ clients' = [clients EXCEPT ![name[c]] = c]
    /\ closed' = [d \in Conns |-> closed[d] \/ (d = clients[name[c]] /\ d # c)]
    /\ Goto(c, "gate")
    /\ UNCHANGED <<state, why, victim, peer, name, promptVars, sideVars>>

\* AddClient: the table's entry for the name is overwritten.
AddClient(c) ==
    /\ Running
    /\ at[c] = "add"
    /\ MayWrite
    /\ clients' = [clients EXCEPT ![name[c]] = c]
    /\ Goto(c, "gate")
    /\ UNCHANGED <<state, why, victim, peer, name, closed, promptVars, sideVars>>

\* Mutant of ScanEnds: the name goes with the connection, its entry stays.
ScanEndsUnnamed(c) ==
    /\ Running
    /\ at[c] = "scan"
    /\ peer[c] = "gone"
    /\ Goto(c, "leave")
    /\ name' = [name EXCEPT ![c] = NoConn]
    /\ UNCHANGED <<state, why, victim, peer, closed, clients, promptVars, sideVars>>

\* Scan meets the end of the connection.
ScanEnds(c) ==
    /\ Running
    /\ at[c] = "scan"
    /\ peer[c] = "gone"
    /\ Goto(c, "leave")
    /\ UNCHANGED <<state, why, victim, peer, tableVars, promptVars, sideVars>>

\* Close, deferred by ReadLoop: nothing to do if done is closed already.
CloseChecks(c) ==
    /\ Running
    /\ at[c] = "leave"
    /\ Goto(c, IF closed[c] THEN "end" ELSE "close")
    /\ UNCHANGED <<state, why, victim, peer, tableVars, promptVars, sideVars>>

\* close(done); a second close of the channel panics.
CloseDone(c) ==
    /\ Running
    /\ at[c] = "close"
    /\ \/ closed[c] /\ Crash /\ UNCHANGED <<at, closed>>
       \/ /\ ~closed[c]
          /\ closed' = [closed EXCEPT ![c] = TRUE]
          /\ Goto(c, IF name[c] = NoName THEN "end" ELSE "remove")
          /\ UNCHANGED daemon
    /\ UNCHANGED <<state, why, victim, peer, name, clients, promptVars, timer,
                   touched, audit, listening, peripherals>>

\* Mutant of RemoveClient: a connection that ends leaves its entry behind.
RemoveNothing(c) ==
    /\ Running
    /\ at[c] = "remove"
    /\ MayWrite
    /\ Goto(c, "end")
    /\ UNCHANGED <<state, why, victim, peer, tableVars, promptVars, sideVars>>

\* RemoveClient: the entry of the name goes, whoever it belongs to by now.
RemoveClient(c) ==
    /\ Running
    /\ at[c] = "remove"
    /\ MayWrite
    /\ clients' = [clients EXCEPT ![name[c]] = NoConn]
    /\ Goto(c, "end")
    /\ UNCHANGED <<state, why, victim, peer, name, closed, promptVars, sideVars>>

-----------------------------------------------------------------------------
(* Handlers                                                                *)

\* HandleMessage reads the state, once; the handler acts on it later.
Admit(c) ==
    /\ Running
    /\ at[c] = "gate"
    /\ Goto(c, IF state = "shutdown" THEN "reply" ELSE "handle")
    /\ UNCHANGED <<state, why, victim, peer, tableVars, promptVars, sideVars>>

\* ReadLoop looks at done before it reads on.
LoopTop(c) == IF closed[c] THEN "leave" ELSE "scan"

\* Every message but input_forward and the effective system codes: an answer,
\* and none for mcp_result.
JustReply(c) ==
    /\ Running
    /\ at[c] = "handle"
    /\ Goto(c, "reply") \/ Goto(c, LoopTop(c))
    /\ UNCHANGED <<state, why, victim, peer, tableVars, promptVars, sideVars>>

\* The answer is written to the connection itself.
Reply(c) ==
    /\ Running
    /\ at[c] = "reply"
    /\ SendReturns(c)
    /\ Goto(c, LoopTop(c))
    /\ UNCHANGED <<state, why, victim, peer, tableVars, promptVars, sideVars>>

\* The prompts in flight are bounded by Prompts.
PromptFree ==
    \E p \in Prompts : prompt[p] = "none" /\ \A c \in Conns : at[c] # "accept"

\* input_forward: Processing first, then the answer ...
InputForward(c) ==
    /\ Running
    /\ at[c] = "handle"
    /\ PromptFree
    /\ state' = "processing"
    /\ Goto(c, "accept")
    /\ UNCHANGED <<why, victim, peer, tableVars, promptVars, sideVars>>

\* ... then the prompt's goroutine, for the From of this message, which need
\* not be the name of the connection.
InputAccepted(c) ==
    /\ Running
    /\ at[c] = "accept"
    /\ SendReturns(c)
    /\ \E p \in Prompts, n \in Names \cup {NoName} :
          /\ name[c] = NoName => n = NoName
          /\ prompt[p] = "none"
          /\ prompt' = [prompt EXCEPT ![p] = "new"]
          /\ owner' = [owner EXCEPT ![p] = n]
    /\ Goto(c, LoopTop(c))
    /\ UNCHANGED <<state, why, victim, peer, tableVars, dest, sideVars>>

\* wake: Listening, from any state.
Wake(c) ==
    /\ Running
    /\ at[c] = "handle"
    /\ "wake" \in Events
    /\ state' = "listening"
    /\ Goto(c, "reply")
    /\ UNCHANGED <<why, victim, peer, tableVars, promptVars, sideVars>>

\* idle: IdleRequested, then Unload and ShutdownAll, then Idle.
IdleCode(c) ==
    /\ Running
    /\ at[c] = "handle"
    /\ "idle" \in Events
    /\ state' = "idle_requested"
    /\ Goto(c, "idling")
    /\ UNCHANGED <<why, victim, peer, tableVars, promptVars, sideVars>>

IdleEntered(c) ==
    /\ Running
    /\ at[c] = "idling"
    /\ state' = "idle"
    /\ Goto(c, "reply")
    /\ UNCHANGED <<why, victim, peer, tableVars, promptVars, sideVars>>

\* security, which sets the state at once, or reset; Unload and ShutdownAll,
\* then shutdown.
StopCode(c) ==
    /\ Running
    /\ at[c] = "handle"
    /\ \/ /\ "security" \in Events
          /\ state' = "security"
          /\ why' = [why EXCEPT ![c] = "security"]
       \/ /\ "reset" \in Events
          /\ UNCHANGED state
          /\ why' = [why EXCEPT ![c] = "reset"]
    /\ Goto(c, "shutdown")
    /\ UNCHANGED <<victim, peer, tableVars, promptVars, sideVars>>

-----------------------------------------------------------------------------
(* shutdown, executed by Main or by the ReadLoop that got the code         *)

Signal ==
    /\ Running
    /\ at[Main] = "none"
    /\ "signal" \in Events
    /\ Goto(Main, "shutdown")
    /\ why' = [why EXCEPT ![Main] = "signal"]
    /\ UNCHANGED <<state, victim, peer, tableVars, promptVars, sideVars>>

SetShutdown(l) ==
    /\ Running
    /\ at[l] = "shutdown"
    /\ state' = "shutdown"
    /\ Goto(l, "cast")
    /\ UNCHANGED <<why, victim, peer, tableVars, promptVars, sideVars>>

\* broadcast(shutdown_notice) takes the read lock ...
CastBegins(l) ==
    /\ Running
    /\ at[l] = "cast"
    /\ MayRead
    /\ Goto(l, "casting")
    /\ UNCHANGED <<state, why, victim, peer, tableVars, promptVars, sideVars>>

\* ... and gives it back when every Send has returned; Unload, ShutdownAll, half
\* a second and rmClient.Close follow.
CastEnds(l) ==
    /\ Running
    /\ at[l] = "casting"
    /\ BroadcastReturns
    /\ Goto(l, "listener")
    /\ UNCHANGED <<state, why, victim, peer, tableVars, promptVars, sideVars>>

\* Mutant of CloseListener: it is closed by whoever is first, the others go on.
CloseListenerOnce(l) ==
    /\ Running
    /\ at[l] = "listener"
    /\ listening' = FALSE
    /\ Goto(l, "lock")
    /\ UNCHANGED <<state, why, victim, peer, tableVars, promptVars, timer, touched,
                   audit, peripherals, daemon>>

\* listener.Close and auditor.Stop close channels; the second shutdown panics.
CloseListener(l) ==
    /\ Running
    /\ at[l] = "listener"
    /\ \/ ~listening /\ Crash /\ UNCHANGED <<at, listening>>
       \/ /\ listening
          /\ listening' = FALSE
          /\ Goto(l, "lock")
          /\ UNCHANGED daemon
    /\ UNCHANGED <<state, why, victim, peer, tableVars, promptVars, timer,
                   touched, audit, peripherals>>

\* clientsMu.Lock
LockClients(l) ==
    /\ Running
    /\ at[l] = "lock"
    /\ MayWrite
    /\ Goto(l, "closing")
    /\ UNCHANGED <<state, why, victim, peer, tableVars, promptVars, sideVars>>

\* Mutant of CloseEntry: the entry of a closed connection is left to its own
\* RemoveClient.
CloseEntryWaits(l, n) ==
    /\ Running
    /\ at[l] = "closing"
    /\ clients[n] # NoConn
    /\ ~closed[clients[n]]
    /\ victim' = [victim EXCEPT ![l] = clients[n]]
    /\ Goto(l, "victim")
    /\ UNCHANGED <<state, why, peer, tableVars, promptVars, sideVars>>

\* c.Close of an entry: an already closed connection is just taken out.
CloseEntry(l, n) ==
    /\ Running
    /\ at[l] = "closing"
    /\ clients[n] # NoConn
    /\ \/ /\ closed[clients[n]]
          /\ clients' = [clients EXCEPT ![n] = NoConn]
          /\ UNCHANGED <<at, victim>>
       \/ /\ ~closed[clients[n]]
          /\ victim' = [victim EXCEPT ![l] = clients[n]]
          /\ Goto(l, "victim")
          /\ UNCHANGED clients
    /\ UNCHANGED <<state, why, peer, name, closed, promptVars, sideVars>>

\* close(done), then RemoveClient asks for the lock its own goroutine holds.
CloseVictim(l) ==
    /\ Running
    /\ at[l] = "victim"
    /\ \/ closed[victim[l]] /\ Crash /\ UNCHANGED <<at, closed>>
       \/ /\ ~closed[victim[l]]
          /\ closed' = [closed EXCEPT ![victim[l]] = TRUE]
          /\ Goto(l, "stuck")
          /\ UNCHANGED daemon
    /\ UNCHANGED <<state, why, victim, peer, name, clients, promptVars, timer,
                   touched, audit, listening, peripherals>>

\* clientsMu.Unlock, once the table is empty.
UnlockClients(l) ==
    /\ Running
    /\ at[l] = "closing"
    /\ \A n \in Names : clients[n] = NoConn
    /\ Goto(l, "effects")
    /\ UNCHANGED <<state, why, victim, peer, tableVars, promptVars, sideVars>>

\* What the reason asks for; reset's "rm -rf dir/*" runs without a shell and
\* finds no file of that name.  After a signal Run returns; the handler of a
\* code answers and reads on: the process does not end.
Effects(l) ==
    /\ Running
    /\ at[l] = "effects"
    /\ peripherals' = IF why[l] = "security" THEN "off" ELSE peripherals
    /\ \/ /\ l = Main
          /\ Goto(l, "over")
          /\ daemon' = "exited"
       \/ /\ l \in Conns
          /\ Goto(l, "reply")
          /\ UNCHANGED daemon
    /\ UNCHANGED <<state, why, victim, peer, tableVars, promptVars, timer,
                   touched, audit, listening>>

-----------------------------------------------------------------------------
(* Prompts                                                                 *)

\* touchIdleTimer
PromptTouches(p) ==
    /\ Running
    /\ prompt[p] = "new"
    /\ prompt' = [prompt EXCEPT ![p] = "run"]
    /\ touched' = TRUE
    /\ UNCHANGED <<state, at, why, victim, peer, tableVars, owner, dest, timer,
                   audit, listening, peripherals, daemon>>

\* Validation, hot swap, inference and tools; every way out delivers something.
\* SendToClient looks the sender up under the read lock ...
PromptLooksUp(p) ==
    /\ Running
    /\ prompt[p] = "run"
    /\ MayRead
    /\ \/ \E n \in Names :
             /\ n = owner[p] /\ clients[n] # NoConn
             /\ prompt' = [prompt EXCEPT ![p] = "send"]
             /\ dest' = [dest EXCEPT ![p] = clients[n]]
       \/ /\ \A n \in Names : n = owner[p] => clients[n] = NoConn
          /\ prompt' = [prompt EXCEPT ![p] = "listen"]
          /\ UNCHANGED dest
    /\ UNCHANGED <<state, at, why, victim, peer, tableVars, owner, sideVars>>

\* ... and sends without it.  The deliveries of a prompt are one here.
PromptSends(p) ==
    /\ Running
    /\ prompt[p] = "send"
    /\ SendReturns(dest[p])
    /\ prompt' = [prompt EXCEPT ![p] = "listen"]
    /\ dest' = [dest EXCEPT ![p] = NoConn]
    /\ UNCHANGED <<state, at, why, victim, peer, tableVars, owner, sideVars>>

\* Mutant of PromptEnds: an early return that forgets the state.
PromptEndsQuietly(p) ==
    /\ Running
    /\ prompt[p] = "listen"
    /\ prompt' = [prompt EXCEPT ![p] = "none"]
    /\ owner' = [owner EXCEPT ![p] = NoName]
    /\ UNCHANGED <<state, at, why, victim, peer, tableVars, dest, sideVars>>

\* SetState(Listening), whatever the state is by now.
PromptEnds(p) ==
    /\ Running
    /\ prompt[p] = "listen"
    /\ state' = "listening"
    /\ prompt' = [prompt EXCEPT ![p] = "none"]
    /\ owner' = [owner EXCEPT ![p] = NoName]
    /\ UNCHANGED <<at, why, victim, peer, tableVars, dest, sideVars>>

-----------------------------------------------------------------------------
(* The idle timer and the auditor                                          *)

\* The timer fires once, five minutes after the start; a prompt before that
\* makes it do nothing, and it is not started again.
TimerFires ==
    /\ Running
    /\ timer = "armed"
    /\ "timer" \in Events
    /\ timer' = IF touched THEN "done" ELSE "unload"
    /\ UNCHANGED <<state, at, why, victim, peer, tableVars, promptVars, touched,
                   audit, listening, peripherals, daemon>>

\* The Wide Model is unloaded, then SetState(Idle).
TimerIdles ==
    /\ Running
    /\ timer = "unload"
    /\ timer' = "done"
    /\ state' = "idle"
    /\ UNCHANGED <<at, why, victim, peer, tableVars, promptVars, touched, audit,
                   listening, peripherals, daemon>>

AuditTick ==
    /\ Running
    /\ audit = "wait"
    /\ "audit" \in Events
    /\ audit' = "cast"
    /\ UNCHANGED <<state, at, why, victim, peer, tableVars, promptVars, timer,
                   touched, listening, peripherals, daemon>>

AuditCastBegins ==
    /\ Running
    /\ audit = "cast"
    /\ MayRead
    /\ audit' = "casting"
    /\ UNCHANGED <<state, at, why, victim, peer, tableVars, promptVars, timer,
                   touched, listening, peripherals, daemon>>

AuditCastEnds ==
    /\ Running
    /\ audit = "casting"
    /\ BroadcastReturns
    /\ audit' = "wait"
    /\ UNCHANGED <<state, at, why, victim, peer, tableVars, promptVars, timer,
                   touched, listening, peripherals, daemon>>

\* auditor.Stop comes right after listener.Close.
AuditStops ==
    /\ Running
    /\ audit = "wait"
    /\ ~listening
    /\ audit' = "off"
    /\ UNCHANGED <<state, at, why, victim, peer, tableVars, promptVars, timer,
                   touched, listening, peripherals, daemon>>

-----------------------------------------------------------------------------

ConnStep(c) ==
    \/ Accept(c) \/ Stall(c) \/ Hangup(c) \/ Scan(c) \/ AddClient(c) \/ ScanEnds(c)
    \/ CloseChecks(c) \/ CloseDone(c) \/ RemoveClient(c)

HandlerStep(c) ==
    \/ Admit(c) \/ JustReply(c) \/ Reply(c) \/ InputForward(c) \/ InputAccepted(c)
    \/ Wake(c) \/ IdleCode(c) \/ IdleEntered(c) \/ StopCode(c)

ShutdownStep(l) ==
    \/ SetShutdown(l) \/ CastBegins(l) \/ CastEnds(l) \/ CloseListener(l)
    \/ LockClients(l) \/ CloseVictim(l) \/ UnlockClients(l)
    \/ Effects(l) \/ \E n \in Names : CloseEntry(l, n)

PromptStep(p) ==
    PromptTouches(p) \/ PromptLooksUp(p) \/ PromptSends(p) \/ PromptEnds(p)

RunStep == Started \/ ReadyCastBegins \/ ReadyCastEnds \/ Signal

TimerStep == TimerFires \/ TimerIdles

AuditStep == AuditTick \/ AuditCastBegins \/ AuditCastEnds \/ AuditStops

\* A daemon that has crashed or exited takes no step.
Halted == ~Running /\ UNCHANGED vars

Next ==
    \/ \E c \in Conns : ConnStep(c) \/ HandlerStep(c)
    \/ \E l \in Loops : ShutdownStep(l)
    \/ \E p \in Prompts : PromptStep(p)
    \/ RunStep \/ TimerStep \/ AuditStep \/ Halted

Spec == Init /\ [][Next]_vars

\* A goroutine that can move does, and Go's RWMutex starves nobody.  Nothing is
\* assumed of the clients, the codes and the signals.
ConnFairness(c) ==
    /\ SF_vars(AddClient(c) \/ RemoveClient(c))
    /\ WF_vars(ScanEnds(c) \/ CloseChecks(c) \/ CloseDone(c))
    /\ WF_vars(HandlerStep(c))

ShutdownFairness(l) ==
    /\ SF_vars(CastBegins(l) \/ LockClients(l))
    /\ WF_vars(SetShutdown(l) \/ CastEnds(l) \/ CloseListener(l))
    /\ WF_vars(CloseVictim(l) \/ UnlockClients(l) \/ Effects(l)
               \/ \E n \in Names : CloseEntry(l, n))

PromptFairness(p) ==
    /\ SF_vars(PromptLooksUp(p))
    /\ WF_vars(PromptTouches(p) \/ PromptSends(p) \/ PromptEnds(p))

FairSpec ==
    /\ Spec
    /\ \A c \in Conns : ConnFairness(c)
    /\ \A l \in Loops : ShutdownFairness(l)
    /\ \A p \in Prompts : PromptFairness(p)
    /\ SF_vars(AuditCastBegins) /\ SF_vars(ReadyCastBegins)
    /\ WF_vars(AuditCastEnds) /\ WF_vars(Started \/ ReadyCastEnds)

-----------------------------------------------------------------------------
(* Safety                                                                  *)

\* The daemon says "processing" only while a prompt is being worked on or is
\* about to be: no way out of processPrompt, and no order in which prompts,
\* codes and the timer set the state, leaves it there.
ProcessingHasPrompt ==
    state = "processing" =>
        \/ \E p \in Prompts : prompt[p] # "none"
        \/ \E c \in Conns : at[c] = "accept"

\* An entry of the table is a connection of that name whose ReadLoop has not
\* ended: an answer is never written to a connection long gone (AddClient and
\* RemoveClient go by name, and ReadLoop and shutdown both close).  The one
\* exception is the client a shutdown has closed and waits for itself to remove.
NoDeadClientEntry ==
    \A n \in Names : clients[n] \in Conns =>
        /\ name[clients[n]] = n
        /\ at[clients[n]] \notin {"none", "add"}
        /\ at[clients[n]] = "end" =>
              \E l \in Loops : at[l] = "stuck" /\ victim[l] = clients[n]

\* A named connection that is still read finds its answers, unless another
\* connection has used the same name (whose AddClient and RemoveClient take the
\* entry from it).
ReachableUnlessDuplicate ==
    \A c \in Conns :
        /\ name[c] # NoName
        /\ at[c] \notin {"add", "remove", "end"}
        => \/ clients[name[c]] = c
           \/ closed[c]
           \/ \E d \in Conns \ {c} : name[d] = name[c]

\* close(done) of a connection or of the listener panics the second time.  Only
\* a shutdown that has got as far as the listener can meet that: clients that
\* come, go and use each other's names never take the daemon down.
CrashOnlyInShutdown == daemon = "crashed" => ~listening

\* An answer goes to a connection that calls itself what the sender of the prompt
\* did, also when the connection it looked up has left, or lost its entry, before
\* the answer is written: SendToClient writes without the lock.
AnswerGoesToItsName ==
    \A p \in Prompts : prompt[p] = "send" => dest[p] \in Conns /\ name[dest[p]] = owner[p]

\* However many codes and signals come at once, only one shutdown ever closes the
\* clients and has its effects (power, peripherals, the wipe): any other ends, and the
\* daemon with it, at the listener.
OneShutdownActs ==
    \A l, m \in Loops :
        /\ at[l] \in {"lock", "closing", "victim", "stuck", "effects"}
        /\ at[m] \in {"lock", "closing", "victim", "stuck", "effects"}
        => l = m

-----------------------------------------------------------------------------
(* Liveness                                                                *)

\* A Send under way to a client that does not read.
SendBlocked ==
    \/ \E c \in Conns : at[c] \in {"reply", "accept"} /\ ~SendReturns(c)
    \/ \E p \in Prompts : prompt[p] = "send" /\ ~SendReturns(dest[p])
    \/ ReadHeld /\ ~BroadcastReturns

\* What the promise below is subject to: a client that never reads again, a
\* shutdown that waits for itself, a crash or an exit.
Excused ==
    \/ <>[]SendBlocked
    \/ <>[](\E l \in Loops : at[l] = "stuck")
    \/ <>~Running

\* Every goroutine that serves comes back: a ReadLoop answers each message it
\* has read, ends after a disconnect, and a shutdown that has begun ends, in
\* every order of taking and waiting for clientsMu.
LoopsComeBack == Excused \/ \A l \in Loops : []<>(at[l] \in {"none", "scan", "end"})

\* README.md:11, "security: ... power off peripherals": a security code that has
\* reached shutdown gets there, unless the daemon dies first.
SecurityPowersOff ==
    \A c \in Conns :
        (at[c] = "shutdown" /\ why[c] = "security") ~> (peripherals = "off" \/ ~Running)
=============================================================================
