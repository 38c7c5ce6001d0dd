# A verification model of cognitiveosd

TLA+ modules, TLC configurations and TLAPS proofs about `cognitiveosd`, the
background daemon of CognitiveOS (Go, under `src/`).  Every definition is
translated from the code; `PROJECT.json` maps it to its lines.

## The system

| Component | State | Operations | Hard because |
|---|---|---|---|
| MCP manager (`mcp_lifecycle.go`) | table of servers under an RWMutex; per server its process, pipes, tools, `active` | Spawn, Register(Process), Unregister, DiscoverTools, Invoke, Wait, health check, respawn, ShutdownAll | a goroutine per server and per call, restarts by name, a read lock held over unbounded I/O, system codes in the middle of everything |
| Raw model client (`raw_client.go`) | one connection, `ready`, a request counter, a mutex | Connect, five calls, IsReady, Close | late, malformed and missing answers; ids never compared; test-then-call |
| Clients and socket (`socket.go`, `daemon.go`) | table of named clients under an RWMutex; per connection its name and `done` | accept, ReadLoop, AddClient, RemoveClient, Send, broadcast, Close | names are claimed, both ends close, broadcasts block |
| Daemon state and system codes (`daemon.go`, `handlers.go`) | one global state, idle timer, shutdown sequence | HandleMessage and its handlers, SetState, shutdown | set by every goroutine without looking; several shutdowns at once |
| Auditor (`audit.go`) | a goroutine, a `done` channel | Start, Stop, Collect, broadcast | broadcasts under the client lock |
| Wide Model client (`wide_client.go`) | what is loaded, its id, the system prompt | Generate, Load, Unload, LoadAdapter | the record is set after the engine has acted, outside any lock over both |
| Hot swap, registry, prompts (`daemon.go`) | model registry | scan, route, unload-load-prompt | several steps, each of which may fail; concurrent prompts |
| Prompt pipeline, tool loop, parser (`handlers.go`) | local to a prompt | guardrail, package validation, turns, deliveries | sequence of fallible calls; slicing without length tests |
| Configuration, `main` (`config.go`, `main.go`) | the configuration | defaults, TOML, environment, flags, derived paths | precedence; derived twice |
| Start and end of `Run` (`daemon.go`, `socket.go`) | PID file, socket | directories, PID file, bind, signals, shutdown | crashes leave files; two daemons on one path |

A client connection's ReadLoop calls `HandleMessage`, which calls the handler in
the same goroutine.  `input_forward` starts a goroutine per prompt: the raw model
is asked for a verdict, the Wide Model for an answer, the MCP manager for each
tool the answer calls, and the results go back through the client table.  The
codes `idle`, `security` and `reset` unload the model and stop the tool servers;
the latter two, and a signal, run `shutdown`, which broadcasts, stops everything
again, closes listener, auditor and clients, and then does what the reason asks for.

What makes each component correct: the table of servers holds live servers under
their own names, calls are not cut off by restarts, codes and calls return; a
caller gets the raw model's answer to its own question or an error; the client
table finds those who are connected and nobody else, the state is not left at
"processing", shutdown ends and does what it is for; the record of the Wide Model
is right about the engine, and a prompt routed to a model is answered by it; a
package tool runs on an approval only, and every prompt ends with one message; the
configuration is what its sources say, and a restart gets its socket.  `PROJECT.json` lists under
`hazards` where each of these can go wrong, with the properties that speak of it.  Where the
bad outcome is what the code does, the model does it too and no property excludes it: the
hazard's note says which action has it, and how far a property goes.

## Modules

| Module | What it is |
|---|---|
| `MCPManager` | the MCP manager and those who use it |
| `MCMCPManager` | its small instances |
| `MCPManagerProofs` | its theorems |
| `RawRpc` | what the daemon may rely on when it asks the raw model |
| `RawModelClient` | the client and an unreliable raw model; implements `RawRpc` |
| `RawModelClientProofs` | its theorems, the refinement among them |
| `Daemon` | clients, state, prompts, timer, auditor, shutdown |
| `MCDaemon` | its small instances |
| `DaemonProofs` | its theorems |
| `WideModel` | the inference engine, the client's record of it, swaps, loads, unloads, prompts |
| `MCWideModel` | its small instance |
| `WideModelProofs` | its theorems |
| `ToolCallParser` | `parseToolCalls` as operators on lines of tokens, and what a call means |
| `ToolCallParserProofs` | its theorems |
| `PromptPromise` | what the client, the tools and the raw model may rely on of a prompt |
| `PromptPipeline` | one prompt, from the guardrail to the final message; extends the parser, implements `PromptPromise` |
| `MCPromptPipeline` | its small instance |
| `PromptPipelineProofs` | its theorems |
| `Config` | what defaults, TOML file, environment and flags make of the configuration |
| `ConfigProofs` | that it is what their precedence says |
| `Startup` | daemon processes on one file system; extends `Config` |
| `MCStartup` | its small instance |
| `StartupProofs` | its theorems |

Mutants (definitions whose comment says so) are wrong variants of an action, each
a plausible slip in the code; every checked property is violated by one of them.

### MCPManager

An element of `Objs` is a *supervision chain*: the goroutine that runs `Spawn`,
`DiscoverTools` and `Wait` for one `MCPServer` after another, since `Wait` restarts
by calling `Spawn`.  `task` is its program counter; `proc`, `active`, `tools` and
`conn` are fields of the object it works on; `servers` is the table, whose entries
are objects, `Remote` (known from `mcp_register` only: no process, no pipes) or
`NoObj`.  Two chains with one name are a restart beside a health-check respawn.
`call` and `target` are the `Invoke` calls, `req` the requests of clients, `code`
the handlers of system codes and the loop of `Run` on their way through
`ShutdownAll`.

`m.mu` follows Go's RWMutex: `Announce` is the call of `Lock`, after which no new
reader gets in; the critical section is the action that takes `writer` back.
Sections that cannot block are one action.  `Invoke` blocks in its own (it reads
the tool's answer) and is split.  Unlocked accesses (`DiscoverTools`, the `active`
flag in `Wait`) are actions without a lock condition.  `ShutdownAll`'s message to
a server's stdin is left out: it is written under the write lock, when no call is
under way.  The interval of the health check and the two-second delays are left
out: the steps may come at any time.

### RawModelClient

`toServer` and `toClient` are the two directions of the connection.  The raw model
answers in order, whenever it likes, with a result, an error, no result or
something that does not decode (an error with a numeric code among them).  The
deadline may fire at any point of an exchange.  `rpcID` counts modulo `MaxRpc`.
`outcome` is what a caller got: its own answer, a stale one, an error, or nothing
because `IsReady` said no.  `RawRpc` has no stale answer; that
`RawModelClient` implements it says the client never returns one, although it
never looks at an id.

### Daemon

One program counter per ReadLoop and one for `Run`; those that execute `shutdown`
share its steps.  `HandleMessage` reads the state in `Admit` and the handler acts
later.  A broadcast holds the read lock of `clientsMu` from `CastBegins` to
`CastEnds`, and does not end while it meets a client that does not read.  `Close`
tests `done`, then closes it, then removes the entry: three steps.  `shutdown`
holds the write lock while it closes the clients; the `Close` it calls asks for
that lock again, which is the place `"stuck"`.  Panics (a channel closed twice)
set `daemon` to `"crashed"`.

A prompt is reduced to what others see of it: it touches the idle timer, delivers
(its several deliveries are one), and sets the state to listening.  `Prompts`
bounds how many are in flight.  `Events` says which of the other events (codes, signals,
the timer, the audit) an instance has; in `daemon_live` and `daemon_security` it has
all of them.  The calls to the raw model, the Wide Model and the
MCP manager are steps that end; the other modules say under which conditions
they do.

### WideModel

A slot of `Slots` is a goroutine at work on the Wide Model: the start-up load, a
prompt, a load or unload request, the end of a tune.  `wire` is its HTTP request,
`goal` the model it wants; `loaded`, `id` and `sysPrompt` are the client's record,
which changes in one step, after the engine has answered.  The engine may refuse,
may restart and lose its model, may load one on demand for an inference, and may
serve a request whose caller has given up after 300 seconds (`late`).  `w.mu` covers
single accesses only and needs no steps of its own.  `Skips` is the test of
`hotSwapWideModel` that leaves a prompt with the model it finds, on the strength of
the record: `RecordTruthful` says when that is sound.  `known`, `settled` and
`bare` are history variables for the properties: whether the engine's last change was
recorded in time, whose swap still counts, whether a load found no system prompt.  Hence
`RecordTruthful` and `RoutedPromptGetsItsModel` say nothing once another goroutine has
overtaken the one in question: wrong records and lost models after that are what the code
does.  The system prompt has nothing to do with the model it is set for, since
`mergeSystemPrompts` does not use its argument; it is read anew for each load, so that each
may find one or none.

### ToolCallParser and PromptPipeline

A response is a sequence of lines, a line a sequence of elements of `Token`: `@`, `(`,
`)`, `,`, `=` and whatever is between.  `Panics` says which lines make the slices of
`parseToolCalls` go out of range, `ToolCall` what it reads from the others.
`Written` and `Meant` are the reference: how a call is written and what is to be
read from it.  A call is proper (`IsProper`) if its tool has no parenthesis that opens,
no key an equals sign, and no key or value a comma, which the format has no way to
quote; it may have no arguments, several, or one key twice.

`PromptPipeline` is one goroutine; what makes it hard is the number of ways its
calls can fail.  `calls` holds the lines whose calls are still to be made, `results`
what the model will be told, `toolResults` and `delivered` what the client gets.
`maxLoops` is the constant `MaxLoops`.  The answers of the raw model to a
validation, of the tools, and of the engine are any.  A call may also take the daemon down
in the prompt's own goroutine (`InvokePanics`: a server with no `Stdin`, an error that is
no object); `CrashNeedsBrokenFence` is therefore about the parser alone.  What is sent is
decided first (places `deny`, `fail`, `deliver`) and delivered in a step of its own, which
may never come: `SendToClient` waits for the lock of the client table, which a shutdown that
waits for itself keeps, and writes to the client without a deadline.

`PromptPromise` forgets responses and calls.  The prompt is mapped to it by its place
(`Phase`), the answers used up (`Answers`: turns are counted from 0), the tool that
runs (`Running`) and whether this very run was approved (`Permit`, from the history
variable `approved`); `ran` and `told` are `toolResults` and `delivered`.  What is parsed,
validated or denied between two runs is a stutter.  `EveryStepIsNearer` orders the
states by turn, place and the steps left there.

### Config and Startup

A path is the sequence of its names; `Main(given)` is what `main` makes of a set of
settings, each with its source, and `Resolved(given)` what the precedence of the
sources says it should be.  Only settings with a value count, except flags.  The
second `Derive` of `main` is what keeps the paths in the directories the flags name.

`Startup` has one program counter per process.  `file` maps the PID files and
sockets there are to the process that made them.  A start removes the socket it
finds, whoever made it; closing the listener removes the path it was bound to,
whoever has bound it since.  A code shuts down in a client's goroutine and leaves
`Run` where it is, since nobody calls `Shutdown()`: the process lingers with its
PID file and no socket.  An empty socket path makes no file, and the chmod fails.  A process may be killed at any step.

## Runs

| Run | Instance | Shows |
|---|---|---|
| `mcp_safety` | 1 name, 2 chains, 1 call, 1 registering client, a signal | the table is right under restart, respawn, re-registration, removal and shutdown; calls pin their server; discovery and calls share stdout only after `mcp_register` |
| `mcp_live` | 1 chain, 2 calls, a code and a signal | codes, calls and removals end, or a tool is silent for ever |
| `mcp_security` | 1 chain, a code and a signal | *violated*: a server between start and registration survives the security code |
| `mcp_idle` | the same | *violated*: servers stopped by the idle code come back |
| `raw_client` | 3 callers, ids modulo 4 | own answer or error; quiet between calls; calls return; implements `RawRpc` |
| `daemon_clients` | 2 connections, 2 names, the codes but `idle`, the signal, the audit | the client table; no double close before a shutdown; of all shutdowns one gets to act |
| `daemon_prompts` | 2 connections, 2 names, 2 prompts, the `idle` code and the timer | "processing" is never left behind; answers go to the sender's name and no other connection's, also when the name is taken over before they are written |
| `daemon_live` | 1 connection that may stop reading | handlers, disconnects and shutdowns end |
| `daemon_security` | 1 connection | *violated*: the peripherals stay on, shutdown waits for itself |
| `wide_model` | 2 goroutines at a time, 2 models and a package without weights, 1 late request | the record names what the engine has whenever it was made in time; routed prompts get their model until another goroutine changes the engine; a named model has its system prompt if its load found one |
| `prompt_pipeline` | 6 proper calls, what is left of them without one or two tokens, fences that meet, 2 calls at a time, 2 turns | approvals, reports, one final message, a measure that sinks with every step, an end unless a tool or a delivery never returns; calls are read as written; only broken fences crash the parser; implements `PromptPromise` |
| `startup` | one start with up to 3 of 20 settings; 3 starts with up to one | the configuration is resolved; restarts get their socket; files outlive only crashes |

The three violated runs check what `src/README.md` lines 10 and 11 say of the
system codes; `PROJECT.json` quotes them under `findings`.

Bounds.  The table is keyed by name and operations on different names meet only
in the locks, so one name with two chains has every conflict over an entry; two
calls are what it takes to contend for a server.  Three callers of the raw model
are one in an exchange, one that waits and one that comes; ids modulo four
distinguish more requests than can be under way on one connection.  Two
connections are enough for a duplicate name and for two ReadLoops against a
shutdown; with the signal there are three shutdowns.  The liveness runs use one
object of the kind in question, since fairness multiplies their cost.  Deadlock
is not checked in the runs of `Daemon`, where the system really stops: a
shutdown that has closed a client waits for ever.  `daemon_clients` has no prompts and
every event that reads or changes the table, the locks or the end of the daemon, and
`wake`; `daemon_prompts` has what names, entries and the state depend on while the daemon
runs, and no shutdown: two connections with both are too large.  It leaves out `wake` as
well, whose one step sets the state as the end of another prompt does.  `ProcessingIsWork`
and `AnswersAreRouted` are proved with everything.  Clients that do not read are in
`daemon_live`: to the state and the routing of answers they are slow ones.
Two goroutines on the Wide Model overtake each other in every way two requests can,
each slot doing one job after another; one late request is enough to change the
engine behind either.  Two turns of the tool loop have a first, a last and one that
is told results; three were checked as well.  Removing up to two tokens from a call
removes each bracket and each half of a fence; two, three and four half fences
in a row are the ends of a call that meet, overlap or enclose nothing.  Settings meet in threes at most: a
flag, a variable and a TOML key for one field; three starts are one that crashed, one
that runs, and one more.  `startup` does not check deadlock either: processes end.

Symmetry is used for chains, connections, names, prompts, slots and models, in runs without
liveness only.

Fairness.  Goroutines that can move do (weak fairness of their steps) and Go's
mutexes starve nobody (strong fairness of acquisitions; a waiting writer blocks
new readers, waiting readers go first after a writer).  The raw model's deadline
fires.  A prompt goes on except while it waits for a tool or delivers something, neither of
which has a deadline; its requests to the raw model and to the engine have one.  Of a signalled server it is assumed that it ends, since it is killed after
two seconds.  Nothing is assumed of tool servers, the raw model, clients, codes
and signals.  The liveness properties of `MCPManager` are excused by a tool that
never answers, those of `Daemon` by a client that never reads again and by the
shutdown that waits for itself, and that of `PromptPipeline` by a tool or a delivery that
never returns: all of these are what the code does.

## Proofs

`MCPManagerProofs`, from the assumptions of `MCPManager` (chains have a name, the
special values are not objects, kinds of goroutines are disjoint):

- `TypeCorrect`: the type invariant.
- `TableSafe`: the inductive invariant `TableInv`, which adds to the safety
  properties what they need to be inductive: a chain's object is active when it
  comes to be registered; it has no tools before its discovery unless a
  registration gave it some; a call that reads from an object in discovery found
  it through such tools.
- `EntriesAreCurrent`, `InactiveEntriesLeave`, `InvokeIsPinned`,
  `DiscoveryReadsAlone`: the four safety properties of `mcp_safety`, for any sets
  of servers, chains, tools, calls and clients.

`RawModelClientProofs`, from `MaxRpc` being positive:

- `TypeCorrect`, and `LinkSafe`: one exchange at a time; the connection in use
  carries at most that exchange, under the current id; readiness means a
  completed Connect and a connection in use.
- `NoLateAnswer`: nothing waits in the connection between exchanges.
- `ImplementsRawRpc`: every step is a step of `RawRpc` or a stutter, so that
  every behaviour of the client is one of `RawRpc`, for any callers.

`DaemonProofs`, from the assumptions of `Daemon`: `IInv` adds to the type invariant
and the safety properties what a program counter says of its goroutine
(`Local`): who adds or removes itself has given its name, who is past closing the
listener has closed it, and a closed connection has closed itself or is the one a
shutdown waits for; and `Routed`: a connection in the table is there under its own
name, which it keeps.  `OnlyShutdownCrashes`, `EntriesAreAlive`, `NamedAreReachable`,
`ProcessingIsWork`, `AnswersAreRouted` and `ShutdownActsOnce` follow for any
connections, names and prompts.

`WideModelProofs`, from the special values being distinct: `Places` says which goal a
slot can have where, and that an answer the engine has not overtaken says what the
engine has; with it the record and the routing are inductive, for any packages and
any number of goroutines (`RecordIsTruthful`, `PromptsGetTheirModel`,
`NamedModelsHavePrompts`).

`ToolCallParserProofs`, from the brackets, signs and the comma being tokens
(`SignsAssumption`):

- `CallsAreReadInOrder`: the calls made of a response are its lines that are calls,
  each once, in their order.
- `ProperCallIsReadAsMeant`: what is written of a proper call is read as a call, makes
  no slice go out of range, and gives back its tool and its arguments, the last value
  of a key, for calls of any length.

Both go through sequences from their beginning.  Instead of an induction theorem, whose
parameter the provers cannot instantiate, `InductionUpTo` states induction for the set
of numbers that have a property, and is proved from every set of numbers having a least
element.  `LineIsPutTogether` and `LineIsTakenApart` give the slices of a written line,
`EntriesAreLaid` and `PiecesAreEntries` what `strings.Split` makes of its arguments,
`EntryIsRead` and `ArgumentsAreRead` what becomes of the pieces.

`PromptPipelineProofs`, from the responses being sequences of lines of tokens, the
calls of the model proper and `MaxLoops` a number (`ResponsesAssumption`,
`FurtherAssumption`, `CallsAssumption`, `MaxLoopsAssumption`); for any responses and any
number of turns:

- `TypeCorrect`.  `Typed` states the types as sets of sequences, `Parsing` where the
  prompt is with the response: in a turn the calls noted and the calls left are together
  those of the response (`Noted`), and whatever is delivered had its calls dealt with,
  or was the last one (`Final`).
- `ModelIsToldOfEveryCall`, `CallsAreKeptFromTheClient` from `Parsing`;
  `ProperCallsAreRead`, `ParserSurvivesProperCalls` from `ProperCallIsReadAsMeant`.
- `PackageToolsNeedApproval`, from the approval being that of the call under way
  wherever a validated tool is invoked; `PromptHasOneFinalMessage`, from `Sending`,
  which says what has been delivered at each place.
- `StepsRunOut`: every step takes the prompt nearer to its end (`EveryStepIsNearer`).
  What TLC adds with `PromptEnds` is that it goes on at all.
- `PromptKeepsPromise`: every behaviour is one of `PromptPromise`.  The permit of a run
  needs `Permitting`: an approval counts for one call, so that it is spent (`Spent`) by
  the time the next one is looked at.

`ConfigProofs`: `MainResolves`, that `main` computes what the precedence says, follows
each field through `With` and `Derive` (`NamedIsSaid`), for any set in which no source
says two things of one field.

`StartupProofs`, from no PID file being anybody's socket (`PathsAssumption`): a started
process keeps its configuration and whom it has met (`Stays`), a file disappears only
by the hand of a living process that uses its path and does not serve (`Takes`), and
appears only by a write of a PID file or a bind (`Makes`).  Whoever has the same
socket and was alive beside a process is its rival; from this, and no file having the
empty path (`Owned`), `DaemonServesItsSocket` and `RestartGetsItsSocket`.  `Owned` ties each file to a place of its maker, which
gives `OnlyCrashesLeaveFiles`.  `AuditPanicIsAskedFor` follows an interval back through
`With` and `Derive` to the setting it came from, `ConfigurationsAreResolved` is
`MainResolves` of every start.  `StartupTypes` is the type invariant, whose part on the
configuration needs that `With` and `Derive` return one.  For any number of starts.

The proofs have one step per action.  Every invariant, action property and refinement
that a passing run checks is stated by a theorem.  Model-checked only: liveness
(`ShutdownAllReturns`, `DeadServerLeaves`, `InvokeReturns`, `CallsReturn`,
`LoopsComeBack`, `PromptEnds`), since the prover has no rule for fairness and none for
what is enabled; and the violated properties, whose counterexamples TLC gives.

## Not modelled

Message formats and types, logging (that a first start logs to standard output,
because `New` opens the log file before its directory exists, included), cgroup and
seccomp set-up, the figures and the saved reports of the audit, the contents of
manifests and of the download that goes with a package validation, the wiping of
data partitions, the unmount of the run directory.  The arguments a package tool is
validated with are abstracted away: the raw model is shown `name` only, so that a
call with `package_name` is validated with no name.  The tuning monitor only logs.

The modules stand side by side: where `PromptPipeline` calls the raw model, the Wide Model
or the MCP manager, the call is a step with the outcomes that `RawRpc`, `WideModel` and
`MCPManager` have for it, a panic included.  In `Daemon` such a call is a step that ends:
that a tool is silent for ever or takes the daemon down is in `PromptPipeline` and
`MCPManager` only, so that what `Daemon` says of crashes is about channels closed twice.
When a call does not return is said in the module of the callee.  A composition of `Daemon` with them would multiply state spaces of hundreds of
thousands of states that meet in nothing but the return of a call.

Two more places where the documents and the code differ, not stated as properties:
`src/README.md` line 49 gives `/cognitiveos/bin` as the default of
`COGNITIVEOS_MCP_BIN_DIR`, `Default` in `config.go` has
`/usr/local/lib/cognitiveos/bridges`; the comment at `handlers.go` line 81 speaks of a
finalization that succeeded, the code does not look.
