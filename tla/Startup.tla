------------------------------ MODULE Startup ------------------------------
(***************************************************************************)
(* The life of daemon processes on one file system: configuration,         *)
(* directories, PID file, socket, audit loop, shutdown (main.go, Run and   *)
(* shutdown of daemon.go, NewSocketListener and Close of socket.go).  Each *)
(* of the instances of a scenario is started once, at any time, also while *)
(* others run or after they crashed: a restart is another instance.  Any   *)
(* may be killed; a signal before Run has asked for it kills as well.      *)
(***************************************************************************)
EXTENDS Config

CONSTANTS
    Instances, \* starts of the daemon, a bound of the model
    Scenarios  \* who is started and what it is given, a bound of the model

ASSUME ScenariosAssumption ==
    \A s \in Scenarios :
        /\ DOMAIN s \subseteq Instances
        /\ \A i \in DOMAIN s : \A e \in s[i] :
              /\ e.source \in DOMAIN Fields /\ e.field \in Fields[e.source]
              /\ \A d \in s[i] : d.source = e.source /\ d.field = e.field => d = e

\* Nobody names a PID file for a socket.
ASSUME PathsAssumption ==
    \A s \in Scenarios : \A i, j \in DOMAIN s : Main(s[i]).socket # Main(s[j]).pid

VARIABLES
    pc,    \* where the instance is
    given, \* the scenario
    cfg,   \* what it made of that
    file,  \* the PID files and sockets there are, each with the instance that made it
    met    \* history: the instances that were alive together with it

vars == <<pc, given, cfg, file, met>>

Over == {"ended", "noDirs", "inUse", "refused", "lost", "noTicker", "panicked", "killed"}
Alive(i) == pc[i] \notin Over \cup {"off"}
Crashed(i) == pc[i] \in {"noTicker", "panicked", "killed"}

TypeOK ==
    /\ pc \in [Instances -> Over \cup {"off", "dirs", "pid", "clear", "bind", "chmod",
                                       "audit", "setup", "ready", "stopping", "closing",
                                       "halting", "lingering"}]
    /\ DOMAIN given \subseteq Instances
    /\ \A i \in Instances : DOMAIN cfg[i] = DOMAIN Default
    /\ \A path \in DOMAIN file :
          /\ file[path] \in Instances
          /\ path \in {cfg[file[path]].pid, cfg[file[path]].socket}
    /\ met \in [Instances -> SUBSET Instances]

Init ==
    /\ pc = [i \in Instances |-> "off"]
    /\ given \in Scenarios
    /\ cfg = [i \in Instances |-> Default]
    /\ file = <<>>
    /\ met = [i \in Instances |-> {}]

Goes(i, place) == pc' = [pc EXCEPT ![i] = place]

Made(path, i) == [p \in DOMAIN file \cup {path} |-> IF p = path THEN i ELSE file[p]]
Less(paths) == [p \in DOMAIN file \ paths |-> file[p]]
Without(path) == Less({path})

\* main up to daemon.New.
Start(i) ==
    /\ pc[i] = "off" /\ i \in DOMAIN given
    /\ Goes(i, "dirs")
    /\ cfg' = [cfg EXCEPT ![i] = Main(given[i])]
    /\ met' = [j \in Instances |->
                  IF j = i THEN {k \in Instances : Alive(k)}
                  ELSE IF Alive(j) THEN met[j] \cup {i} ELSE met[j]]
    /\ UNCHANGED <<given, file>>

\* Any of the directories may fail.
EnsureDirs(i) ==
    /\ pc[i] = "dirs"
    /\ Goes(i, "pid") \/ Goes(i, "noDirs")
    /\ UNCHANGED <<given, cfg, file, met>>

\* A failure is printed.
WritePid(i) ==
    /\ pc[i] = "pid"
    /\ Goes(i, "clear")
    /\ file' \in {file, Made(cfg[i].pid, i)}
    /\ UNCHANGED <<given, cfg, met>>

\* Mutant of ClearSocket: a socket that is there is left alone.
ClearNothing(i) ==
    /\ pc[i] = "clear"
    /\ Goes(i, "bind")
    /\ UNCHANGED <<given, cfg, file, met>>

\* Whoever made the socket, and whether it is still served or not.
ClearSocket(i) ==
    /\ pc[i] = "clear"
    /\ Goes(i, "bind")
    /\ file' = Without(cfg[i].socket)
    /\ UNCHANGED <<given, cfg, met>>

\* Mutant of ReturnsError: the PID file stays.
ReturnsDirty(i, why) == Goes(i, why) /\ UNCHANGED file

\* Run returns; the deferred Remove takes the PID file, whoever wrote it.
ReturnsError(i, why) == Goes(i, why) /\ file' = Without(cfg[i].pid)

\* Mutants of Bind: it takes the raw model's path; it clears the socket again.
BindRaw(i) ==
    /\ pc[i] = "bind"
    /\ Goes(i, "chmod")
    /\ file' = Made(cfg[i].rawSocket, i)
    /\ UNCHANGED <<given, cfg, met>>
BindAndClear(i) ==
    /\ pc[i] = "bind"
    /\ Goes(i, "chmod")
    /\ file' = Without(cfg[i].socket)
    /\ UNCHANGED <<given, cfg, met>>

\* The path may be there again; other errors have nothing to do with it.  For an
\* empty path the kernel chooses a name outside the file system.
Bind(i) ==
    /\ pc[i] = "bind"
    /\ \/ /\ cfg[i].socket \notin DOMAIN file
          /\ Goes(i, "chmod")
          /\ \/ cfg[i].socket # Empty /\ file' = Made(cfg[i].socket, i)
             \/ cfg[i].socket = Empty /\ UNCHANGED file
       \/ cfg[i].socket \in DOMAIN file /\ ReturnsError(i, "inUse")
       \/ ReturnsError(i, "refused")
    /\ UNCHANGED <<given, cfg, met>>

\* Of whatever is at the path now.  If nothing is, which is so of an empty path, the
\* listener is closed, which would remove it.
Chmod(i) ==
    /\ pc[i] = "chmod"
    /\ \/ cfg[i].socket \in DOMAIN file /\ Goes(i, "audit") /\ UNCHANGED file
       \/ cfg[i].socket \notin DOMAIN file /\ ReturnsError(i, "lost")
    /\ UNCHANGED <<given, cfg, met>>

\* time.NewTicker panics on an interval that is not positive, or is so many seconds
\* that their nanoseconds overflow an int64 to a negative number.
Ticks(interval) == interval \notin {Empty, <<"-5">>, <<"9300000000">>}

AuditorStarts(i) ==
    /\ pc[i] = "audit"
    /\ Goes(i, IF Ticks(cfg[i].audit) THEN "setup" ELSE "noTicker")
    /\ UNCHANGED <<given, cfg, file, met>>

\* The rest of Run up to signal.Notify.
Ready(i) ==
    /\ pc[i] = "setup"
    /\ Goes(i, "ready")
    /\ UNCHANGED <<given, cfg, file, met>>

\* A signal makes Run itself shut down and return.
Signal(i) ==
    /\ pc[i] = "ready"
    /\ Goes(i, "stopping")
    /\ UNCHANGED <<given, cfg, file, met>>

\* The codes security and reset shut down in a client's goroutine, which may be
\* before Run is ready; Run never hears of it.  One that comes before the auditor
\* starts is left out.
Code(i) ==
    /\ pc[i] \in {"setup", "ready"}
    /\ Goes(i, "halting")
    /\ UNCHANGED <<given, cfg, file, met>>

\* After Unload and ShutdownAll; closing the listener removes the socket's path,
\* whoever made what is there.
CloseListener(i) ==
    /\ \/ pc[i] = "stopping" /\ Goes(i, "closing")
       \/ pc[i] = "halting" /\ Goes(i, "lingering")
    /\ file' = Without(cfg[i].socket)
    /\ UNCHANGED <<given, cfg, met>>

\* A second shutdown, of a signal or a code, beside the first or after it, closes a
\* closed channel: a panic, in Run, whose deferred Remove is still done, or in a
\* client's goroutine.
ShutdownAgain(i) ==
    /\ pc[i] \in {"stopping", "halting", "closing", "lingering"}
    /\ Goes(i, "panicked")
    /\ \E f \in {{}, {cfg[i].pid}} :
          \/ file' = Less(f)
          \/ pc[i] \in {"stopping", "halting"} /\ file' = Less(f \cup {cfg[i].socket})
    /\ UNCHANGED <<given, cfg, met>>

Exit(i) ==
    /\ pc[i] = "closing"
    /\ ReturnsError(i, "ended")
    /\ UNCHANGED <<given, cfg, met>>

Killed(i) ==
    /\ Alive(i)
    /\ Goes(i, "killed")
    /\ UNCHANGED <<given, cfg, file, met>>

Next ==
    \E i \in Instances :
        \/ Start(i) \/ EnsureDirs(i) \/ WritePid(i) \/ ClearSocket(i) \/ Bind(i)
        \/ Chmod(i) \/ AuditorStarts(i) \/ Ready(i) \/ Signal(i) \/ Code(i)
        \/ CloseListener(i) \/ ShutdownAgain(i) \/ Exit(i) \/ Killed(i)

Spec == Init /\ [][Next]_vars

-----------------------------------------------------------------------------
(* Properties                                                              *)

\* What main hands to the daemon is what the precedence of flags, environment,
\* TOML and defaults says, with every derived path in the final directories, the
\* socket too unless someone named it.
ConfigIsResolved ==
    \A i \in Instances : pc[i] # "off" => cfg[i] = Resolved(given[i])

\* A daemon that serves is at its socket, whatever earlier ones left behind, unless
\* another with that socket was alive at the same time: that one takes the path
\* away, when it starts and once more when it ends.  With an empty path it gets no
\* further than the chmod.
ServesItsSocket ==
    \A i \in Instances :
        pc[i] \in {"chmod", "audit", "setup", "ready", "stopping", "halting"} =>
            \/ cfg[i].socket \in DOMAIN file /\ file[cfg[i].socket] = i
            \/ cfg[i].socket = Empty /\ pc[i] = "chmod"
            \/ \E j \in met[i] : cfg[j].socket = cfg[i].socket

\* A start does not fail because of a socket that was left behind: only another
\* daemon that is starting or ending at the same time can be in the way, and an
\* empty path.
StaleSocketIsNoObstacle ==
    \A i \in Instances : pc[i] \in {"inUse", "lost"} =>
        \/ \E j \in met[i] : cfg[j].socket = cfg[i].socket
        \/ cfg[i].socket = Empty /\ pc[i] = "lost"

\* PID files and sockets outlive only daemons that crashed, however many of them
\* have used the same paths and in whichever way they ended.
FilesOutliveOnlyCrashes ==
    \A path \in DOMAIN file : Alive(file[path]) \/ Crashed(file[path])

\* The audit loop only panics on an interval somebody asked for: a flag, or a
\* negative or overflowing one in the TOML file; a zero or a missing one there is no
\* interval.
PanicIsAskedFor ==
    \A i \in Instances : pc[i] = "noTicker" =>
        \E e \in given[i] :
            e.field = "audit" /\ ~Ticks(e.value) /\ (e.source = "flag" \/ e.value # Empty)
=============================================================================
