------------------------------- MODULE Config -------------------------------
(***************************************************************************)
(* The configuration of the daemon (src/internal/config/config.go and      *)
(* src/cmd/cognitiveosd/main.go): defaults, the TOML file, the             *)
(* environment, the flags, and the paths derived from them.  A path is the *)
(* sequence of its names, any other value a sequence of one; <<>> is the   *)
(* empty string and the audit interval 0.  What a start is given is a set  *)
(* of entries [source, field, value], one per source and field; a TOML     *)
(* file that does not decode gives none.                                   *)
(***************************************************************************)
EXTENDS SequencesExt

Empty == <<>>

Fields == [
    toml |-> {"socket", "audit", "bridges", "rawModel", "inference", "weights"},
    env  |-> {"socket", "models", "patches", "run", "logs", "inference", "bridges",
              "rawModel", "weights"},
    flag |-> {"socket", "run", "logs", "models", "patches", "bridges", "inference", "audit"}]

\* "weights" stands for the method and the three cloud settings.
Default == [
    socket    |-> <<"cognitiveos", "run", "daemon.sock">>,
    explicit  |-> FALSE,
    rawSocket |-> <<"cognitiveos", "run", "raw.sock">>,
    pid       |-> <<"cognitiveos", "run", "cognitiveosd.pid">>,
    log       |-> <<"cognitiveos", "logs", "cognitiveosd.log">>,
    models    |-> <<"cognitiveos", "models">>,
    patches   |-> <<"cognitiveos", "patches">>,
    run       |-> <<"cognitiveos", "run">>,
    auditDir  |-> <<"cognitiveos", "audit">>,
    logs      |-> <<"cognitiveos", "logs">>,
    inference |-> <<"http://127.0.0.1:11434">>,
    audit     |-> <<"60">>,
    bridges   |-> <<"usr", "local", "lib", "cognitiveos", "bridges">>,
    rawModel  |-> <<"cognitiveos", "models", "raw", "raw-model.gguf">>,
    weights   |-> Empty]

\* filepath.Join(dir, "..", "audit").
Beside(dir, name) == IF dir = Empty THEN <<"..", name>> ELSE Append(Front(dir), name)

Derive(c) ==
    [c EXCEPT !.socket = IF c.explicit THEN @ ELSE Append(c.run, "daemon.sock"),
              !.rawSocket = Append(c.run, "raw.sock"),
              !.pid = Append(c.run, "cognitiveosd.pid"),
              !.log = Append(c.logs, "cognitiveosd.log"),
              !.auditDir = Beside(c.run, "audit")]

\* The entries take the place of what c has; a socket among them is explicit.
With(c, entries) ==
    LET for(f) == {e \in entries : e.field = f}
    IN  [f \in DOMAIN c |->
            IF f = "explicit" THEN c.explicit \/ for("socket") # {}
            ELSE IF for(f) # {} THEN (CHOOSE e \in for(f) : TRUE).value
            ELSE c[f]]

\* Mutant of Heeded: a TOML key or a variable that is empty counts.
HeededEmpty(given, source) == {e \in given : e.source = source}

\* The TOML file and the environment only say what is not empty.
Heeded(given, source) == {e \in given : e.source = source /\ e.value # Empty}

FromTOML(given) == With(Default, Heeded(given, "toml"))

FromEnv(given) == Derive(With(FromTOML(given), Heeded(given, "env")))

\* Mutant of Main: the paths are those of the environment's directories.
MainOnce(given) == With(FromEnv(given), {e \in given : e.source = "flag"})

\* A flag that is set counts, empty or not.
Main(given) == Derive(With(FromEnv(given), {e \in given : e.source = "flag"}))

-----------------------------------------------------------------------------
(* The reference: for each setting the last of defaults, TOML, environment *)
(* and flags that has it, paths in the directories that come out           *)

Counting(given, f) == {e \in given : e.field = f /\ (e.source = "flag" \/ e.value # Empty)}

Said(given, f) ==
    LET by(s) == {e \in Counting(given, f) : e.source = s}
        last == IF by("flag") # {} THEN by("flag")
                ELSE IF by("env") # {} THEN by("env") ELSE by("toml")
    IN  IF last = {} THEN Default[f] ELSE (CHOOSE e \in last : TRUE).value

Resolved(given) ==
    [f \in DOMAIN Default |->
        CASE f = "explicit"  -> Counting(given, "socket") # {}
          [] f = "socket" /\ Counting(given, "socket") = {} ->
                Append(Said(given, "run"), "daemon.sock")
          [] f = "rawSocket" -> Append(Said(given, "run"), "raw.sock")
          [] f = "pid"       -> Append(Said(given, "run"), "cognitiveosd.pid")
          [] f = "log"       -> Append(Said(given, "logs"), "cognitiveosd.log")
          [] f = "auditDir"  -> Beside(Said(given, "run"), "audit")
          [] OTHER           -> Said(given, f)]
=============================================================================
