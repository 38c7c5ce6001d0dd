--------------------------- MODULE RawModelClient ---------------------------
(***************************************************************************)
(* The client of the raw model (src/internal/daemon/raw_client.go): one    *)
(* Unix-socket connection, one JSON-RPC exchange at a time under r.mu, a   *)
(* deadline on every exchange.  The answer's id is never compared with the *)
(* request's, so that a caller gets its own answer rests on the connection *)
(* being given up whenever an exchange does not end well.  The raw model   *)
(* itself is external: it answers requests in order, late, or not at all.  *)
(***************************************************************************)
EXTENDS Naturals, Sequences

CONSTANTS
    Callers,   \* goroutines that use the client: handlers, prompts, tools
    MaxRpc     \* request ids are counted modulo MaxRpc, a bound of the model

ASSUME MaxRpcAssumption == MaxRpc \in Nat \ {0}

VARIABLES
    boot,      \* Connect: not begun, waiting for the healthcheck, ended
    linked,    \* r.conn # nil
    ready,     \* r.ready
    pc,        \* where a caller is
    outcome,   \* how its last call ended
    rpcID,     \* the last request id given out
    toServer,  \* requests the raw model has not answered
    toClient,  \* answers not yet read
    serverUp   \* the raw model has its end of the connection open

vars == <<boot, linked, ready, pc, outcome, rpcID, toServer, toClient, serverUp>>

Ids == 0 .. (MaxRpc - 1)

\* A result; an error with a string code; no result at all; something that does
\* not decode as a response, an error with a numeric code among them.
Kinds == {"result", "error", "empty", "garbled"}

Replies == [id : Ids, kind : Kinds]

TypeOK ==
    /\ boot \in {"start", "sent", "done", "failed"}
    /\ linked \in BOOLEAN
    /\ ready \in BOOLEAN
    /\ pc \in [Callers -> {"idle", "check", "want", "sent"}]
    /\ outcome \in [Callers -> {"none", "own", "stale", "error", "skipped"}]
    /\ rpcID \in Ids
    /\ toServer \in Seq(Ids)
    /\ toClient \in Seq(Replies)
    /\ serverUp \in BOOLEAN

Init ==
    /\ boot = "start"
    /\ linked = FALSE
    /\ ready = FALSE
    /\ pc = [c \in Callers |-> "idle"]
    /\ outcome = [c \in Callers |-> "none"]
    /\ rpcID = 0
    /\ toServer = <<>>
    /\ toClient = <<>>
    /\ serverUp = TRUE

\* r.mu is held by whoever waits for an answer.
MutexFree == boot # "sent" /\ \A c \in Callers : pc[c] # "sent"

\* Mutant of NextId: one id too many.
NextIdBeyond == (rpcID + 1) % (MaxRpc + 1)

NextId == (rpcID + 1) % MaxRpc

\* Mutant of LoseLink: the connection is kept for the next call.
LoseOnlyReady == UNCHANGED linked /\ UNCHANGED ready

\* r.conn = nil, r.ready = false.
LoseLink == linked' = FALSE /\ ready' = FALSE

KeepLink == UNCHANGED <<linked, ready>>

Ends(c, how) ==
    /\ pc' = [pc EXCEPT ![c] = "idle"]
    /\ outcome' = [outcome EXCEPT ![c] = how]

-----------------------------------------------------------------------------
(* Connect, called once, by Run, after the daemon's socket is open         *)

\* The socket cannot be dialled: degraded mode.
DialFails ==
    /\ boot = "start"
    /\ MutexFree
    /\ boot' = "failed"
    /\ UNCHANGED <<linked, ready, pc, outcome, rpcID, toServer, toClient, serverUp>>

\* The connection is made and the healthcheck is on its way.
Dial ==
    /\ boot = "start"
    /\ MutexFree
    /\ serverUp
    /\ boot' = "sent"
    /\ linked' = TRUE
    /\ rpcID' = NextId
    /\ toServer' = Append(toServer, NextId)
    /\ UNCHANGED <<ready, pc, outcome, toClient, serverUp>>

\* The healthcheck says "ready".
HealthReady ==
    /\ boot = "sent"
    /\ toClient # <<>>
    /\ Head(toClient).kind = "result"
    /\ boot' = "done"
    /\ ready' = TRUE
    /\ toClient' = Tail(toClient)
    /\ UNCHANGED <<linked, pc, outcome, rpcID, toServer, serverUp>>

\* It says something else, fails, ends the connection or is late.
HealthFails ==
    /\ boot = "sent"
    /\ boot' = "failed"
    /\ LoseLink
    /\ UNCHANGED <<pc, outcome, rpcID, toServer, toClient, serverUp>>

-----------------------------------------------------------------------------
(* Calls                                                                   *)

\* A call: ValidatePrompt and ValidatePackageRequest ask at once; system codes and
\* the audit before a model is loaded test IsReady first.
Ask(c) ==
    /\ pc[c] = "idle"
    /\ \E first \in {"check", "want"} : pc' = [pc EXCEPT ![c] = first]
    /\ outcome' = [outcome EXCEPT ![c] = "none"]
    /\ UNCHANGED <<boot, linked, ready, rpcID, toServer, toClient, serverUp>>

\* IsReady() answers; the link may go away before the call that follows.
IsReady(c) ==
    /\ pc[c] = "check"
    /\ MutexFree
    /\ \/ ready /\ linked /\ pc' = [pc EXCEPT ![c] = "want"] /\ UNCHANGED outcome
       \/ ~(ready /\ linked) /\ Ends(c, "skipped")
    /\ UNCHANGED <<boot, linked, ready, rpcID, toServer, toClient, serverUp>>

\* E_NOT_CONNECTED
NotConnected(c) ==
    /\ pc[c] = "want"
    /\ MutexFree
    /\ ~linked
    /\ Ends(c, "error")
    /\ UNCHANGED <<boot, linked, ready, rpcID, toServer, toClient, serverUp>>

\* r.mu is taken, the request is written.
Send(c) ==
    /\ pc[c] = "want"
    /\ MutexFree
    /\ linked
    /\ pc' = [pc EXCEPT ![c] = "sent"]
    /\ rpcID' = NextId
    /\ toServer' = Append(toServer, NextId)
    /\ UNCHANGED <<boot, linked, ready, outcome, toClient, serverUp>>

\* E_CONNECTION_LOST: the request cannot be written, or not before the deadline.
SendFails(c) ==
    /\ pc[c] = "want"
    /\ MutexFree
    /\ linked
    /\ Ends(c, "error")
    /\ LoseLink
    /\ rpcID' = NextId
    /\ UNCHANGED <<boot, toServer, toClient, serverUp>>

\* A response with a result: its id is not looked at, the payload may not parse.
ReadResult(c) ==
    /\ pc[c] = "sent"
    /\ toClient # <<>>
    /\ Head(toClient).kind = "result"
    /\ \/ Ends(c, IF Head(toClient).id = rpcID THEN "own" ELSE "stale")
       \/ Ends(c, "error")
    /\ toClient' = Tail(toClient)
    /\ UNCHANGED <<boot, linked, ready, rpcID, toServer, serverUp>>

\* An error response, or one without a result: the connection stays.
ReadError(c) ==
    /\ pc[c] = "sent"
    /\ toClient # <<>>
    /\ Head(toClient).kind \in {"error", "empty"}
    /\ Ends(c, "error")
    /\ KeepLink
    /\ toClient' = Tail(toClient)
    /\ UNCHANGED <<boot, rpcID, toServer, serverUp>>

\* E_CONNECTION_LOST: what arrives does not decode.
ReadGarbled(c) ==
    /\ pc[c] = "sent"
    /\ toClient # <<>>
    /\ Head(toClient).kind = "garbled"
    /\ Ends(c, "error")
    /\ LoseLink
    /\ toClient' = Tail(toClient)
    /\ UNCHANGED <<boot, rpcID, toServer, serverUp>>

\* Mutant of ReadTimeout: an exchange without a deadline waits on.
ReadWaitsOn(c) ==
    /\ pc[c] = "sent"
    /\ UNCHANGED vars

\* E_CONNECTION_LOST: the ten seconds are over, or the connection has ended.
ReadTimeout(c) ==
    /\ pc[c] = "sent"
    /\ Ends(c, "error")
    /\ LoseLink
    /\ UNCHANGED <<boot, rpcID, toServer, toClient, serverUp>>

\* Close, called by shutdown.
Close ==
    /\ MutexFree
    /\ linked
    /\ LoseLink
    /\ UNCHANGED <<boot, pc, outcome, rpcID, toServer, toClient, serverUp>>

-----------------------------------------------------------------------------
(* The raw model                                                           *)

\* It answers the oldest request, however late.
Serve ==
    /\ serverUp
    /\ toServer # <<>>
    /\ toServer' = Tail(toServer)
    /\ \E k \in Kinds : toClient' = Append(toClient, [id |-> Head(toServer), kind |-> k])
    /\ UNCHANGED <<boot, linked, ready, pc, outcome, rpcID, serverUp>>

\* It ends, or drops the connection.
ServerEnds ==
    /\ serverUp
    /\ serverUp' = FALSE
    /\ UNCHANGED <<boot, linked, ready, pc, outcome, rpcID, toServer, toClient>>

-----------------------------------------------------------------------------

Connect == DialFails \/ Dial \/ HealthReady \/ HealthFails

CallStep(c) ==
    \/ Ask(c) \/ IsReady(c) \/ NotConnected(c) \/ Send(c) \/ SendFails(c)
    \/ ReadResult(c) \/ ReadError(c) \/ ReadGarbled(c) \/ ReadTimeout(c)

Next == Connect \/ (\E c \in Callers : CallStep(c)) \/ Close \/ Serve \/ ServerEnds

Spec == Init /\ [][Next]_vars

\* The deadline fires, sync.Mutex starves nobody, Connect is under way; nothing
\* is assumed of the raw model.
FairSpec ==
    /\ Spec
    /\ WF_vars(DialFails \/ Dial)
    /\ WF_vars(HealthFails)
    /\ \A c \in Callers :
          /\ SF_vars(IsReady(c))
          /\ SF_vars(NotConnected(c) \/ Send(c) \/ SendFails(c))
          /\ WF_vars(ReadTimeout(c))

-----------------------------------------------------------------------------
(* Properties                                                              *)

\* When no exchange is under way on the connection in use, nothing is under way
\* in it either: the next answer that arrives is the next caller's.
QuietBetweenCalls ==
    linked /\ MutexFree => toServer = <<>> /\ toClient = <<>>

\* Every call returns, whatever the raw model does: the deadline bounds each
\* exchange and the wait for r.mu is a wait for bounded exchanges.
CallsReturn == \A c \in Callers : (pc[c] # "idle") ~> (pc[c] = "idle")

\* The client keeps the promise of RawRpc.
Rpc == INSTANCE RawRpc WITH
    link <- IF ready THEN "up" ELSE IF boot \in {"start", "sent"} THEN "new" ELSE "down",
    asking <- {c \in Callers : pc[c] # "idle"},
    outcome <- outcome

\* Own answers only, skipping only without a link, no second link.
RefinesRawRpc == Rpc!Spec
=============================================================================
