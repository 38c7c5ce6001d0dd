---------------------------- MODULE StartupProofs ----------------------------
(***************************************************************************)
(* Proofs about Startup, for every set of instances and of scenarios.      *)
(***************************************************************************)
EXTENDS Startup, ConfigProofs, TLAPS

-----------------------------------------------------------------------------
(* The inductive invariant                                                 *)

Placed ==
    pc \in [Instances -> Over \cup {"off", "dirs", "pid", "clear", "bind", "chmod", "audit",
                                    "setup", "ready", "stopping", "closing", "halting",
                                    "lingering"}]

\* Configurations are made at the start, of what the scenario says, and stay.
Configured ==
    /\ given \in Scenarios
    /\ cfg = [i \in Instances |-> IF pc[i] = "off" THEN Default ELSE Main(given[i])]
    /\ \A i \in Instances : pc[i] # "off" => i \in DOMAIN given

\* Who is alive together has met, and only who was started is met.
Met ==
    /\ met \in [Instances -> SUBSET Instances]
    /\ \A i, j \in Instances : i # j /\ Alive(i) /\ Alive(j) => j \in met[i]
    /\ \A i, j \in Instances : j \in met[i] => pc[j] # "off"

Serving == {"chmod", "audit", "setup", "ready", "stopping", "halting"}

\* A file is the PID file or, while it serves and after a crash, the socket of its
\* owner, which has a path.
Owned ==
    \A path \in DOMAIN file :
        /\ file[path] \in Instances
        /\ pc[file[path]] \in Serving \cup {"clear", "bind", "closing", "lingering",
                                           "noTicker", "panicked", "killed"}
        /\ \/ path = cfg[file[path]].pid
           \/ /\ path = cfg[file[path]].socket
              /\ path # Empty
              /\ pc[file[path]] \in Serving \cup {"noTicker", "panicked", "killed"}

\* One with the same socket was alive beside it.
Rival(i) == \E j \in met[i] : cfg[j].socket = cfg[i].socket

\* Between the removal and the bind only another instance makes the socket.
Cleared ==
    \A i \in Instances : pc[i] = "bind" /\ cfg[i].socket \in DOMAIN file =>
        Rival(i)

\* What is so of any step: a started instance keeps its configuration and whom it
\* met, a file is only taken away or made by an instance that uses the path.
Stays ==
    \A j \in Instances : pc[j] # "off" =>
        pc'[j] # "off" /\ cfg'[j] = cfg[j] /\ met[j] \subseteq met'[j]
Takes ==
    \A path \in DOMAIN file :
        \/ path \in DOMAIN file' /\ file'[path] = file[path]
        \/ \E i \in Instances :
              Alive(i) /\ path \in {cfg[i].pid, cfg[i].socket} /\ pc'[i] \notin Serving
Makes ==
    \A path \in DOMAIN file' :
        \/ path \in DOMAIN file /\ file'[path] = file[path]
        \/ \E i \in Instances :
              \/ path = cfg[i].pid /\ pc[i] = "pid"
              \/ path = cfg[i].socket /\ pc[i] = "bind" /\ pc'[i] = "chmod"

IInv ==
    Placed /\ Configured /\ Met /\ Owned /\ Cleared /\ ServesItsSocket
        /\ StaleSocketIsNoObstacle

\* Between any two instances, no PID file is a socket.
LEMMA SocketNotPid ==
    Configured => \A i, j \in Instances : pc[i] # "off" /\ pc[j] # "off" =>
                      cfg[i].socket # cfg[j].pid
  BY PathsAssumption DEF Configured

\* The initial states satisfy the invariant.
LEMMA InvInit == Init => IInv
  BY DEF Init, IInv, Placed, Configured, Met, Owned, Cleared, ServesItsSocket,
     StaleSocketIsNoObstacle, Alive, Over, Serving

\* Every step leaves each instance at one of its places.
LEMMA PlacedStep == Placed /\ [Next]_vars => Placed'
<1> SUFFICES ASSUME Placed, [Next]_vars PROVE Placed'
    OBVIOUS
<1> USE DEF Placed, Over, Goes, ReturnsError
<1>1. ASSUME NEW i \in Instances, Start(i) PROVE Placed'
    BY <1>1 DEF Start
<1>2. ASSUME NEW i \in Instances, EnsureDirs(i) PROVE Placed'
    BY <1>2 DEF EnsureDirs
<1>3. ASSUME NEW i \in Instances, WritePid(i) PROVE Placed'
    BY <1>3 DEF WritePid, Made
<1>4. ASSUME NEW i \in Instances, ClearSocket(i) PROVE Placed'
    BY <1>4 DEF ClearSocket, Without, Less
<1>5. ASSUME NEW i \in Instances, Bind(i) PROVE Placed'
    BY <1>5 DEF Bind, Made, ReturnsError, Without, Less
<1>6. ASSUME NEW i \in Instances, Chmod(i) PROVE Placed'
    BY <1>6 DEF Chmod, ReturnsError, Without, Less
<1>7. ASSUME NEW i \in Instances, AuditorStarts(i) PROVE Placed'
    BY <1>7 DEF AuditorStarts
<1>8. ASSUME NEW i \in Instances, Ready(i) PROVE Placed'
    BY <1>8 DEF Ready
<1>9. ASSUME NEW i \in Instances, Signal(i) PROVE Placed'
    BY <1>9 DEF Signal
<1>10. ASSUME NEW i \in Instances, Code(i) PROVE Placed'
    BY <1>10 DEF Code
<1>11. ASSUME NEW i \in Instances, CloseListener(i) PROVE Placed'
    BY <1>11 DEF CloseListener, Without, Less
<1>12. ASSUME NEW i \in Instances, ShutdownAgain(i) PROVE Placed'
    BY <1>12 DEF ShutdownAgain, ReturnsError, Without, Less
<1>13. ASSUME NEW i \in Instances, Exit(i) PROVE Placed'
    BY <1>13 DEF Exit, ReturnsError, Without, Less
<1>14. ASSUME NEW i \in Instances, Killed(i) PROVE Placed'
    BY <1>14 DEF Killed
<1>15. CASE UNCHANGED vars
    BY <1>15 DEF vars
<1> QED
    BY <1>1, <1>2, <1>3, <1>4, <1>5, <1>6, <1>7, <1>8, <1>9, <1>10, <1>11, <1>12, <1>13,
       <1>14, <1>15
    DEF Next

\* Every step leaves the configurations as they are.
LEMMA ConfiguredStep == Placed /\ Configured /\ [Next]_vars => Configured'
<1> SUFFICES ASSUME Placed, Configured, [Next]_vars PROVE Configured'
    OBVIOUS
<1> USE DEF Placed, Configured, Alive, Over, Goes, ReturnsError
<1>1. ASSUME NEW i \in Instances, Start(i) PROVE Configured'
    BY <1>1 DEF Start
<1>2. ASSUME NEW i \in Instances, EnsureDirs(i) PROVE Configured'
    BY <1>2 DEF EnsureDirs
<1>3. ASSUME NEW i \in Instances, WritePid(i) PROVE Configured'
    BY <1>3 DEF WritePid, Made
<1>4. ASSUME NEW i \in Instances, ClearSocket(i) PROVE Configured'
    BY <1>4 DEF ClearSocket, Without, Less
<1>5. ASSUME NEW i \in Instances, Bind(i) PROVE Configured'
    BY <1>5 DEF Bind, Made, ReturnsError, Without, Less
<1>6. ASSUME NEW i \in Instances, Chmod(i) PROVE Configured'
    BY <1>6 DEF Chmod, ReturnsError, Without, Less
<1>7. ASSUME NEW i \in Instances, AuditorStarts(i) PROVE Configured'
    BY <1>7 DEF AuditorStarts
<1>8. ASSUME NEW i \in Instances, Ready(i) PROVE Configured'
    BY <1>8 DEF Ready
<1>9. ASSUME NEW i \in Instances, Signal(i) PROVE Configured'
    BY <1>9 DEF Signal
<1>10. ASSUME NEW i \in Instances, Code(i) PROVE Configured'
    BY <1>10 DEF Code
<1>11. ASSUME NEW i \in Instances, CloseListener(i) PROVE Configured'
    BY <1>11 DEF CloseListener, Without, Less
<1>12. ASSUME NEW i \in Instances, ShutdownAgain(i) PROVE Configured'
    BY <1>12 DEF ShutdownAgain, ReturnsError, Without, Less
<1>13. ASSUME NEW i \in Instances, Exit(i) PROVE Configured'
    BY <1>13 DEF Exit, ReturnsError, Without, Less
<1>14. ASSUME NEW i \in Instances, Killed(i) PROVE Configured'
    BY <1>14 DEF Killed
<1>15. CASE UNCHANGED vars
    BY <1>15 DEF vars
<1> QED
    BY <1>1, <1>2, <1>3, <1>4, <1>5, <1>6, <1>7, <1>8, <1>9, <1>10, <1>11, <1>12, <1>13,
       <1>14, <1>15
    DEF Next

\* Every step keeps account of who meets whom.
LEMMA MetStep == Placed /\ Met /\ [Next]_vars => Met'
<1> SUFFICES ASSUME Placed, Met, [Next]_vars PROVE Met'
    OBVIOUS
<1> USE DEF Placed, Met, Alive, Over, Goes, ReturnsError
<1>1. ASSUME NEW i \in Instances, Start(i) PROVE Met'
    BY <1>1 DEF Start
<1>2. ASSUME NEW i \in Instances, EnsureDirs(i) PROVE Met'
    BY <1>2 DEF EnsureDirs
<1>3. ASSUME NEW i \in Instances, WritePid(i) PROVE Met'
    BY <1>3 DEF WritePid, Made
<1>4. ASSUME NEW i \in Instances, ClearSocket(i) PROVE Met'
    BY <1>4 DEF ClearSocket, Without, Less
<1>5. ASSUME NEW i \in Instances, Bind(i) PROVE Met'
    BY <1>5 DEF Bind, Made, ReturnsError, Without, Less
<1>6. ASSUME NEW i \in Instances, Chmod(i) PROVE Met'
    BY <1>6 DEF Chmod, ReturnsError, Without, Less
<1>7. ASSUME NEW i \in Instances, AuditorStarts(i) PROVE Met'
    BY <1>7 DEF AuditorStarts
<1>8. ASSUME NEW i \in Instances, Ready(i) PROVE Met'
    BY <1>8 DEF Ready
<1>9. ASSUME NEW i \in Instances, Signal(i) PROVE Met'
    BY <1>9 DEF Signal
<1>10. ASSUME NEW i \in Instances, Code(i) PROVE Met'
    BY <1>10 DEF Code
<1>11. ASSUME NEW i \in Instances, CloseListener(i) PROVE Met'
    BY <1>11 DEF CloseListener, Without, Less
<1>12. ASSUME NEW i \in Instances, ShutdownAgain(i) PROVE Met'
    BY <1>12 DEF ShutdownAgain, ReturnsError, Without, Less
<1>13. ASSUME NEW i \in Instances, Exit(i) PROVE Met'
    BY <1>13 DEF Exit, ReturnsError, Without, Less
<1>14. ASSUME NEW i \in Instances, Killed(i) PROVE Met'
    BY <1>14 DEF Killed
<1>15. CASE UNCHANGED vars
    BY <1>15 DEF vars
<1> QED
    BY <1>1, <1>2, <1>3, <1>4, <1>5, <1>6, <1>7, <1>8, <1>9, <1>10, <1>11, <1>12, <1>13,
       <1>14, <1>15
    DEF Next

\* Every started instance keeps its configuration and whom it met.
LEMMA StepStays == Placed /\ Configured /\ Met /\ [Next]_vars => Stays
<1> SUFFICES ASSUME Placed, Configured, Met, [Next]_vars PROVE Stays
    OBVIOUS
<1> USE DEF Placed, Configured, Met, Stays, Over, Alive, Goes, ReturnsError
<1>1. ASSUME NEW i \in Instances, Start(i) PROVE Stays
    BY <1>1 DEF Start
<1>2. ASSUME NEW i \in Instances, EnsureDirs(i) PROVE Stays
    BY <1>2 DEF EnsureDirs
<1>3. ASSUME NEW i \in Instances, WritePid(i) PROVE Stays
    BY <1>3 DEF WritePid, Made
<1>4. ASSUME NEW i \in Instances, ClearSocket(i) PROVE Stays
    BY <1>4 DEF ClearSocket, Without, Less
<1>5. ASSUME NEW i \in Instances, Bind(i) PROVE Stays
    BY <1>5 DEF Bind, Made, ReturnsError, Without, Less
<1>6. ASSUME NEW i \in Instances, Chmod(i) PROVE Stays
    BY <1>6 DEF Chmod, ReturnsError, Without, Less
<1>7. ASSUME NEW i \in Instances, AuditorStarts(i) PROVE Stays
    BY <1>7 DEF AuditorStarts
<1>8. ASSUME NEW i \in Instances, Ready(i) PROVE Stays
    BY <1>8 DEF Ready
<1>9. ASSUME NEW i \in Instances, Signal(i) PROVE Stays
    BY <1>9 DEF Signal
<1>10. ASSUME NEW i \in Instances, Code(i) PROVE Stays
    BY <1>10 DEF Code
<1>11. ASSUME NEW i \in Instances, CloseListener(i) PROVE Stays
    BY <1>11 DEF CloseListener, Without, Less
<1>12. ASSUME NEW i \in Instances, ShutdownAgain(i) PROVE Stays
    BY <1>12 DEF ShutdownAgain, ReturnsError, Without, Less
<1>13. ASSUME NEW i \in Instances, Exit(i) PROVE Stays
    BY <1>13 DEF Exit, ReturnsError, Without, Less
<1>14. ASSUME NEW i \in Instances, Killed(i) PROVE Stays
    BY <1>14 DEF Killed
<1>15. CASE UNCHANGED vars
    BY <1>15 DEF vars
<1> QED
    BY <1>1, <1>2, <1>3, <1>4, <1>5, <1>6, <1>7, <1>8, <1>9, <1>10, <1>11, <1>12, <1>13,
       <1>14, <1>15
    DEF Next

\* Only an instance that is alive and uses a path takes what is there away, and none
\* that serves does.
LEMMA StepTakes == Placed /\ [Next]_vars => Takes
<1> SUFFICES ASSUME Placed, [Next]_vars PROVE Takes
    OBVIOUS
<1> USE DEF Placed, Takes, Over, Serving, Alive, Goes
<1>1. ASSUME NEW i \in Instances, Start(i) PROVE Takes
    BY <1>1 DEF Start
<1>2. ASSUME NEW i \in Instances, EnsureDirs(i) PROVE Takes
    BY <1>2 DEF EnsureDirs
<1>3. ASSUME NEW i \in Instances, WritePid(i) PROVE Takes
    BY <1>3 DEF WritePid, Made
<1>4. ASSUME NEW i \in Instances, ClearSocket(i) PROVE Takes
    BY <1>4 DEF ClearSocket, Without, Less
<1>5. ASSUME NEW i \in Instances, Bind(i) PROVE Takes
    BY <1>5 DEF Bind, Made, ReturnsError, Without, Less
<1>6. ASSUME NEW i \in Instances, Chmod(i) PROVE Takes
    BY <1>6 DEF Chmod, ReturnsError, Without, Less
<1>7. ASSUME NEW i \in Instances, AuditorStarts(i) PROVE Takes
    BY <1>7 DEF AuditorStarts
<1>8. ASSUME NEW i \in Instances, Ready(i) PROVE Takes
    BY <1>8 DEF Ready
<1>9. ASSUME NEW i \in Instances, Signal(i) PROVE Takes
    BY <1>9 DEF Signal
<1>10. ASSUME NEW i \in Instances, Code(i) PROVE Takes
    BY <1>10 DEF Code
<1>11. ASSUME NEW i \in Instances, CloseListener(i) PROVE Takes
    BY <1>11 DEF CloseListener, Without, Less
<1>12. ASSUME NEW i \in Instances, ShutdownAgain(i) PROVE Takes
    BY <1>12 DEF ShutdownAgain, ReturnsError, Without, Less
<1>13. ASSUME NEW i \in Instances, Exit(i) PROVE Takes
    BY <1>13 DEF Exit, ReturnsError, Without, Less
<1>14. ASSUME NEW i \in Instances, Killed(i) PROVE Takes
    BY <1>14 DEF Killed
<1>15. CASE UNCHANGED vars
    BY <1>15 DEF vars
<1> QED
    BY <1>1, <1>2, <1>3, <1>4, <1>5, <1>6, <1>7, <1>8, <1>9, <1>10, <1>11, <1>12, <1>13,
       <1>14, <1>15
    DEF Next

\* Only the writer of a PID file and the binder of a socket make a file.
LEMMA StepMakes == Placed /\ [Next]_vars => Makes
<1> SUFFICES ASSUME Placed, [Next]_vars PROVE Makes
    OBVIOUS
<1> USE DEF Placed, Makes, Goes
<1>1. ASSUME NEW i \in Instances, Start(i) PROVE Makes
    BY <1>1 DEF Start
<1>2. ASSUME NEW i \in Instances, EnsureDirs(i) PROVE Makes
    BY <1>2 DEF EnsureDirs
<1>3. ASSUME NEW i \in Instances, WritePid(i) PROVE Makes
    BY <1>3 DEF WritePid, Made
<1>4. ASSUME NEW i \in Instances, ClearSocket(i) PROVE Makes
    BY <1>4 DEF ClearSocket, Without, Less
<1>5. ASSUME NEW i \in Instances, Bind(i) PROVE Makes
    BY <1>5 DEF Bind, Made, ReturnsError, Without, Less
<1>6. ASSUME NEW i \in Instances, Chmod(i) PROVE Makes
    BY <1>6 DEF Chmod, ReturnsError, Without, Less
<1>7. ASSUME NEW i \in Instances, AuditorStarts(i) PROVE Makes
    BY <1>7 DEF AuditorStarts
<1>8. ASSUME NEW i \in Instances, Ready(i) PROVE Makes
    BY <1>8 DEF Ready
<1>9. ASSUME NEW i \in Instances, Signal(i) PROVE Makes
    BY <1>9 DEF Signal
<1>10. ASSUME NEW i \in Instances, Code(i) PROVE Makes
    BY <1>10 DEF Code
<1>11. ASSUME NEW i \in Instances, CloseListener(i) PROVE Makes
    BY <1>11 DEF CloseListener, Without, Less
<1>12. ASSUME NEW i \in Instances, ShutdownAgain(i) PROVE Makes
    BY <1>12 DEF ShutdownAgain, ReturnsError, Without, Less
<1>13. ASSUME NEW i \in Instances, Exit(i) PROVE Makes
    BY <1>13 DEF Exit, ReturnsError, Without, Less
<1>14. ASSUME NEW i \in Instances, Killed(i) PROVE Makes
    BY <1>14 DEF Killed
<1>15. CASE UNCHANGED vars
    BY <1>15 DEF vars
<1> QED
    BY <1>1, <1>2, <1>3, <1>4, <1>5, <1>6, <1>7, <1>8, <1>9, <1>10, <1>11, <1>12, <1>13,
       <1>14, <1>15
    DEF Next

\* A rival remains one.
LEMMA RivalStays ==
    ASSUME Configured, Met, Stays, NEW i \in Instances, pc[i] # "off", Rival(i)
    PROVE  Rival(i)'
<1>1. PICK j \in met[i] : cfg[j].socket = cfg[i].socket
    BY DEF Rival
<1>2. j \in Instances /\ pc[j] # "off"
    BY <1>1 DEF Met
<1> QED
    BY <1>1, <1>2 DEF Rival, Stays

\* Of two that are alive and have the same socket each is the other's rival.
LEMMA RivalMet ==
    ASSUME Met, NEW i \in Instances, NEW j \in Instances, i # j, Alive(i), Alive(j),
           cfg[i].socket = cfg[j].socket
    PROVE  Rival(i)
  BY DEF Met, Rival

\* Every step leaves each file with the instance that made it and is not done.
LEMMA OwnedStep == Placed /\ Owned /\ Stays /\ [Next]_vars => Owned'
<1> SUFFICES ASSUME Placed, Owned, Stays, [Next]_vars PROVE Owned'
    OBVIOUS
<1> USE DEF Placed, Owned, Stays, Over, Serving, Goes, Alive
<1>1. ASSUME NEW i \in Instances, Start(i) PROVE Owned'
    BY <1>1 DEF Start
<1>2. ASSUME NEW i \in Instances, EnsureDirs(i) PROVE Owned'
    BY <1>2 DEF EnsureDirs
<1>3. ASSUME NEW i \in Instances, WritePid(i) PROVE Owned'
    BY <1>3 DEF WritePid, Made
<1>4. ASSUME NEW i \in Instances, ClearSocket(i) PROVE Owned'
    BY <1>4 DEF ClearSocket, Without, Less
<1>5. ASSUME NEW i \in Instances, Bind(i) PROVE Owned'
    BY <1>5 DEF Bind, Made, ReturnsError, Without, Less
<1>6. ASSUME NEW i \in Instances, Chmod(i) PROVE Owned'
    BY <1>6 DEF Chmod, ReturnsError, Without, Less
<1>7. ASSUME NEW i \in Instances, AuditorStarts(i) PROVE Owned'
    BY <1>7 DEF AuditorStarts
<1>8. ASSUME NEW i \in Instances, Ready(i) PROVE Owned'
    BY <1>8 DEF Ready
<1>9. ASSUME NEW i \in Instances, Signal(i) PROVE Owned'
    BY <1>9 DEF Signal
<1>10. ASSUME NEW i \in Instances, Code(i) PROVE Owned'
    BY <1>10 DEF Code
<1>11. ASSUME NEW i \in Instances, CloseListener(i) PROVE Owned'
    BY <1>11 DEF CloseListener, Without, Less
<1>12. ASSUME NEW i \in Instances, ShutdownAgain(i) PROVE Owned'
    BY <1>12 DEF ShutdownAgain, ReturnsError, Without, Less
<1>13. ASSUME NEW i \in Instances, Exit(i) PROVE Owned'
    BY <1>13 DEF Exit, ReturnsError, Without, Less
<1>14. ASSUME NEW i \in Instances, Killed(i) PROVE Owned'
    BY <1>14 DEF Killed
<1>15. CASE UNCHANGED vars
    BY <1>15 DEF vars
<1> QED
    BY <1>1, <1>2, <1>3, <1>4, <1>5, <1>6, <1>7, <1>8, <1>9, <1>10, <1>11, <1>12, <1>13,
       <1>14, <1>15
    DEF Next

\* Only a rival makes the socket again.
LEMMA ClearedStep ==
    Placed /\ Configured /\ Met /\ Stays /\ Makes /\ Cleared /\ [Next]_vars => Cleared'
<1> SUFFICES ASSUME Placed, Configured, Met, Stays, Makes, Cleared, [Next]_vars,
                    NEW j \in Instances, pc'[j] = "bind", cfg'[j].socket \in DOMAIN file'
             PROVE  Rival(j)'
    BY DEF Cleared
<1>1. pc[j] = "bind" \/ ClearSocket(j)
    BY ZenonT(40) DEF Next, vars, Placed, Goes, ReturnsError, Start, EnsureDirs, WritePid, ClearSocket,
       Bind, Chmod, AuditorStarts, Ready, Signal, Code, CloseListener, ShutdownAgain, Exit,
       Killed
<1>2. pc[j] = "bind"
    BY <1>1 DEF ClearSocket, Without, Less
<1>3. cfg'[j] = cfg[j]
    BY <1>2 DEF Stays
<1>4. CASE cfg[j].socket \in DOMAIN file
    BY <1>2, <1>4, RivalStays DEF Cleared
<1>5. CASE cfg[j].socket \notin DOMAIN file
  <2>1. PICK i \in Instances : \/ cfg[j].socket = cfg[i].pid /\ pc[i] = "pid"
                               \/ cfg[j].socket = cfg[i].socket /\ pc[i] = "bind" /\ pc'[i] = "chmod"
      BY <1>3, <1>5 DEF Makes
  <2>2. cfg[j].socket = cfg[i].socket /\ pc[i] = "bind" /\ i # j
      BY <1>2, <2>1, SocketNotPid
  <2>3. Rival(j)
      BY <1>2, <2>2, RivalMet DEF Alive, Over
  <2> QED
      BY <1>2, <2>3, RivalStays
<1> QED
    BY <1>4, <1>5

\* Only a rival takes the socket.
LEMMA ServesStep ==
    Placed /\ Configured /\ Met /\ Owned /\ Stays /\ Takes /\ ServesItsSocket
        /\ [Next]_vars => ServesItsSocket'
<1> SUFFICES ASSUME Placed, Configured, Met, Owned, Stays, Takes, ServesItsSocket,
                    [Next]_vars,
                    NEW j \in Instances, pc'[j] \in Serving
             PROVE  \/ /\ cfg'[j].socket \in DOMAIN file'
                       /\ file'[cfg'[j].socket] = j
                    \/ cfg'[j].socket = Empty /\ pc'[j] = "chmod"
                    \/ Rival(j)'
    BY DEF ServesItsSocket, Serving, Rival
<1>1. pc[j] \in Serving \/ (Bind(j) /\ pc'[j] = "chmod")
    BY ZenonT(40) DEF Next, vars, Placed, Serving, Over, Goes, ReturnsError, Start, EnsureDirs, WritePid,
       ClearSocket, Bind, Chmod, AuditorStarts, Ready, Signal, Code, CloseListener,
       ShutdownAgain, Exit, Killed
<1>2. CASE Bind(j) /\ pc'[j] = "chmod"
    BY <1>2 DEF Bind, Made, Goes, ReturnsError, Placed
<1>3. CASE pc[j] \in Serving
  <2>1. cfg'[j] = cfg[j] /\ pc[j] # "off" /\ Alive(j)
      BY <1>3 DEF Stays, Serving, Alive, Over
  <2>2. CASE Rival(j)
      BY <2>1, <2>2, RivalStays
  <2>3. CASE cfg[j].socket \in DOMAIN file /\ file[cfg[j].socket] = j
    <3>1. CASE cfg[j].socket \in DOMAIN file' /\ file'[cfg[j].socket] = j
        BY <2>1, <3>1
    <3>2. CASE ~(cfg[j].socket \in DOMAIN file' /\ file'[cfg[j].socket] = j)
      <4>1. PICK i \in Instances : /\ Alive(i)
                                   /\ cfg[j].socket \in {cfg[i].pid, cfg[i].socket}
                                   /\ pc'[i] \notin Serving
          BY <2>3, <3>2 DEF Takes
      <4>2. i # j /\ cfg[j].socket = cfg[i].socket
          BY <2>1, <4>1, SocketNotPid DEF Alive
      <4>3. Rival(j)
          BY <2>1, <4>1, <4>2, RivalMet
      <4> QED
          BY <2>1, <4>3, RivalStays
    <3> QED
        BY <3>1, <3>2
  <2>4. CASE cfg[j].socket = Empty /\ pc[j] = "chmod"
    <3>1. pc'[j] = "chmod" \/ cfg[j].socket \in DOMAIN file
        BY ZenonT(40), <2>4 DEF Next, vars, Placed, Serving, Over, Goes, ReturnsError, Start,
           EnsureDirs, WritePid, ClearSocket, Bind, Chmod, AuditorStarts, Ready, Signal, Code,
           CloseListener, ShutdownAgain, Exit, Killed
    <3>2. cfg[j].socket \notin DOMAIN file
      <4>1. SUFFICES ASSUME Empty \in DOMAIN file PROVE FALSE
          BY <2>4
      <4>2. file[Empty] \in Instances /\ pc[file[Empty]] # "off" /\ Empty = cfg[file[Empty]].pid
          BY <4>1 DEF Owned, Serving
      <4> QED
          BY <2>1, <2>4, <4>2, SocketNotPid
    <3> QED
        BY <2>1, <2>4, <3>1, <3>2
  <2> QED
      BY <1>3, <2>2, <2>3, <2>4 DEF ServesItsSocket, Serving, Rival
<1> QED
    BY <1>1, <1>2, <1>3

\* A start that fails at its socket has a rival, or an empty path.
LEMMA ObstacleStep ==
    Placed /\ Configured /\ Met /\ Stays /\ Cleared /\ ServesItsSocket
        /\ StaleSocketIsNoObstacle /\ [Next]_vars => StaleSocketIsNoObstacle'
<1> SUFFICES ASSUME Placed, Configured, Met, Stays, Cleared, ServesItsSocket,
                    StaleSocketIsNoObstacle, [Next]_vars,
                    NEW j \in Instances, pc'[j] \in {"inUse", "lost"}
             PROVE  Rival(j)' \/ (cfg'[j].socket = Empty /\ pc'[j] = "lost")
    BY DEF StaleSocketIsNoObstacle, Rival
<1>1. \/ pc[j] \in {"inUse", "lost"} /\ pc'[j] = pc[j]
      \/ pc[j] = "bind" /\ cfg[j].socket \in DOMAIN file
      \/ pc[j] = "chmod" /\ cfg[j].socket \notin DOMAIN file /\ pc'[j] = "lost"
    BY ZenonT(40) DEF Next, vars, Placed, Over, Goes, ReturnsError, Start, EnsureDirs, WritePid,
       ClearSocket, Bind, Chmod, AuditorStarts, Ready, Signal, Code, CloseListener,
       ShutdownAgain, Exit, Killed
<1>2. pc[j] # "off" /\ (Rival(j) \/ (cfg[j].socket = Empty /\ pc'[j] = "lost"))
    BY <1>1 DEF StaleSocketIsNoObstacle, Cleared, ServesItsSocket, Rival
<1>3. cfg'[j] = cfg[j]
    BY <1>2 DEF Stays
<1> QED
    BY <1>2, <1>3, RivalStays

\* IInv is an invariant.
THEOREM Invariance == Spec => []IInv
<1>1. Init => IInv
    BY InvInit
<1>2. IInv /\ [Next]_vars => IInv'
    BY PlacedStep, ConfiguredStep, MetStep, StepStays, StepTakes, StepMakes, OwnedStep,
       ClearedStep, ServesStep, ObstacleStep
    DEF IInv
<1> QED
    BY <1>1, <1>2, PTL DEF Spec

\* A daemon is at its socket unless another with that socket was alive beside it.
THEOREM DaemonServesItsSocket == Spec => []ServesItsSocket
<1>1. IInv => ServesItsSocket
    BY DEF IInv
<1> QED
    BY <1>1, Invariance, PTL

\* A restart is not kept from its socket by what a crash left behind.
THEOREM RestartGetsItsSocket == Spec => []StaleSocketIsNoObstacle
<1>1. IInv => StaleSocketIsNoObstacle
    BY DEF IInv
<1> QED
    BY <1>1, Invariance, PTL

\* Only crashed daemons leave PID files and sockets behind.
THEOREM OnlyCrashesLeaveFiles == Spec => []FilesOutliveOnlyCrashes
<1>1. IInv => FilesOutliveOnlyCrashes
    BY DEF IInv, Placed, Owned, FilesOutliveOnlyCrashes, Alive, Crashed, Over, Serving
<1> QED
    BY <1>1, Invariance, PTL
-----------------------------------------------------------------------------
(* The configuration                                                       *)

\* Every daemon has the configuration that the precedence of its settings says.
THEOREM ConfigurationsAreResolved == Spec => []ConfigIsResolved
<1>1. Configured => ConfigIsResolved
  <2> SUFFICES ASSUME Configured, NEW i \in Instances, pc[i] # "off"
               PROVE  cfg[i] = Resolved(given[i])
      BY DEF ConfigIsResolved
  <2>1. cfg[i] = Main(given[i])
      BY DEF Configured
  <2>2. Proper(given[i])
      BY ScenariosAssumption DEF Configured, Proper
  <2> QED
      BY <2>1, <2>2, MainResolves
<1> QED
    BY <1>1, Invariance, PTL DEF IInv

-----------------------------------------------------------------------------
(* The audit interval                                                      *)

\* Entries replace a setting by the value of one of them, or leave it.
LEMMA WithSetting ==
    ASSUME NEW c, NEW entries, "audit" \in DOMAIN c
    PROVE  /\ "audit" \in DOMAIN With(c, entries)
           /\ \/ With(c, entries)["audit"] = c["audit"]
              \/ \E e \in entries : e.field = "audit" /\ With(c, entries)["audit"] = e.value
<1> DEFINE for == {e \in entries : e.field = "audit"}
<1>1. With(c, entries)["audit"] = IF for # {} THEN (CHOOSE e \in for : TRUE).value
                                  ELSE c["audit"]
    BY DEF With
<1>2. for # {} => (CHOOSE e \in for : TRUE) \in for
    OBVIOUS
<1>3. "audit" \in DOMAIN With(c, entries)
    BY DEF With
<1> QED
    BY <1>1, <1>2, <1>3

\* The derived paths have nothing to do with the interval.
LEMMA DeriveSetting ==
    ASSUME NEW c, "audit" \in DOMAIN c
    PROVE  "audit" \in DOMAIN Derive(c) /\ Derive(c)["audit"] = c["audit"]
  BY DEF Derive

\* An interval that does not tick was given, by a flag or not empty.
LEMMA IntervalIsAskedFor ==
    ASSUME NEW entries, ~Ticks(Main(entries)["audit"])
    PROVE  \E e \in entries : /\ e.field = "audit" /\ ~Ticks(e.value)
                              /\ e.source = "flag" \/ e.value # Empty
<1> DEFINE flags == {e \in entries : e.source = "flag"}
           toml  == With(Default, Heeded(entries, "toml"))
           env   == With(toml, Heeded(entries, "env"))
           main  == With(Derive(env), flags)
<1>1. "audit" \in DOMAIN Default /\ Default["audit"] = <<"60">>
    BY DEF Default
<1>2. Ticks(<<"60">>)
    BY DEF Ticks, Empty
<1>3. /\ "audit" \in DOMAIN toml
      /\ \/ toml["audit"] = <<"60">>
         \/ \E e \in Heeded(entries, "toml") : e.field = "audit" /\ toml["audit"] = e.value
    BY <1>1, WithSetting
<1>4. /\ "audit" \in DOMAIN env
      /\ \/ env["audit"] = toml["audit"]
         \/ \E e \in Heeded(entries, "env") : e.field = "audit" /\ env["audit"] = e.value
    BY <1>3, WithSetting
<1>5. "audit" \in DOMAIN Derive(env) /\ Derive(env)["audit"] = env["audit"]
    BY <1>4, DeriveSetting
<1> HIDE DEF flags, toml, env
<1>6. /\ "audit" \in DOMAIN main
      /\ \/ main["audit"] = env["audit"]
         \/ \E e \in flags : e.field = "audit" /\ main["audit"] = e.value
    BY <1>5, WithSetting
<1>7. Main(entries) = Derive(main)
    BY DEF flags, toml, env, Main, FromEnv, FromTOML
<1>8. ~Ticks(main["audit"])
    BY <1>6, <1>7, DeriveSetting
<1> HIDE DEF main
<1> QED
    BY <1>2, <1>3, <1>4, <1>6, <1>8 DEF Heeded, flags

\* An instance whose audit loop panicked had an interval that does not tick.
Interval == \A i \in Instances : pc[i] = "noTicker" => ~Ticks(cfg[i].audit)

\* The audit loop only panics on an interval that was asked for.
THEOREM AuditPanicIsAskedFor == Spec => []PanicIsAskedFor
<1>1. Init => Interval
    BY DEF Init, Interval
<1>2. IInv /\ Interval /\ [Next]_vars => Interval'
  <2> SUFFICES ASSUME IInv, Interval, [Next]_vars, NEW i \in Instances, pc'[i] = "noTicker"
               PROVE  ~Ticks(cfg'[i].audit)
      BY DEF Interval
  <2>1. Stays
      BY StepStays DEF IInv
  <2>2. pc[i] = "noTicker" \/ (pc[i] = "audit" /\ ~Ticks(cfg[i].audit))
      BY DEF IInv, Placed, Next, vars, Over, Goes, ReturnsError, Start, EnsureDirs, WritePid,
         ClearSocket, Bind, Chmod, AuditorStarts, Ready, Signal, Code, CloseListener,
         ShutdownAgain, Exit, Killed
  <2> QED
      BY <2>1, <2>2 DEF Stays, Interval
<1>3. IInv /\ Interval => PanicIsAskedFor
  <2> SUFFICES ASSUME IInv, Interval, NEW i \in Instances, pc[i] = "noTicker"
               PROVE  \E e \in given[i] : /\ e.field = "audit" /\ ~Ticks(e.value)
                                          /\ e.source = "flag" \/ e.value # Empty
      BY DEF PanicIsAskedFor
  <2>1. ~Ticks(Main(given[i]).audit)
      BY DEF IInv, Configured, Interval
  <2> QED
      BY <2>1, IntervalIsAskedFor
<1> QED
    BY <1>1, <1>2, <1>3, Invariance, PTL DEF Spec

-----------------------------------------------------------------------------
(* Types                                                                   *)

\* The state keeps its types: a configuration always has all its settings, and each
\* file is the PID file or the socket of the instance that made it.
THEOREM StartupTypes == Spec => []TypeOK
<1>1. IInv => TypeOK
  <2> SUFFICES ASSUME IInv PROVE TypeOK
      OBVIOUS
  <2>1. DOMAIN given \subseteq Instances
      BY ScenariosAssumption DEF IInv, Configured
  <2>2. ASSUME NEW i \in Instances PROVE DOMAIN cfg[i] = DOMAIN Default
    <3>1. Main(given[i]) = Derive(Named(given[i]))
        BY DEF Main, Named, Flags
    <3>2. DOMAIN Main(given[i]) = DOMAIN Default
        BY <3>1, NamedFields, DeriveFields
    <3>3. cfg[i] = IF pc[i] = "off" THEN Default ELSE Main(given[i])
        BY DEF IInv, Configured
    <3> QED
        BY <3>2, <3>3
  <2>3. \A path \in DOMAIN file :
            /\ file[path] \in Instances
            /\ path \in {cfg[file[path]].pid, cfg[file[path]].socket}
      BY DEF IInv, Owned
  <2> QED
      BY <2>1, <2>2, <2>3 DEF IInv, Placed, Met, TypeOK
<1> QED
    BY <1>1, Invariance, PTL
=============================================================================
