---------------------------- MODULE DaemonProofs ----------------------------
(***************************************************************************)
(* Proofs about Daemon, for every set of connections, names and prompts.   *)
(***************************************************************************)
EXTENDS Daemon, TLAPS

\* Where a goroutine is says what it has done: named itself, closed the listener,
\* chosen a victim; and a closed connection has closed itself or is the victim of
\* a shutdown that waits for it.
Local ==
    /\ \A c \in Conns : at[c] \in {"add", "remove"} => name[c] \in Names
    /\ \A l \in Loops :
          /\ at[l] \in {"lock", "closing", "victim", "stuck", "effects"} => ~listening
          /\ at[l] = "victim" => victim[l] \in Conns
    /\ \A c \in Conns : closed[c] =>
          \/ at[c] \in {"remove", "end"}
          \/ \E l \in Loops : at[l] = "stuck" /\ victim[l] = c

\* A prompt's answer is for its sender, and a connection in the table is there under
\* the name it has kept.
Routed ==
    /\ \A n \in Names : clients[n] \in Conns => name[clients[n]] = n
    /\ \A p \in Prompts : prompt[p] = "send" => owner[p] \in Names
    /\ AnswerGoesToItsName

\* The inductive invariant.
IInv ==
    TypeOK /\ Local /\ CrashOnlyInShutdown /\ NoDeadClientEntry
        /\ ReachableUnlessDuplicate /\ ProcessingHasPrompt /\ Routed /\ OneShutdownActs

\* Closing a connection, or none, leaves a mark for each.
LEMMA Marks ==
    ASSUME closed \in [Conns -> BOOLEAN], NEW x \in Conns,
           closed' = closed \/ closed' = [closed EXCEPT ![x] = TRUE]
    PROVE  closed' \in [Conns -> BOOLEAN]
<1>1. CASE closed' = closed
    BY <1>1
<1>2. CASE closed' = [closed EXCEPT ![x] = TRUE]
    BY <1>2, Zenon
<1> QED
    BY <1>1, <1>2

\* The initial state satisfies the invariant.
LEMMA InvInit == Init => IInv
<1> SUFFICES ASSUME Init PROVE IInv
    OBVIOUS
<1> USE SpecialValues DEF Init, Loops
<1>1. TypeOK
    BY DEF TypeOK, States, Places
<1>2. Local /\ CrashOnlyInShutdown /\ NoDeadClientEntry
    BY DEF Local, CrashOnlyInShutdown, NoDeadClientEntry
<1>3. ReachableUnlessDuplicate /\ ProcessingHasPrompt
    BY DEF ReachableUnlessDuplicate, ProcessingHasPrompt
<1>4. Routed /\ OneShutdownActs
    BY DEF Routed, AnswerGoesToItsName, OneShutdownActs
<1> QED
    BY <1>1, <1>2, <1>3, <1>4 DEF IInv

\* Every step keeps the types.
LEMMA TypeStep == TypeOK /\ Local /\ [Next]_vars => TypeOK'
<1> SUFFICES ASSUME TypeOK, Local, [Next]_vars PROVE TypeOK'
    OBVIOUS
<1> USE SpecialValues
<1> USE DEF TypeOK, Local, States, Places, Loops, Goto, vars, tableVars, promptVars, sideVars
<1>1. ASSUME NEW c \in Conns, Accept(c) PROVE TypeOK'
    BY <1>1 DEF Accept
<1>2. ASSUME NEW c \in Conns, Stall(c) PROVE TypeOK'
    BY <1>2 DEF Stall
<1>3. ASSUME NEW c \in Conns, Hangup(c) PROVE TypeOK'
    BY <1>3 DEF Hangup
<1>4. ASSUME NEW c \in Conns, Scan(c) PROVE TypeOK'
    BY <1>4 DEF Scan
<1>5. ASSUME NEW c \in Conns, AddClient(c) PROVE TypeOK'
    BY <1>5 DEF AddClient
<1>6. ASSUME NEW c \in Conns, ScanEnds(c) PROVE TypeOK'
    BY <1>6 DEF ScanEnds
<1>7. ASSUME NEW c \in Conns, CloseChecks(c) PROVE TypeOK'
    BY <1>7 DEF CloseChecks
<1>8. ASSUME NEW c \in Conns, CloseDone(c) PROVE TypeOK'
  <2>1. closed \in [Conns -> BOOLEAN]
    OBVIOUS
  <2>2. closed' = closed \/ closed' = [closed EXCEPT ![c] = TRUE]
    BY <1>8 DEF CloseDone
  <2>3. closed' \in [Conns -> BOOLEAN]
    BY <2>1, <2>2, Marks
  <2> QED
    BY <1>8, <2>3 DEF CloseDone, Crash
<1>9. ASSUME NEW c \in Conns, RemoveClient(c) PROVE TypeOK'
    BY <1>9 DEF RemoveClient
<1>10. ASSUME NEW c \in Conns, Admit(c) PROVE TypeOK'
    BY <1>10 DEF Admit
<1>11. ASSUME NEW c \in Conns, JustReply(c) PROVE TypeOK'
    BY <1>11 DEF JustReply, LoopTop
<1>12. ASSUME NEW c \in Conns, Reply(c) PROVE TypeOK'
    BY <1>12 DEF Reply, LoopTop
<1>13. ASSUME NEW c \in Conns, InputForward(c) PROVE TypeOK'
    BY <1>13 DEF InputForward
<1>14. ASSUME NEW c \in Conns, InputAccepted(c) PROVE TypeOK'
    BY <1>14 DEF InputAccepted, LoopTop
<1>15. ASSUME NEW c \in Conns, Wake(c) PROVE TypeOK'
    BY <1>15 DEF Wake
<1>16. ASSUME NEW c \in Conns, IdleCode(c) PROVE TypeOK'
    BY <1>16 DEF IdleCode
<1>17. ASSUME NEW c \in Conns, IdleEntered(c) PROVE TypeOK'
    BY <1>17 DEF IdleEntered
<1>18. ASSUME NEW c \in Conns, StopCode(c) PROVE TypeOK'
    BY <1>18 DEF StopCode
<1>19. ASSUME NEW l \in Loops, SetShutdown(l) PROVE TypeOK'
    BY <1>19 DEF SetShutdown
<1>20. ASSUME NEW l \in Loops, CastBegins(l) PROVE TypeOK'
    BY <1>20 DEF CastBegins
<1>21. ASSUME NEW l \in Loops, CastEnds(l) PROVE TypeOK'
    BY <1>21 DEF CastEnds
<1>22. ASSUME NEW l \in Loops, CloseListener(l) PROVE TypeOK'
  <2>1. CASE Crash /\ UNCHANGED <<at, listening>>
    BY <1>22, <2>1 DEF CloseListener, Crash
  <2>2. CASE listening' = FALSE /\ Goto(l, "lock") /\ UNCHANGED daemon
    BY ZenonT(40), <1>22, <2>2 DEF CloseListener
  <2> QED
    BY <1>22, <2>1, <2>2 DEF CloseListener
<1>23. ASSUME NEW l \in Loops, LockClients(l) PROVE TypeOK'
    BY <1>23 DEF LockClients
<1>24. ASSUME NEW l \in Loops, CloseVictim(l) PROVE TypeOK'
  <2>0. victim[l] \in Conns
    BY <1>24 DEF CloseVictim
  <2>1. closed \in [Conns -> BOOLEAN]
    OBVIOUS
  <2>2. closed' = closed \/ closed' = [closed EXCEPT ![victim[l]] = TRUE]
    BY <1>24 DEF CloseVictim
  <2>3. closed' \in [Conns -> BOOLEAN]
    BY <2>0, <2>1, <2>2, Marks
  <2> QED
    BY <1>24, <2>3 DEF CloseVictim, Crash
<1>25. ASSUME NEW l \in Loops, UnlockClients(l) PROVE TypeOK'
    BY <1>25 DEF UnlockClients
<1>26. ASSUME NEW l \in Loops, Effects(l) PROVE TypeOK'
    BY <1>26 DEF Effects
<1>27. ASSUME NEW l \in Loops, NEW n \in Names, CloseEntry(l, n) PROVE TypeOK'
    BY <1>27 DEF CloseEntry
<1>28. ASSUME NEW p \in Prompts, PromptTouches(p) PROVE TypeOK'
    BY <1>28 DEF PromptTouches
<1>29. ASSUME NEW p \in Prompts, PromptLooksUp(p) PROVE TypeOK'
    BY <1>29 DEF PromptLooksUp
<1>30. ASSUME NEW p \in Prompts, PromptSends(p) PROVE TypeOK'
    BY <1>30 DEF PromptSends
<1>31. ASSUME NEW p \in Prompts, PromptEnds(p) PROVE TypeOK'
    BY <1>31 DEF PromptEnds
<1>32. ASSUME Started PROVE TypeOK'
    BY <1>32 DEF Started
<1>33. ASSUME ReadyCastBegins PROVE TypeOK'
    BY <1>33 DEF ReadyCastBegins
<1>34. ASSUME ReadyCastEnds PROVE TypeOK'
    BY <1>34 DEF ReadyCastEnds
<1>35. ASSUME Signal PROVE TypeOK'
    BY <1>35 DEF Signal
<1>36. ASSUME TimerFires PROVE TypeOK'
    BY <1>36 DEF TimerFires
<1>37. ASSUME TimerIdles PROVE TypeOK'
    BY <1>37 DEF TimerIdles
<1>38. ASSUME AuditTick PROVE TypeOK'
    BY <1>38 DEF AuditTick
<1>39. ASSUME AuditCastBegins PROVE TypeOK'
    BY <1>39 DEF AuditCastBegins
<1>40. ASSUME AuditCastEnds PROVE TypeOK'
    BY <1>40 DEF AuditCastEnds
<1>41. ASSUME AuditStops PROVE TypeOK'
    BY <1>41 DEF AuditStops
<1>42. CASE UNCHANGED vars
    BY <1>42
<1> QED
    BY <1>1, <1>2, <1>3, <1>4, <1>5, <1>6, <1>7, <1>8, <1>9, <1>10, <1>11, <1>12, <1>13,
       <1>14, <1>15, <1>16, <1>17, <1>18, <1>19, <1>20, <1>21, <1>22, <1>23, <1>24,
       <1>25, <1>26, <1>27, <1>28, <1>29, <1>30, <1>31, <1>32, <1>33, <1>34, <1>35,
       <1>36, <1>37, <1>38, <1>39, <1>40, <1>41, <1>42
    DEF Next, ConnStep, HandlerStep, ShutdownStep, PromptStep, RunStep, TimerStep, AuditStep, Halted

\* Every step keeps what the places say.
LEMMA LocalStep == TypeOK /\ Local /\ [Next]_vars => Local'
<1> SUFFICES ASSUME TypeOK, Local, [Next]_vars PROVE Local'
    OBVIOUS
<1> USE SpecialValues
<1> USE DEF TypeOK, Local, Loops, Goto, vars, tableVars, promptVars, sideVars
<1>1. ASSUME NEW c \in Conns, Accept(c) PROVE Local'
    BY <1>1 DEF Accept
<1>2. ASSUME NEW c \in Conns, Stall(c) PROVE Local'
    BY <1>2 DEF Stall
<1>3. ASSUME NEW c \in Conns, Hangup(c) PROVE Local'
    BY <1>3 DEF Hangup
<1>4. ASSUME NEW c \in Conns, Scan(c) PROVE Local'
    BY <1>4 DEF Scan
<1>5. ASSUME NEW c \in Conns, AddClient(c) PROVE Local'
    BY <1>5 DEF AddClient
<1>6. ASSUME NEW c \in Conns, ScanEnds(c) PROVE Local'
    BY <1>6 DEF ScanEnds
<1>7. ASSUME NEW c \in Conns, CloseChecks(c) PROVE Local'
    BY <1>7 DEF CloseChecks
<1>8. ASSUME NEW c \in Conns, CloseDone(c) PROVE Local'
    BY <1>8 DEF CloseDone, Crash
<1>9. ASSUME NEW c \in Conns, RemoveClient(c) PROVE Local'
    BY <1>9 DEF RemoveClient
<1>10. ASSUME NEW c \in Conns, Admit(c) PROVE Local'
    BY <1>10 DEF Admit
<1>11. ASSUME NEW c \in Conns, JustReply(c) PROVE Local'
    BY <1>11 DEF JustReply, LoopTop
<1>12. ASSUME NEW c \in Conns, Reply(c) PROVE Local'
    BY <1>12 DEF Reply, LoopTop
<1>13. ASSUME NEW c \in Conns, InputForward(c) PROVE Local'
    BY <1>13 DEF InputForward
<1>14. ASSUME NEW c \in Conns, InputAccepted(c) PROVE Local'
    BY <1>14 DEF InputAccepted, LoopTop
<1>15. ASSUME NEW c \in Conns, Wake(c) PROVE Local'
    BY <1>15 DEF Wake
<1>16. ASSUME NEW c \in Conns, IdleCode(c) PROVE Local'
    BY <1>16 DEF IdleCode
<1>17. ASSUME NEW c \in Conns, IdleEntered(c) PROVE Local'
    BY <1>17 DEF IdleEntered
<1>18. ASSUME NEW c \in Conns, StopCode(c) PROVE Local'
    BY <1>18 DEF StopCode
<1>19. ASSUME NEW l \in Loops, SetShutdown(l) PROVE Local'
    BY <1>19 DEF SetShutdown
<1>20. ASSUME NEW l \in Loops, CastBegins(l) PROVE Local'
    BY <1>20 DEF CastBegins
<1>21. ASSUME NEW l \in Loops, CastEnds(l) PROVE Local'
    BY <1>21 DEF CastEnds
<1>22. ASSUME NEW l \in Loops, CloseListener(l) PROVE Local'
    BY <1>22 DEF CloseListener, Crash
<1>23. ASSUME NEW l \in Loops, LockClients(l) PROVE Local'
    BY <1>23 DEF LockClients
<1>24. ASSUME NEW l \in Loops, CloseVictim(l) PROVE Local'
    BY <1>24 DEF CloseVictim, Crash
<1>25. ASSUME NEW l \in Loops, UnlockClients(l) PROVE Local'
    BY <1>25 DEF UnlockClients
<1>26. ASSUME NEW l \in Loops, Effects(l) PROVE Local'
    BY <1>26 DEF Effects
<1>27. ASSUME NEW l \in Loops, NEW n \in Names, CloseEntry(l, n) PROVE Local'
    BY <1>27 DEF CloseEntry
<1>28. ASSUME NEW p \in Prompts, PromptTouches(p) PROVE Local'
    BY <1>28 DEF PromptTouches
<1>29. ASSUME NEW p \in Prompts, PromptLooksUp(p) PROVE Local'
    BY <1>29 DEF PromptLooksUp
<1>30. ASSUME NEW p \in Prompts, PromptSends(p) PROVE Local'
    BY <1>30 DEF PromptSends
<1>31. ASSUME NEW p \in Prompts, PromptEnds(p) PROVE Local'
    BY <1>31 DEF PromptEnds
<1>32. ASSUME Started PROVE Local'
    BY <1>32 DEF Started
<1>33. ASSUME ReadyCastBegins PROVE Local'
    BY <1>33 DEF ReadyCastBegins
<1>34. ASSUME ReadyCastEnds PROVE Local'
    BY <1>34 DEF ReadyCastEnds
<1>35. ASSUME Signal PROVE Local'
    BY <1>35 DEF Signal
<1>36. ASSUME TimerFires PROVE Local'
    BY <1>36 DEF TimerFires
<1>37. ASSUME TimerIdles PROVE Local'
    BY <1>37 DEF TimerIdles
<1>38. ASSUME AuditTick PROVE Local'
    BY <1>38 DEF AuditTick
<1>39. ASSUME AuditCastBegins PROVE Local'
    BY <1>39 DEF AuditCastBegins
<1>40. ASSUME AuditCastEnds PROVE Local'
    BY <1>40 DEF AuditCastEnds
<1>41. ASSUME AuditStops PROVE Local'
    BY <1>41 DEF AuditStops
<1>42. CASE UNCHANGED vars
    BY <1>42
<1> QED
    BY <1>1, <1>2, <1>3, <1>4, <1>5, <1>6, <1>7, <1>8, <1>9, <1>10, <1>11, <1>12, <1>13,
       <1>14, <1>15, <1>16, <1>17, <1>18, <1>19, <1>20, <1>21, <1>22, <1>23, <1>24,
       <1>25, <1>26, <1>27, <1>28, <1>29, <1>30, <1>31, <1>32, <1>33, <1>34, <1>35,
       <1>36, <1>37, <1>38, <1>39, <1>40, <1>41, <1>42
    DEF Next, ConnStep, HandlerStep, ShutdownStep, PromptStep, RunStep, TimerStep, AuditStep, Halted

\* Only a step of a shutdown, or of a victim of one, panics.
LEMMA CrashStep == TypeOK /\ Local /\ CrashOnlyInShutdown /\ [Next]_vars => CrashOnlyInShutdown'
<1> SUFFICES ASSUME TypeOK, Local, CrashOnlyInShutdown, [Next]_vars PROVE CrashOnlyInShutdown'
    OBVIOUS
<1> USE SpecialValues
<1> USE DEF TypeOK, Local, CrashOnlyInShutdown, Loops, Goto, vars, tableVars, promptVars, sideVars
<1>1. ASSUME NEW c \in Conns, Accept(c) PROVE CrashOnlyInShutdown'
    BY <1>1 DEF Accept
<1>2. ASSUME NEW c \in Conns, Stall(c) PROVE CrashOnlyInShutdown'
    BY <1>2 DEF Stall
<1>3. ASSUME NEW c \in Conns, Hangup(c) PROVE CrashOnlyInShutdown'
    BY <1>3 DEF Hangup
<1>4. ASSUME NEW c \in Conns, Scan(c) PROVE CrashOnlyInShutdown'
    BY <1>4 DEF Scan
<1>5. ASSUME NEW c \in Conns, AddClient(c) PROVE CrashOnlyInShutdown'
    BY <1>5 DEF AddClient
<1>6. ASSUME NEW c \in Conns, ScanEnds(c) PROVE CrashOnlyInShutdown'
    BY <1>6 DEF ScanEnds
<1>7. ASSUME NEW c \in Conns, CloseChecks(c) PROVE CrashOnlyInShutdown'
    BY <1>7 DEF CloseChecks
<1>8. ASSUME NEW c \in Conns, CloseDone(c) PROVE CrashOnlyInShutdown'
    BY <1>8 DEF CloseDone, Crash
<1>9. ASSUME NEW c \in Conns, RemoveClient(c) PROVE CrashOnlyInShutdown'
    BY <1>9 DEF RemoveClient
<1>10. ASSUME NEW c \in Conns, Admit(c) PROVE CrashOnlyInShutdown'
    BY <1>10 DEF Admit
<1>11. ASSUME NEW c \in Conns, JustReply(c) PROVE CrashOnlyInShutdown'
    BY <1>11 DEF JustReply, LoopTop
<1>12. ASSUME NEW c \in Conns, Reply(c) PROVE CrashOnlyInShutdown'
    BY <1>12 DEF Reply, LoopTop
<1>13. ASSUME NEW c \in Conns, InputForward(c) PROVE CrashOnlyInShutdown'
    BY <1>13 DEF InputForward
<1>14. ASSUME NEW c \in Conns, InputAccepted(c) PROVE CrashOnlyInShutdown'
    BY <1>14 DEF InputAccepted, LoopTop
<1>15. ASSUME NEW c \in Conns, Wake(c) PROVE CrashOnlyInShutdown'
    BY <1>15 DEF Wake
<1>16. ASSUME NEW c \in Conns, IdleCode(c) PROVE CrashOnlyInShutdown'
    BY <1>16 DEF IdleCode
<1>17. ASSUME NEW c \in Conns, IdleEntered(c) PROVE CrashOnlyInShutdown'
    BY <1>17 DEF IdleEntered
<1>18. ASSUME NEW c \in Conns, StopCode(c) PROVE CrashOnlyInShutdown'
    BY <1>18 DEF StopCode
<1>19. ASSUME NEW l \in Loops, SetShutdown(l) PROVE CrashOnlyInShutdown'
    BY <1>19 DEF SetShutdown
<1>20. ASSUME NEW l \in Loops, CastBegins(l) PROVE CrashOnlyInShutdown'
    BY <1>20 DEF CastBegins
<1>21. ASSUME NEW l \in Loops, CastEnds(l) PROVE CrashOnlyInShutdown'
    BY <1>21 DEF CastEnds
<1>22. ASSUME NEW l \in Loops, CloseListener(l) PROVE CrashOnlyInShutdown'
    BY <1>22 DEF CloseListener, Crash
<1>23. ASSUME NEW l \in Loops, LockClients(l) PROVE CrashOnlyInShutdown'
    BY <1>23 DEF LockClients
<1>24. ASSUME NEW l \in Loops, CloseVictim(l) PROVE CrashOnlyInShutdown'
    BY <1>24 DEF CloseVictim, Crash
<1>25. ASSUME NEW l \in Loops, UnlockClients(l) PROVE CrashOnlyInShutdown'
    BY <1>25 DEF UnlockClients
<1>26. ASSUME NEW l \in Loops, Effects(l) PROVE CrashOnlyInShutdown'
    BY <1>26 DEF Effects
<1>27. ASSUME NEW l \in Loops, NEW n \in Names, CloseEntry(l, n) PROVE CrashOnlyInShutdown'
    BY <1>27 DEF CloseEntry
<1>28. ASSUME NEW p \in Prompts, PromptTouches(p) PROVE CrashOnlyInShutdown'
    BY <1>28 DEF PromptTouches
<1>29. ASSUME NEW p \in Prompts, PromptLooksUp(p) PROVE CrashOnlyInShutdown'
    BY <1>29 DEF PromptLooksUp
<1>30. ASSUME NEW p \in Prompts, PromptSends(p) PROVE CrashOnlyInShutdown'
    BY <1>30 DEF PromptSends
<1>31. ASSUME NEW p \in Prompts, PromptEnds(p) PROVE CrashOnlyInShutdown'
    BY <1>31 DEF PromptEnds
<1>32. ASSUME Started PROVE CrashOnlyInShutdown'
    BY <1>32 DEF Started
<1>33. ASSUME ReadyCastBegins PROVE CrashOnlyInShutdown'
    BY <1>33 DEF ReadyCastBegins
<1>34. ASSUME ReadyCastEnds PROVE CrashOnlyInShutdown'
    BY <1>34 DEF ReadyCastEnds
<1>35. ASSUME Signal PROVE CrashOnlyInShutdown'
    BY <1>35 DEF Signal
<1>36. ASSUME TimerFires PROVE CrashOnlyInShutdown'
    BY <1>36 DEF TimerFires
<1>37. ASSUME TimerIdles PROVE CrashOnlyInShutdown'
    BY <1>37 DEF TimerIdles
<1>38. ASSUME AuditTick PROVE CrashOnlyInShutdown'
    BY <1>38 DEF AuditTick
<1>39. ASSUME AuditCastBegins PROVE CrashOnlyInShutdown'
    BY <1>39 DEF AuditCastBegins
<1>40. ASSUME AuditCastEnds PROVE CrashOnlyInShutdown'
    BY <1>40 DEF AuditCastEnds
<1>41. ASSUME AuditStops PROVE CrashOnlyInShutdown'
    BY <1>41 DEF AuditStops
<1>42. CASE UNCHANGED vars
    BY <1>42
<1> QED
    BY <1>1, <1>2, <1>3, <1>4, <1>5, <1>6, <1>7, <1>8, <1>9, <1>10, <1>11, <1>12, <1>13,
       <1>14, <1>15, <1>16, <1>17, <1>18, <1>19, <1>20, <1>21, <1>22, <1>23, <1>24,
       <1>25, <1>26, <1>27, <1>28, <1>29, <1>30, <1>31, <1>32, <1>33, <1>34, <1>35,
       <1>36, <1>37, <1>38, <1>39, <1>40, <1>41, <1>42
    DEF Next, ConnStep, HandlerStep, ShutdownStep, PromptStep, RunStep, TimerStep, AuditStep, Halted

\* No step leaves an entry of a connection that has ended.
LEMMA EntryStep == TypeOK /\ Local /\ NoDeadClientEntry /\ [Next]_vars => NoDeadClientEntry'
<1> SUFFICES ASSUME TypeOK, Local, NoDeadClientEntry, [Next]_vars PROVE NoDeadClientEntry'
    OBVIOUS
<1> USE SpecialValues
<1> USE DEF TypeOK, Local, NoDeadClientEntry, Loops, Goto, vars, tableVars, promptVars, sideVars
<1>1. ASSUME NEW c \in Conns, Accept(c) PROVE NoDeadClientEntry'
    BY <1>1 DEF Accept
<1>2. ASSUME NEW c \in Conns, Stall(c) PROVE NoDeadClientEntry'
    BY <1>2 DEF Stall
<1>3. ASSUME NEW c \in Conns, Hangup(c) PROVE NoDeadClientEntry'
    BY <1>3 DEF Hangup
<1>4. ASSUME NEW c \in Conns, Scan(c) PROVE NoDeadClientEntry'
    BY <1>4 DEF Scan
<1>5. ASSUME NEW c \in Conns, AddClient(c) PROVE NoDeadClientEntry'
    BY <1>5 DEF AddClient
<1>6. ASSUME NEW c \in Conns, ScanEnds(c) PROVE NoDeadClientEntry'
    BY <1>6 DEF ScanEnds
<1>7. ASSUME NEW c \in Conns, CloseChecks(c) PROVE NoDeadClientEntry'
    BY <1>7 DEF CloseChecks
<1>8. ASSUME NEW c \in Conns, CloseDone(c) PROVE NoDeadClientEntry'
    BY <1>8 DEF CloseDone, Crash
<1>9. ASSUME NEW c \in Conns, RemoveClient(c) PROVE NoDeadClientEntry'
    BY <1>9 DEF RemoveClient
<1>10. ASSUME NEW c \in Conns, Admit(c) PROVE NoDeadClientEntry'
    BY <1>10 DEF Admit
<1>11. ASSUME NEW c \in Conns, JustReply(c) PROVE NoDeadClientEntry'
    BY <1>11 DEF JustReply, LoopTop
<1>12. ASSUME NEW c \in Conns, Reply(c) PROVE NoDeadClientEntry'
    BY <1>12 DEF Reply, LoopTop
<1>13. ASSUME NEW c \in Conns, InputForward(c) PROVE NoDeadClientEntry'
    BY <1>13 DEF InputForward
<1>14. ASSUME NEW c \in Conns, InputAccepted(c) PROVE NoDeadClientEntry'
    BY <1>14 DEF InputAccepted, LoopTop
<1>15. ASSUME NEW c \in Conns, Wake(c) PROVE NoDeadClientEntry'
    BY <1>15 DEF Wake
<1>16. ASSUME NEW c \in Conns, IdleCode(c) PROVE NoDeadClientEntry'
    BY <1>16 DEF IdleCode
<1>17. ASSUME NEW c \in Conns, IdleEntered(c) PROVE NoDeadClientEntry'
    BY <1>17 DEF IdleEntered
<1>18. ASSUME NEW c \in Conns, StopCode(c) PROVE NoDeadClientEntry'
    BY <1>18 DEF StopCode
<1>19. ASSUME NEW l \in Loops, SetShutdown(l) PROVE NoDeadClientEntry'
    BY <1>19 DEF SetShutdown
<1>20. ASSUME NEW l \in Loops, CastBegins(l) PROVE NoDeadClientEntry'
    BY <1>20 DEF CastBegins
<1>21. ASSUME NEW l \in Loops, CastEnds(l) PROVE NoDeadClientEntry'
    BY <1>21 DEF CastEnds
<1>22. ASSUME NEW l \in Loops, CloseListener(l) PROVE NoDeadClientEntry'
    BY <1>22 DEF CloseListener, Crash
<1>23. ASSUME NEW l \in Loops, LockClients(l) PROVE NoDeadClientEntry'
    BY <1>23 DEF LockClients
<1>24. ASSUME NEW l \in Loops, CloseVictim(l) PROVE NoDeadClientEntry'
    BY <1>24 DEF CloseVictim, Crash
<1>25. ASSUME NEW l \in Loops, UnlockClients(l) PROVE NoDeadClientEntry'
    BY <1>25 DEF UnlockClients
<1>26. ASSUME NEW l \in Loops, Effects(l) PROVE NoDeadClientEntry'
    BY <1>26 DEF Effects
<1>27. ASSUME NEW l \in Loops, NEW n \in Names, CloseEntry(l, n) PROVE NoDeadClientEntry'
    BY <1>27 DEF CloseEntry
<1>28. ASSUME NEW p \in Prompts, PromptTouches(p) PROVE NoDeadClientEntry'
    BY <1>28 DEF PromptTouches
<1>29. ASSUME NEW p \in Prompts, PromptLooksUp(p) PROVE NoDeadClientEntry'
    BY <1>29 DEF PromptLooksUp
<1>30. ASSUME NEW p \in Prompts, PromptSends(p) PROVE NoDeadClientEntry'
    BY <1>30 DEF PromptSends
<1>31. ASSUME NEW p \in Prompts, PromptEnds(p) PROVE NoDeadClientEntry'
    BY <1>31 DEF PromptEnds
<1>32. ASSUME Started PROVE NoDeadClientEntry'
    BY <1>32 DEF Started
<1>33. ASSUME ReadyCastBegins PROVE NoDeadClientEntry'
    BY <1>33 DEF ReadyCastBegins
<1>34. ASSUME ReadyCastEnds PROVE NoDeadClientEntry'
    BY <1>34 DEF ReadyCastEnds
<1>35. ASSUME Signal PROVE NoDeadClientEntry'
    BY <1>35 DEF Signal
<1>36. ASSUME TimerFires PROVE NoDeadClientEntry'
    BY <1>36 DEF TimerFires
<1>37. ASSUME TimerIdles PROVE NoDeadClientEntry'
    BY <1>37 DEF TimerIdles
<1>38. ASSUME AuditTick PROVE NoDeadClientEntry'
    BY <1>38 DEF AuditTick
<1>39. ASSUME AuditCastBegins PROVE NoDeadClientEntry'
    BY <1>39 DEF AuditCastBegins
<1>40. ASSUME AuditCastEnds PROVE NoDeadClientEntry'
    BY <1>40 DEF AuditCastEnds
<1>41. ASSUME AuditStops PROVE NoDeadClientEntry'
    BY <1>41 DEF AuditStops
<1>42. CASE UNCHANGED vars
    BY <1>42
<1> QED
    BY <1>1, <1>2, <1>3, <1>4, <1>5, <1>6, <1>7, <1>8, <1>9, <1>10, <1>11, <1>12, <1>13,
       <1>14, <1>15, <1>16, <1>17, <1>18, <1>19, <1>20, <1>21, <1>22, <1>23, <1>24,
       <1>25, <1>26, <1>27, <1>28, <1>29, <1>30, <1>31, <1>32, <1>33, <1>34, <1>35,
       <1>36, <1>37, <1>38, <1>39, <1>40, <1>41, <1>42
    DEF Next, ConnStep, HandlerStep, ShutdownStep, PromptStep, RunStep, TimerStep, AuditStep, Halted

\* Only a namesake takes an entry from a connection that is read.
LEMMA ReachableStep == TypeOK /\ Local /\ ReachableUnlessDuplicate /\ [Next]_vars => ReachableUnlessDuplicate'
<1> SUFFICES ASSUME TypeOK, Local, ReachableUnlessDuplicate, [Next]_vars PROVE ReachableUnlessDuplicate'
    OBVIOUS
<1> USE SpecialValues
<1> USE DEF TypeOK, Local, ReachableUnlessDuplicate, Loops, Goto, vars, tableVars, promptVars, sideVars
<1>1. ASSUME NEW c \in Conns, Accept(c) PROVE ReachableUnlessDuplicate'
    BY <1>1 DEF Accept
<1>2. ASSUME NEW c \in Conns, Stall(c) PROVE ReachableUnlessDuplicate'
    BY <1>2 DEF Stall
<1>3. ASSUME NEW c \in Conns, Hangup(c) PROVE ReachableUnlessDuplicate'
    BY <1>3 DEF Hangup
<1>4. ASSUME NEW c \in Conns, Scan(c) PROVE ReachableUnlessDuplicate'
    BY <1>4 DEF Scan
<1>5. ASSUME NEW c \in Conns, AddClient(c) PROVE ReachableUnlessDuplicate'
    BY <1>5 DEF AddClient
<1>6. ASSUME NEW c \in Conns, ScanEnds(c) PROVE ReachableUnlessDuplicate'
    BY <1>6 DEF ScanEnds
<1>7. ASSUME NEW c \in Conns, CloseChecks(c) PROVE ReachableUnlessDuplicate'
    BY <1>7 DEF CloseChecks
<1>8. ASSUME NEW c \in Conns, CloseDone(c) PROVE ReachableUnlessDuplicate'
    BY <1>8 DEF CloseDone, Crash
<1>9. ASSUME NEW c \in Conns, RemoveClient(c) PROVE ReachableUnlessDuplicate'
    BY <1>9 DEF RemoveClient
<1>10. ASSUME NEW c \in Conns, Admit(c) PROVE ReachableUnlessDuplicate'
    BY <1>10 DEF Admit
<1>11. ASSUME NEW c \in Conns, JustReply(c) PROVE ReachableUnlessDuplicate'
    BY <1>11 DEF JustReply, LoopTop
<1>12. ASSUME NEW c \in Conns, Reply(c) PROVE ReachableUnlessDuplicate'
    BY <1>12 DEF Reply, LoopTop
<1>13. ASSUME NEW c \in Conns, InputForward(c) PROVE ReachableUnlessDuplicate'
    BY <1>13 DEF InputForward
<1>14. ASSUME NEW c \in Conns, InputAccepted(c) PROVE ReachableUnlessDuplicate'
    BY <1>14 DEF InputAccepted, LoopTop
<1>15. ASSUME NEW c \in Conns, Wake(c) PROVE ReachableUnlessDuplicate'
    BY <1>15 DEF Wake
<1>16. ASSUME NEW c \in Conns, IdleCode(c) PROVE ReachableUnlessDuplicate'
    BY <1>16 DEF IdleCode
<1>17. ASSUME NEW c \in Conns, IdleEntered(c) PROVE ReachableUnlessDuplicate'
    BY <1>17 DEF IdleEntered
<1>18. ASSUME NEW c \in Conns, StopCode(c) PROVE ReachableUnlessDuplicate'
    BY <1>18 DEF StopCode
<1>19. ASSUME NEW l \in Loops, SetShutdown(l) PROVE ReachableUnlessDuplicate'
    BY <1>19 DEF SetShutdown
<1>20. ASSUME NEW l \in Loops, CastBegins(l) PROVE ReachableUnlessDuplicate'
    BY <1>20 DEF CastBegins
<1>21. ASSUME NEW l \in Loops, CastEnds(l) PROVE ReachableUnlessDuplicate'
    BY <1>21 DEF CastEnds
<1>22. ASSUME NEW l \in Loops, CloseListener(l) PROVE ReachableUnlessDuplicate'
    BY <1>22 DEF CloseListener, Crash
<1>23. ASSUME NEW l \in Loops, LockClients(l) PROVE ReachableUnlessDuplicate'
    BY <1>23 DEF LockClients
<1>24. ASSUME NEW l \in Loops, CloseVictim(l) PROVE ReachableUnlessDuplicate'
    BY <1>24 DEF CloseVictim, Crash
<1>25. ASSUME NEW l \in Loops, UnlockClients(l) PROVE ReachableUnlessDuplicate'
    BY <1>25 DEF UnlockClients
<1>26. ASSUME NEW l \in Loops, Effects(l) PROVE ReachableUnlessDuplicate'
    BY <1>26 DEF Effects
<1>27. ASSUME NEW l \in Loops, NEW n \in Names, CloseEntry(l, n) PROVE ReachableUnlessDuplicate'
    BY <1>27 DEF CloseEntry
<1>28. ASSUME NEW p \in Prompts, PromptTouches(p) PROVE ReachableUnlessDuplicate'
    BY <1>28 DEF PromptTouches
<1>29. ASSUME NEW p \in Prompts, PromptLooksUp(p) PROVE ReachableUnlessDuplicate'
    BY <1>29 DEF PromptLooksUp
<1>30. ASSUME NEW p \in Prompts, PromptSends(p) PROVE ReachableUnlessDuplicate'
    BY <1>30 DEF PromptSends
<1>31. ASSUME NEW p \in Prompts, PromptEnds(p) PROVE ReachableUnlessDuplicate'
    BY <1>31 DEF PromptEnds
<1>32. ASSUME Started PROVE ReachableUnlessDuplicate'
    BY <1>32 DEF Started
<1>33. ASSUME ReadyCastBegins PROVE ReachableUnlessDuplicate'
    BY <1>33 DEF ReadyCastBegins
<1>34. ASSUME ReadyCastEnds PROVE ReachableUnlessDuplicate'
    BY <1>34 DEF ReadyCastEnds
<1>35. ASSUME Signal PROVE ReachableUnlessDuplicate'
    BY <1>35 DEF Signal
<1>36. ASSUME TimerFires PROVE ReachableUnlessDuplicate'
    BY <1>36 DEF TimerFires
<1>37. ASSUME TimerIdles PROVE ReachableUnlessDuplicate'
    BY <1>37 DEF TimerIdles
<1>38. ASSUME AuditTick PROVE ReachableUnlessDuplicate'
    BY <1>38 DEF AuditTick
<1>39. ASSUME AuditCastBegins PROVE ReachableUnlessDuplicate'
    BY <1>39 DEF AuditCastBegins
<1>40. ASSUME AuditCastEnds PROVE ReachableUnlessDuplicate'
    BY <1>40 DEF AuditCastEnds
<1>41. ASSUME AuditStops PROVE ReachableUnlessDuplicate'
    BY <1>41 DEF AuditStops
<1>42. CASE UNCHANGED vars
    BY <1>42
<1> QED
    BY <1>1, <1>2, <1>3, <1>4, <1>5, <1>6, <1>7, <1>8, <1>9, <1>10, <1>11, <1>12, <1>13,
       <1>14, <1>15, <1>16, <1>17, <1>18, <1>19, <1>20, <1>21, <1>22, <1>23, <1>24,
       <1>25, <1>26, <1>27, <1>28, <1>29, <1>30, <1>31, <1>32, <1>33, <1>34, <1>35,
       <1>36, <1>37, <1>38, <1>39, <1>40, <1>41, <1>42
    DEF Next, ConnStep, HandlerStep, ShutdownStep, PromptStep, RunStep, TimerStep, AuditStep, Halted

\* Who sets the state to processing brings a prompt, whose end takes it back.
LEMMA ProcessingStep == TypeOK /\ ProcessingHasPrompt /\ [Next]_vars => ProcessingHasPrompt'
<1> SUFFICES ASSUME TypeOK, ProcessingHasPrompt, [Next]_vars PROVE ProcessingHasPrompt'
    OBVIOUS
<1> USE SpecialValues
<1> USE DEF TypeOK, ProcessingHasPrompt, Loops, Goto, vars, tableVars, promptVars, sideVars
<1>1. ASSUME NEW c \in Conns, Accept(c) PROVE ProcessingHasPrompt'
    BY <1>1 DEF Accept
<1>2. ASSUME NEW c \in Conns, Stall(c) PROVE ProcessingHasPrompt'
    BY <1>2 DEF Stall
<1>3. ASSUME NEW c \in Conns, Hangup(c) PROVE ProcessingHasPrompt'
    BY <1>3 DEF Hangup
<1>4. ASSUME NEW c \in Conns, Scan(c) PROVE ProcessingHasPrompt'
    BY <1>4 DEF Scan
<1>5. ASSUME NEW c \in Conns, AddClient(c) PROVE ProcessingHasPrompt'
    BY <1>5 DEF AddClient
<1>6. ASSUME NEW c \in Conns, ScanEnds(c) PROVE ProcessingHasPrompt'
    BY <1>6 DEF ScanEnds
<1>7. ASSUME NEW c \in Conns, CloseChecks(c) PROVE ProcessingHasPrompt'
    BY <1>7 DEF CloseChecks
<1>8. ASSUME NEW c \in Conns, CloseDone(c) PROVE ProcessingHasPrompt'
    BY <1>8 DEF CloseDone, Crash
<1>9. ASSUME NEW c \in Conns, RemoveClient(c) PROVE ProcessingHasPrompt'
    BY <1>9 DEF RemoveClient
<1>10. ASSUME NEW c \in Conns, Admit(c) PROVE ProcessingHasPrompt'
    BY <1>10 DEF Admit
<1>11. ASSUME NEW c \in Conns, JustReply(c) PROVE ProcessingHasPrompt'
    BY <1>11 DEF JustReply, LoopTop
<1>12. ASSUME NEW c \in Conns, Reply(c) PROVE ProcessingHasPrompt'
    BY <1>12 DEF Reply, LoopTop
<1>13. ASSUME NEW c \in Conns, InputForward(c) PROVE ProcessingHasPrompt'
    BY <1>13 DEF InputForward
<1>14. ASSUME NEW c \in Conns, InputAccepted(c) PROVE ProcessingHasPrompt'
    BY <1>14 DEF InputAccepted, LoopTop
<1>15. ASSUME NEW c \in Conns, Wake(c) PROVE ProcessingHasPrompt'
    BY <1>15 DEF Wake
<1>16. ASSUME NEW c \in Conns, IdleCode(c) PROVE ProcessingHasPrompt'
    BY <1>16 DEF IdleCode
<1>17. ASSUME NEW c \in Conns, IdleEntered(c) PROVE ProcessingHasPrompt'
    BY <1>17 DEF IdleEntered
<1>18. ASSUME NEW c \in Conns, StopCode(c) PROVE ProcessingHasPrompt'
    BY <1>18 DEF StopCode
<1>19. ASSUME NEW l \in Loops, SetShutdown(l) PROVE ProcessingHasPrompt'
    BY <1>19 DEF SetShutdown
<1>20. ASSUME NEW l \in Loops, CastBegins(l) PROVE ProcessingHasPrompt'
    BY <1>20 DEF CastBegins
<1>21. ASSUME NEW l \in Loops, CastEnds(l) PROVE ProcessingHasPrompt'
    BY <1>21 DEF CastEnds
<1>22. ASSUME NEW l \in Loops, CloseListener(l) PROVE ProcessingHasPrompt'
    BY <1>22 DEF CloseListener, Crash
<1>23. ASSUME NEW l \in Loops, LockClients(l) PROVE ProcessingHasPrompt'
    BY <1>23 DEF LockClients
<1>24. ASSUME NEW l \in Loops, CloseVictim(l) PROVE ProcessingHasPrompt'
    BY <1>24 DEF CloseVictim, Crash
<1>25. ASSUME NEW l \in Loops, UnlockClients(l) PROVE ProcessingHasPrompt'
    BY <1>25 DEF UnlockClients
<1>26. ASSUME NEW l \in Loops, Effects(l) PROVE ProcessingHasPrompt'
    BY <1>26 DEF Effects
<1>27. ASSUME NEW l \in Loops, NEW n \in Names, CloseEntry(l, n) PROVE ProcessingHasPrompt'
    BY <1>27 DEF CloseEntry
<1>28. ASSUME NEW p \in Prompts, PromptTouches(p) PROVE ProcessingHasPrompt'
    BY <1>28 DEF PromptTouches
<1>29. ASSUME NEW p \in Prompts, PromptLooksUp(p) PROVE ProcessingHasPrompt'
    BY <1>29 DEF PromptLooksUp
<1>30. ASSUME NEW p \in Prompts, PromptSends(p) PROVE ProcessingHasPrompt'
    BY <1>30 DEF PromptSends
<1>31. ASSUME NEW p \in Prompts, PromptEnds(p) PROVE ProcessingHasPrompt'
    BY <1>31 DEF PromptEnds
<1>32. ASSUME Started PROVE ProcessingHasPrompt'
    BY <1>32 DEF Started
<1>33. ASSUME ReadyCastBegins PROVE ProcessingHasPrompt'
    BY <1>33 DEF ReadyCastBegins
<1>34. ASSUME ReadyCastEnds PROVE ProcessingHasPrompt'
    BY <1>34 DEF ReadyCastEnds
<1>35. ASSUME Signal PROVE ProcessingHasPrompt'
    BY <1>35 DEF Signal
<1>36. ASSUME TimerFires PROVE ProcessingHasPrompt'
    BY <1>36 DEF TimerFires
<1>37. ASSUME TimerIdles PROVE ProcessingHasPrompt'
    BY <1>37 DEF TimerIdles
<1>38. ASSUME AuditTick PROVE ProcessingHasPrompt'
    BY <1>38 DEF AuditTick
<1>39. ASSUME AuditCastBegins PROVE ProcessingHasPrompt'
    BY <1>39 DEF AuditCastBegins
<1>40. ASSUME AuditCastEnds PROVE ProcessingHasPrompt'
    BY <1>40 DEF AuditCastEnds
<1>41. ASSUME AuditStops PROVE ProcessingHasPrompt'
    BY <1>41 DEF AuditStops
<1>42. CASE UNCHANGED vars
    BY <1>42
<1> QED
    BY <1>1, <1>2, <1>3, <1>4, <1>5, <1>6, <1>7, <1>8, <1>9, <1>10, <1>11, <1>12, <1>13,
       <1>14, <1>15, <1>16, <1>17, <1>18, <1>19, <1>20, <1>21, <1>22, <1>23, <1>24,
       <1>25, <1>26, <1>27, <1>28, <1>29, <1>30, <1>31, <1>32, <1>33, <1>34, <1>35,
       <1>36, <1>37, <1>38, <1>39, <1>40, <1>41, <1>42
    DEF Next, ConnStep, HandlerStep, ShutdownStep, PromptStep, RunStep, TimerStep, AuditStep, Halted

\* A name is never given up, so that an answer once addressed stays addressed.
LEMMA RoutedStep == TypeOK /\ Local /\ Routed /\ [Next]_vars => Routed'
<1> SUFFICES ASSUME TypeOK, Local, Routed, [Next]_vars PROVE Routed'
    OBVIOUS
<1> USE SpecialValues
<1> USE DEF TypeOK, Local, Routed, AnswerGoesToItsName, Loops, Goto, vars, tableVars, promptVars, sideVars
<1>1. ASSUME NEW c \in Conns, Accept(c) PROVE Routed'
    BY <1>1 DEF Accept
<1>2. ASSUME NEW c \in Conns, Stall(c) PROVE Routed'
    BY <1>2 DEF Stall
<1>3. ASSUME NEW c \in Conns, Hangup(c) PROVE Routed'
    BY <1>3 DEF Hangup
<1>4. ASSUME NEW c \in Conns, Scan(c) PROVE Routed'
    BY <1>4 DEF Scan
<1>5. ASSUME NEW c \in Conns, AddClient(c) PROVE Routed'
    BY <1>5 DEF AddClient
<1>6. ASSUME NEW c \in Conns, ScanEnds(c) PROVE Routed'
    BY <1>6 DEF ScanEnds
<1>7. ASSUME NEW c \in Conns, CloseChecks(c) PROVE Routed'
    BY <1>7 DEF CloseChecks
<1>8. ASSUME NEW c \in Conns, CloseDone(c) PROVE Routed'
    BY <1>8 DEF CloseDone, Crash
<1>9. ASSUME NEW c \in Conns, RemoveClient(c) PROVE Routed'
    BY <1>9 DEF RemoveClient
<1>10. ASSUME NEW c \in Conns, Admit(c) PROVE Routed'
    BY <1>10 DEF Admit
<1>11. ASSUME NEW c \in Conns, JustReply(c) PROVE Routed'
    BY <1>11 DEF JustReply, LoopTop
<1>12. ASSUME NEW c \in Conns, Reply(c) PROVE Routed'
    BY <1>12 DEF Reply, LoopTop
<1>13. ASSUME NEW c \in Conns, InputForward(c) PROVE Routed'
    BY <1>13 DEF InputForward
<1>14. ASSUME NEW c \in Conns, InputAccepted(c) PROVE Routed'
    BY <1>14 DEF InputAccepted, LoopTop
<1>15. ASSUME NEW c \in Conns, Wake(c) PROVE Routed'
    BY <1>15 DEF Wake
<1>16. ASSUME NEW c \in Conns, IdleCode(c) PROVE Routed'
    BY <1>16 DEF IdleCode
<1>17. ASSUME NEW c \in Conns, IdleEntered(c) PROVE Routed'
    BY <1>17 DEF IdleEntered
<1>18. ASSUME NEW c \in Conns, StopCode(c) PROVE Routed'
    BY <1>18 DEF StopCode
<1>19. ASSUME NEW l \in Loops, SetShutdown(l) PROVE Routed'
    BY <1>19 DEF SetShutdown
<1>20. ASSUME NEW l \in Loops, CastBegins(l) PROVE Routed'
    BY <1>20 DEF CastBegins
<1>21. ASSUME NEW l \in Loops, CastEnds(l) PROVE Routed'
    BY <1>21 DEF CastEnds
<1>22. ASSUME NEW l \in Loops, CloseListener(l) PROVE Routed'
    BY <1>22 DEF CloseListener, Crash
<1>23. ASSUME NEW l \in Loops, LockClients(l) PROVE Routed'
    BY <1>23 DEF LockClients
<1>24. ASSUME NEW l \in Loops, CloseVictim(l) PROVE Routed'
    BY <1>24 DEF CloseVictim, Crash
<1>25. ASSUME NEW l \in Loops, UnlockClients(l) PROVE Routed'
    BY <1>25 DEF UnlockClients
<1>26. ASSUME NEW l \in Loops, Effects(l) PROVE Routed'
    BY <1>26 DEF Effects
<1>27. ASSUME NEW l \in Loops, NEW n \in Names, CloseEntry(l, n) PROVE Routed'
    BY <1>27 DEF CloseEntry
<1>28. ASSUME NEW p \in Prompts, PromptTouches(p) PROVE Routed'
    BY <1>28 DEF PromptTouches
<1>29. ASSUME NEW p \in Prompts, PromptLooksUp(p) PROVE Routed'
    BY <1>29 DEF PromptLooksUp
<1>30. ASSUME NEW p \in Prompts, PromptSends(p) PROVE Routed'
    BY <1>30 DEF PromptSends
<1>31. ASSUME NEW p \in Prompts, PromptEnds(p) PROVE Routed'
    BY <1>31 DEF PromptEnds
<1>32. ASSUME Started PROVE Routed'
    BY <1>32 DEF Started
<1>33. ASSUME ReadyCastBegins PROVE Routed'
    BY <1>33 DEF ReadyCastBegins
<1>34. ASSUME ReadyCastEnds PROVE Routed'
    BY <1>34 DEF ReadyCastEnds
<1>35. ASSUME Signal PROVE Routed'
    BY <1>35 DEF Signal
<1>36. ASSUME TimerFires PROVE Routed'
    BY <1>36 DEF TimerFires
<1>37. ASSUME TimerIdles PROVE Routed'
    BY <1>37 DEF TimerIdles
<1>38. ASSUME AuditTick PROVE Routed'
    BY <1>38 DEF AuditTick
<1>39. ASSUME AuditCastBegins PROVE Routed'
    BY <1>39 DEF AuditCastBegins
<1>40. ASSUME AuditCastEnds PROVE Routed'
    BY <1>40 DEF AuditCastEnds
<1>41. ASSUME AuditStops PROVE Routed'
    BY <1>41 DEF AuditStops
<1>42. CASE UNCHANGED vars
    BY <1>42
<1> QED
    BY <1>1, <1>2, <1>3, <1>4, <1>5, <1>6, <1>7, <1>8, <1>9, <1>10, <1>11, <1>12, <1>13,
       <1>14, <1>15, <1>16, <1>17, <1>18, <1>19, <1>20, <1>21, <1>22, <1>23, <1>24,
       <1>25, <1>26, <1>27, <1>28, <1>29, <1>30, <1>31, <1>32, <1>33, <1>34, <1>35,
       <1>36, <1>37, <1>38, <1>39, <1>40, <1>41, <1>42
    DEF Next, ConnStep, HandlerStep, ShutdownStep, PromptStep, RunStep, TimerStep, AuditStep, Halted

\* The first to reach the listener closes it, and nobody else gets past it.
LEMMA OneShutdownStep == TypeOK /\ Local /\ OneShutdownActs /\ [Next]_vars => OneShutdownActs'
<1> SUFFICES ASSUME TypeOK, Local, OneShutdownActs, [Next]_vars PROVE OneShutdownActs'
    OBVIOUS
<1> USE SpecialValues
<1> USE DEF TypeOK, Local, OneShutdownActs, Loops, Goto, vars, tableVars, promptVars, sideVars
<1>1. ASSUME NEW c \in Conns, Accept(c) PROVE OneShutdownActs'
    BY <1>1 DEF Accept
<1>2. ASSUME NEW c \in Conns, Stall(c) PROVE OneShutdownActs'
    BY <1>2 DEF Stall
<1>3. ASSUME NEW c \in Conns, Hangup(c) PROVE OneShutdownActs'
    BY <1>3 DEF Hangup
<1>4. ASSUME NEW c \in Conns, Scan(c) PROVE OneShutdownActs'
    BY <1>4 DEF Scan
<1>5. ASSUME NEW c \in Conns, AddClient(c) PROVE OneShutdownActs'
    BY <1>5 DEF AddClient
<1>6. ASSUME NEW c \in Conns, ScanEnds(c) PROVE OneShutdownActs'
    BY <1>6 DEF ScanEnds
<1>7. ASSUME NEW c \in Conns, CloseChecks(c) PROVE OneShutdownActs'
    BY <1>7 DEF CloseChecks
<1>8. ASSUME NEW c \in Conns, CloseDone(c) PROVE OneShutdownActs'
    BY <1>8 DEF CloseDone, Crash
<1>9. ASSUME NEW c \in Conns, RemoveClient(c) PROVE OneShutdownActs'
    BY <1>9 DEF RemoveClient
<1>10. ASSUME NEW c \in Conns, Admit(c) PROVE OneShutdownActs'
    BY <1>10 DEF Admit
<1>11. ASSUME NEW c \in Conns, JustReply(c) PROVE OneShutdownActs'
    BY <1>11 DEF JustReply, LoopTop
<1>12. ASSUME NEW c \in Conns, Reply(c) PROVE OneShutdownActs'
    BY <1>12 DEF Reply, LoopTop
<1>13. ASSUME NEW c \in Conns, InputForward(c) PROVE OneShutdownActs'
    BY <1>13 DEF InputForward
<1>14. ASSUME NEW c \in Conns, InputAccepted(c) PROVE OneShutdownActs'
    BY <1>14 DEF InputAccepted, LoopTop
<1>15. ASSUME NEW c \in Conns, Wake(c) PROVE OneShutdownActs'
    BY <1>15 DEF Wake
<1>16. ASSUME NEW c \in Conns, IdleCode(c) PROVE OneShutdownActs'
    BY <1>16 DEF IdleCode
<1>17. ASSUME NEW c \in Conns, IdleEntered(c) PROVE OneShutdownActs'
    BY <1>17 DEF IdleEntered
<1>18. ASSUME NEW c \in Conns, StopCode(c) PROVE OneShutdownActs'
    BY <1>18 DEF StopCode
<1>19. ASSUME NEW l \in Loops, SetShutdown(l) PROVE OneShutdownActs'
    BY <1>19 DEF SetShutdown
<1>20. ASSUME NEW l \in Loops, CastBegins(l) PROVE OneShutdownActs'
    BY <1>20 DEF CastBegins
<1>21. ASSUME NEW l \in Loops, CastEnds(l) PROVE OneShutdownActs'
    BY <1>21 DEF CastEnds
<1>22. ASSUME NEW l \in Loops, CloseListener(l) PROVE OneShutdownActs'
    BY <1>22 DEF CloseListener, Crash
<1>23. ASSUME NEW l \in Loops, LockClients(l) PROVE OneShutdownActs'
    BY <1>23 DEF LockClients
<1>24. ASSUME NEW l \in Loops, CloseVictim(l) PROVE OneShutdownActs'
    BY <1>24 DEF CloseVictim, Crash
<1>25. ASSUME NEW l \in Loops, UnlockClients(l) PROVE OneShutdownActs'
    BY <1>25 DEF UnlockClients
<1>26. ASSUME NEW l \in Loops, Effects(l) PROVE OneShutdownActs'
    BY <1>26 DEF Effects
<1>27. ASSUME NEW l \in Loops, NEW n \in Names, CloseEntry(l, n) PROVE OneShutdownActs'
    BY <1>27 DEF CloseEntry
<1>28. ASSUME NEW p \in Prompts, PromptTouches(p) PROVE OneShutdownActs'
    BY <1>28 DEF PromptTouches
<1>29. ASSUME NEW p \in Prompts, PromptLooksUp(p) PROVE OneShutdownActs'
    BY <1>29 DEF PromptLooksUp
<1>30. ASSUME NEW p \in Prompts, PromptSends(p) PROVE OneShutdownActs'
    BY <1>30 DEF PromptSends
<1>31. ASSUME NEW p \in Prompts, PromptEnds(p) PROVE OneShutdownActs'
    BY <1>31 DEF PromptEnds
<1>32. ASSUME Started PROVE OneShutdownActs'
    BY <1>32 DEF Started
<1>33. ASSUME ReadyCastBegins PROVE OneShutdownActs'
    BY <1>33 DEF ReadyCastBegins
<1>34. ASSUME ReadyCastEnds PROVE OneShutdownActs'
    BY <1>34 DEF ReadyCastEnds
<1>35. ASSUME Signal PROVE OneShutdownActs'
    BY <1>35 DEF Signal
<1>36. ASSUME TimerFires PROVE OneShutdownActs'
    BY <1>36 DEF TimerFires
<1>37. ASSUME TimerIdles PROVE OneShutdownActs'
    BY <1>37 DEF TimerIdles
<1>38. ASSUME AuditTick PROVE OneShutdownActs'
    BY <1>38 DEF AuditTick
<1>39. ASSUME AuditCastBegins PROVE OneShutdownActs'
    BY <1>39 DEF AuditCastBegins
<1>40. ASSUME AuditCastEnds PROVE OneShutdownActs'
    BY <1>40 DEF AuditCastEnds
<1>41. ASSUME AuditStops PROVE OneShutdownActs'
    BY <1>41 DEF AuditStops
<1>42. CASE UNCHANGED vars
    BY <1>42
<1> QED
    BY <1>1, <1>2, <1>3, <1>4, <1>5, <1>6, <1>7, <1>8, <1>9, <1>10, <1>11, <1>12, <1>13,
       <1>14, <1>15, <1>16, <1>17, <1>18, <1>19, <1>20, <1>21, <1>22, <1>23, <1>24,
       <1>25, <1>26, <1>27, <1>28, <1>29, <1>30, <1>31, <1>32, <1>33, <1>34, <1>35,
       <1>36, <1>37, <1>38, <1>39, <1>40, <1>41, <1>42
    DEF Next, ConnStep, HandlerStep, ShutdownStep, PromptStep, RunStep, TimerStep, AuditStep, Halted

\* IInv is an invariant.
THEOREM Invariance == Spec => []IInv
<1>1. Init => IInv
    BY InvInit
<1>2. IInv /\ [Next]_vars => IInv'
    BY TypeStep, LocalStep, CrashStep, EntryStep, ReachableStep, ProcessingStep,
       RoutedStep, OneShutdownStep
    DEF IInv
<1> QED
    BY <1>1, <1>2, PTL DEF Spec

\* Every variable has its type.
THEOREM TypeCorrect == Spec => []TypeOK
<1>1. IInv => TypeOK
    BY DEF IInv
<1> QED
    BY <1>1, Invariance, PTL

\* Clients that come, go and share names never take the daemon down.
THEOREM OnlyShutdownCrashes == Spec => []CrashOnlyInShutdown
<1>1. IInv => CrashOnlyInShutdown
    BY DEF IInv
<1> QED
    BY <1>1, Invariance, PTL

\* An entry of the client table is a connection of that name that is still there.
THEOREM EntriesAreAlive == Spec => []NoDeadClientEntry
<1>1. IInv => NoDeadClientEntry
    BY DEF IInv
<1> QED
    BY <1>1, Invariance, PTL

\* A named connection is reachable unless another one has used its name.
THEOREM NamedAreReachable == Spec => []ReachableUnlessDuplicate
<1>1. IInv => ReachableUnlessDuplicate
    BY DEF IInv
<1> QED
    BY <1>1, Invariance, PTL

\* The state is never left at processing without a prompt.
THEOREM ProcessingIsWork == Spec => []ProcessingHasPrompt
<1>1. IInv => ProcessingHasPrompt
    BY DEF IInv
<1> QED
    BY <1>1, Invariance, PTL

\* An answer is only sent to a connection of its sender's name, whoever comes, goes
\* and takes over names in between.
THEOREM AnswersAreRouted == Spec => []AnswerGoesToItsName
<1>1. IInv => AnswerGoesToItsName
    BY DEF IInv, Routed
<1> QED
    BY <1>1, Invariance, PTL

\* Of any number of shutdowns one has effects.
THEOREM ShutdownActsOnce == Spec => []OneShutdownActs
<1>1. IInv => OneShutdownActs
    BY DEF IInv
<1> QED
    BY <1>1, Invariance, PTL
=============================================================================
