-------------------------- MODULE MCPManagerProofs --------------------------
(***************************************************************************)
(* Proofs about MCPManager, for every set of names, chains, tools,         *)
(* invokers, handlers and closers.                                         *)
(***************************************************************************)
EXTENDS MCPManager, TLAPS

\* The initial state has its types.
LEMMA TypeInit == Init => TypeOK
  BY NameOfType, SpecialObjs, Goroutines DEF Init, TypeOK, Writers

\* Every step keeps the types.
LEMMA TypeStep == TypeOK /\ [Next]_vars => TypeOK'
<1> SUFFICES ASSUME TypeOK, [Next]_vars PROVE TypeOK'
    OBVIOUS
<1> USE NameOfType, SpecialObjs, Goroutines
<1> USE DEF TypeOK, Writers, tableVars, chainVars, invokeVars, outerVars
<1>1. ASSUME NEW g \in Writers, Announce(g) PROVE TypeOK'
    BY <1>1 DEF Announce
<1>2. ASSUME NEW o \in Objs, SpawnAtStartup(o) PROVE TypeOK'
    BY <1>2 DEF SpawnAtStartup
<1>3. ASSUME NEW o \in Objs, Start(o) PROVE TypeOK'
    BY <1>3 DEF Start
<1>4. ASSUME NEW o \in Objs, StartFails(o) PROVE TypeOK'
    BY <1>4 DEF StartFails
<1>5. ASSUME NEW o \in Objs, RegisterProcess(o) PROVE TypeOK'
    BY <1>5 DEF RegisterProcess, WriteLocked
<1>6. ASSUME NEW o \in Objs, Discover(o) PROVE TypeOK'
    BY <1>6 DEF Discover
<1>7. ASSUME NEW o \in Objs, DiscoverEOF(o) PROVE TypeOK'
    BY <1>7 DEF DiscoverEOF
<1>8. ASSUME NEW o \in Objs, ProcessExit(o) PROVE TypeOK'
    BY <1>8 DEF ProcessExit
<1>9. ASSUME NEW o \in Objs, WatcherReaps(o) PROVE TypeOK'
    BY <1>9 DEF WatcherReaps
<1>10. ASSUME NEW o \in Objs, Reap(o) PROVE TypeOK'
    BY <1>10 DEF Reap
<1>11. ASSUME NEW o \in Objs, Deactivate(o) PROVE TypeOK'
    BY <1>11 DEF Deactivate
<1>12. ASSUME NEW o \in Objs, UnregisterSelf(o) PROVE TypeOK'
    BY <1>12 DEF UnregisterSelf, WriteLocked, RemoveEntry
<1>13. ASSUME NEW o \in Objs, Decide(o) PROVE TypeOK'
    BY <1>13 DEF Decide
<1>14. ASSUME NEW o \in Objs, NEW new \in Objs, HealthTick(o, new) PROVE TypeOK'
    BY <1>14 DEF HealthTick
<1>15. ASSUME NEW i \in Invokers, CallTool(i) PROVE TypeOK'
    BY <1>15 DEF CallTool
<1>16. ASSUME NEW i \in Invokers, InvokeResolve(i) PROVE TypeOK'
    BY <1>16 DEF InvokeResolve
<1>17. ASSUME NEW i \in Invokers, InvokeNotFound(i) PROVE TypeOK'
    BY <1>17 DEF InvokeNotFound, Return
<1>18. ASSUME NEW i \in Invokers, InvokeSend(i) PROVE TypeOK'
    BY <1>18 DEF InvokeSend
<1>19. ASSUME NEW i \in Invokers, InvokeSendFails(i) PROVE TypeOK'
    BY <1>19 DEF InvokeSendFails, Return
<1>20. ASSUME NEW i \in Invokers, InvokeNilStdin(i) PROVE TypeOK'
    BY <1>20 DEF InvokeNilStdin
<1>21. ASSUME NEW i \in Invokers, InvokeReply(i) PROVE TypeOK'
    BY <1>21 DEF InvokeReply, Return
<1>22. ASSUME NEW i \in Invokers, InvokeMalformed(i) PROVE TypeOK'
    BY <1>22 DEF InvokeMalformed
<1>23. ASSUME NEW i \in Invokers, InvokeEOF(i) PROVE TypeOK'
    BY <1>23 DEF InvokeEOF, Return
<1>24. ASSUME NEW h \in Handlers, Request(h) PROVE TypeOK'
    BY <1>24 DEF Request
<1>25. ASSUME NEW h \in Handlers, RegisterExisting(h) PROVE TypeOK'
    BY <1>25 DEF RegisterExisting, WriteLocked
<1>26. ASSUME NEW h \in Handlers, RegisterRemote(h) PROVE TypeOK'
    BY <1>26 DEF RegisterRemote, WriteLocked
<1>27. ASSUME NEW h \in Handlers, UnregisterNamed(h) PROVE TypeOK'
    BY <1>27 DEF UnregisterNamed, WriteLocked, RemoveEntry
<1>28. ASSUME NEW c \in Closers, IdleCode(c) PROVE TypeOK'
    BY <1>28 DEF IdleCode
<1>29. ASSUME NEW c \in Closers, StopCode(c) PROVE TypeOK'
    BY <1>29 DEF StopCode
<1>30. ASSUME NEW c \in Closers, ShutdownAll(c) PROVE TypeOK'
    BY <1>30 DEF ShutdownAll, WriteLocked, AfterShutdownAll
<1>31. ASSUME NEW c \in Closers, EnterIdle(c) PROVE TypeOK'
    BY <1>31 DEF EnterIdle
<1>32. ASSUME NEW c \in Closers, EnterShutdown(c) PROVE TypeOK'
    BY <1>32 DEF EnterShutdown
<1>33. ASSUME Signal PROVE TypeOK'
    BY <1>33 DEF Signal
<1>34. ASSUME StateChanges PROVE TypeOK'
    BY <1>34 DEF StateChanges
<1>35. ASSUME Exit PROVE TypeOK'
    BY <1>35 DEF Exit
<1>36. ASSUME Halted PROVE TypeOK'
    BY <1>36 DEF Halted, vars
<1>37. ASSUME UNCHANGED vars PROVE TypeOK'
    BY <1>37 DEF vars
<1> QED
    BY <1>1, <1>2, <1>3, <1>4, <1>5, <1>6, <1>7, <1>8, <1>9, <1>10, <1>11,
       <1>12, <1>13, <1>14, <1>15, <1>16, <1>17, <1>18, <1>19, <1>20, <1>21,
       <1>22, <1>23, <1>24, <1>25, <1>26, <1>27, <1>28, <1>29, <1>30, <1>31,
       <1>32, <1>33, <1>34, <1>35, <1>36, <1>37
    DEF Next, ChainStep, InvokeStep, HandlerStep, CloserStep

-----------------------------------------------------------------------------
(* The inductive invariant.  The safety properties of the table are not    *)
(* inductive by themselves: that discovery and Invoke meet only after an   *)
(* mcp_register needs to know that an object has no tools before its       *)
(* discovery unless a registration gave it some, and that an Invoke call   *)
(* inherits that from the moment it resolves its server; that a fresh      *)
(* entry is active, that nobody can deactivate an object before its chain  *)
(* has registered it.                                                      *)

ToolsBeforeDiscovery ==
    \A o \in Objs : task[o] \in {"free", "start", "register", "discover"} =>
        tools[o] = {} \/ conn[o]

ReadingInDiscovery ==
    \A i \in Invokers, o \in Objs :
        Reading(i) /\ target[i] = o /\ task[o] = "discover" => conn[o]

ActiveWhenRegistered == \A o \in Objs : task[o] = "register" => active[o]

TableInv ==
    /\ NoStaleEntry
    /\ InactiveEntryLeaves
    /\ InvokePinsEntry
    /\ ActiveWhenRegistered
    /\ ToolsBeforeDiscovery
    /\ ReadingInDiscovery

\* The table is empty at first.
LEMMA TableInit == Init => TableInv
  BY SpecialObjs DEF Init, TableInv, NoStaleEntry, InactiveEntryLeaves,
     InvokePinsEntry,
     ActiveWhenRegistered, ToolsBeforeDiscovery, ReadingInDiscovery, Reading

\* Every step of a chain, a call, a client or a code keeps the invariant.
LEMMA TableStep == TypeOK /\ TableInv /\ [Next]_vars => TableInv'
<1> SUFFICES ASSUME TypeOK, TypeOK', TableInv, [Next]_vars PROVE TableInv'
    BY TypeStep
<1> USE NameOfType, SpecialObjs
<1> USE DEF tableVars, chainVars, invokeVars, outerVars, TypeOK,
        TableInv, NoStaleEntry, InactiveEntryLeaves, InvokePinsEntry,
        ActiveWhenRegistered, ToolsBeforeDiscovery, ReadingInDiscovery, Reading, NoReaders
<1>1. ASSUME NEW g \in Writers, Announce(g) PROVE TableInv'
    BY <1>1 DEF Announce
<1>2. ASSUME NEW o \in Objs, SpawnAtStartup(o) PROVE TableInv'
    BY <1>2 DEF SpawnAtStartup
<1>3. ASSUME NEW o \in Objs, Start(o) PROVE TableInv'
    BY <1>3 DEF Start
<1>4. ASSUME NEW o \in Objs, StartFails(o) PROVE TableInv'
    BY <1>4 DEF StartFails
<1>5. ASSUME NEW o \in Objs, RegisterProcess(o) PROVE TableInv'
  \* No Invoke call is inside, and the new entry's object is active.
  <2>1. NoStaleEntry'
      BY <1>5 DEF RegisterProcess, WriteLocked
  <2>2. InactiveEntryLeaves'
      BY <1>5 DEF RegisterProcess, WriteLocked
  <2>3. InvokePinsEntry' /\ ReadingInDiscovery'
      BY <1>5 DEF RegisterProcess, WriteLocked
  <2>4. ActiveWhenRegistered' /\ ToolsBeforeDiscovery'
      BY <1>5 DEF RegisterProcess, WriteLocked
  <2> QED
      BY <2>1, <2>2, <2>3, <2>4 DEF TableInv
<1>6. ASSUME NEW o \in Objs, Discover(o) PROVE TableInv'
    BY <1>6 DEF Discover
<1>7. ASSUME NEW o \in Objs, DiscoverEOF(o) PROVE TableInv'
    BY <1>7 DEF DiscoverEOF
<1>8. ASSUME NEW o \in Objs, ProcessExit(o) PROVE TableInv'
    BY <1>8 DEF ProcessExit
<1>9. ASSUME NEW o \in Objs, WatcherReaps(o) PROVE TableInv'
    BY <1>9 DEF WatcherReaps
<1>10. ASSUME NEW o \in Objs, Reap(o) PROVE TableInv'
    BY <1>10 DEF Reap
<1>11. ASSUME NEW o \in Objs, Deactivate(o) PROVE TableInv'
    BY <1>11 DEF Deactivate
<1>12. ASSUME NEW o \in Objs, UnregisterSelf(o) PROVE TableInv'
  \* The object deactivated is the name's entry, hence one already registered.
  <2>1. NoStaleEntry'
      BY <1>12 DEF UnregisterSelf, WriteLocked, RemoveEntry
  <2>2. InactiveEntryLeaves'
      BY <1>12 DEF UnregisterSelf, WriteLocked, RemoveEntry
  <2>3. InvokePinsEntry' /\ ReadingInDiscovery'
      BY <1>12 DEF UnregisterSelf, WriteLocked, RemoveEntry
  <2>4. ActiveWhenRegistered'
      BY <1>12 DEF UnregisterSelf, WriteLocked, RemoveEntry
  <2>5. ToolsBeforeDiscovery'
      BY <1>12 DEF UnregisterSelf, WriteLocked, RemoveEntry
  <2> QED
      BY <2>1, <2>2, <2>3, <2>4, <2>5 DEF TableInv
<1>13. ASSUME NEW o \in Objs, Decide(o) PROVE TableInv'
  \* The object is in no entry any more, so no call holds it.
  <2>1. NoStaleEntry' /\ InactiveEntryLeaves'
      BY <1>13 DEF Decide
  <2>2. InvokePinsEntry' /\ ReadingInDiscovery'
      BY <1>13 DEF Decide
  <2>3. ActiveWhenRegistered' /\ ToolsBeforeDiscovery'
      BY <1>13 DEF Decide
  <2> QED
      BY <2>1, <2>2, <2>3 DEF TableInv
<1>14. ASSUME NEW o \in Objs, NEW new \in Objs, HealthTick(o, new) PROVE TableInv'
    BY <1>14 DEF HealthTick
<1>15. ASSUME NEW i \in Invokers, CallTool(i) PROVE TableInv'
    BY <1>15 DEF CallTool
<1>16. ASSUME NEW i \in Invokers, InvokeResolve(i) PROVE TableInv'
  \* An object that offers a tool before its discovery was registered by a client.
  <2>1. NoStaleEntry' /\ InactiveEntryLeaves' /\ ActiveWhenRegistered' /\ ToolsBeforeDiscovery'
      BY <1>16 DEF InvokeResolve, Offers, Usable
  <2>2. InvokePinsEntry'
      BY <1>16 DEF InvokeResolve, Offers, Usable
  <2>3. ReadingInDiscovery'
      BY <1>16 DEF InvokeResolve, Offers, Usable
  <2> QED
      BY <2>1, <2>2, <2>3 DEF TableInv
<1>17. ASSUME NEW i \in Invokers, InvokeNotFound(i) PROVE TableInv'
    BY <1>17 DEF InvokeNotFound, Return
<1>18. ASSUME NEW i \in Invokers, InvokeSend(i) PROVE TableInv'
    BY <1>18 DEF InvokeSend
<1>19. ASSUME NEW i \in Invokers, InvokeSendFails(i) PROVE TableInv'
    BY <1>19 DEF InvokeSendFails, Return
<1>20. ASSUME NEW i \in Invokers, InvokeNilStdin(i) PROVE TableInv'
    BY <1>20 DEF InvokeNilStdin
<1>21. ASSUME NEW i \in Invokers, InvokeReply(i) PROVE TableInv'
    BY <1>21 DEF InvokeReply, Return
<1>22. ASSUME NEW i \in Invokers, InvokeMalformed(i) PROVE TableInv'
    BY <1>22 DEF InvokeMalformed
<1>23. ASSUME NEW i \in Invokers, InvokeEOF(i) PROVE TableInv'
    BY <1>23 DEF InvokeEOF, Return
<1>24. ASSUME NEW h \in Handlers, Request(h) PROVE TableInv'
    BY <1>24 DEF Request
<1>25. ASSUME NEW h \in Handlers, RegisterExisting(h) PROVE TableInv'
    BY <1>25 DEF RegisterExisting, WriteLocked
<1>26. ASSUME NEW h \in Handlers, RegisterRemote(h) PROVE TableInv'
    BY <1>26 DEF RegisterRemote, WriteLocked
<1>27. ASSUME NEW h \in Handlers, UnregisterNamed(h) PROVE TableInv'
    BY <1>27 DEF UnregisterNamed, WriteLocked, RemoveEntry
<1>28. ASSUME NEW c \in Closers, IdleCode(c) PROVE TableInv'
    BY <1>28 DEF IdleCode
<1>29. ASSUME NEW c \in Closers, StopCode(c) PROVE TableInv'
    BY <1>29 DEF StopCode
<1>30. ASSUME NEW c \in Closers, ShutdownAll(c) PROVE TableInv'
  \* The table is empty and no Invoke call is inside.
  <2>1. NoStaleEntry' /\ InactiveEntryLeaves'
      BY <1>30 DEF ShutdownAll, WriteLocked, AfterShutdownAll
  <2>2. InvokePinsEntry' /\ ReadingInDiscovery'
      BY <1>30 DEF ShutdownAll, WriteLocked, AfterShutdownAll
  <2>3. ActiveWhenRegistered' /\ ToolsBeforeDiscovery'
      BY <1>30 DEF ShutdownAll, WriteLocked, AfterShutdownAll
  <2> QED
      BY <2>1, <2>2, <2>3 DEF TableInv
<1>31. ASSUME NEW c \in Closers, EnterIdle(c) PROVE TableInv'
    BY <1>31 DEF EnterIdle
<1>32. ASSUME NEW c \in Closers, EnterShutdown(c) PROVE TableInv'
    BY <1>32 DEF EnterShutdown
<1>33. ASSUME Signal PROVE TableInv'
    BY <1>33 DEF Signal
<1>34. ASSUME StateChanges PROVE TableInv'
    BY <1>34 DEF StateChanges
<1>35. ASSUME Exit PROVE TableInv'
    BY <1>35 DEF Exit
<1>36. ASSUME Halted PROVE TableInv'
    BY <1>36 DEF Halted, vars
<1>37. ASSUME UNCHANGED vars PROVE TableInv'
    BY <1>37 DEF vars
<1> QED
    BY <1>1, <1>2, <1>3, <1>4, <1>5, <1>6, <1>7, <1>8, <1>9, <1>10, <1>11,
       <1>12, <1>13, <1>14, <1>15, <1>16, <1>17, <1>18, <1>19, <1>20, <1>21,
       <1>22, <1>23, <1>24, <1>25, <1>26, <1>27, <1>28, <1>29, <1>30, <1>31,
       <1>32, <1>33, <1>34, <1>35, <1>36, <1>37
    DEF Next, ChainStep, InvokeStep, HandlerStep, CloserStep

-----------------------------------------------------------------------------
(* The theorems                                                            *)

\* Every variable of the manager keeps its type in every behaviour.
THEOREM TypeCorrect == Spec => []TypeOK
<1>1. Init => TypeOK
    BY TypeInit
<1>2. TypeOK /\ [Next]_vars => TypeOK'
    BY TypeStep
<1> QED
    BY <1>1, <1>2, PTL DEF Spec

\* The inductive invariant holds in every behaviour.
THEOREM TableSafe == Spec => []TableInv
<1>1. Init => TableInv
    BY TableInit
<1>2. TypeOK /\ TableInv /\ [Next]_vars => TableInv'
    BY TableStep
<1> QED
    BY <1>1, <1>2, TypeCorrect, PTL DEF Spec

\* RegisterProcess, Unregister, Wait and ShutdownAll never leave an entry for an
\* object that is not running under that name.
THEOREM EntriesAreCurrent == Spec => []NoStaleEntry
<1>1. TableInv => NoStaleEntry
    BY DEF TableInv
<1> QED
    BY <1>1, TableSafe, PTL

\* An entry is inactive only between its chain's Wait and its Unregister.
THEOREM InactiveEntriesLeave == Spec => []InactiveEntryLeaves
<1>1. TableInv => InactiveEntryLeaves
    BY DEF TableInv
<1> QED
    BY <1>1, TableSafe, PTL

\* No server is replaced, removed or restarted under an Invoke call.
THEOREM InvokeIsPinned == Spec => []InvokePinsEntry
<1>1. TableInv => InvokePinsEntry
    BY DEF TableInv
<1> QED
    BY <1>1, TableSafe, PTL

\* DiscoverTools and Invoke read one stdout together only after an mcp_register.
THEOREM DiscoveryReadsAlone == Spec => []StdoutSharedOnlyAfterRegister
<1>1. TableInv => StdoutSharedOnlyAfterRegister
    BY DEF TableInv, ReadingInDiscovery, StdoutSharedOnlyAfterRegister, Reading
<1> QED
    BY <1>1, TableSafe, PTL
=============================================================================
