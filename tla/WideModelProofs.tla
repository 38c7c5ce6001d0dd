-------------------------- MODULE WideModelProofs --------------------------
(***************************************************************************)
(* Proofs about WideModel, for every set of slots and of packages.         *)
(***************************************************************************)
EXTENDS WideModel, TLAPS

\* What the constants are to each other.
LEMMA Names ==
    /\ Registered \subseteq Routable
    /\ NoModel \in Routable /\ NoModel \notin Registered
    /\ Default \notin Routable
    /\ Nobody \notin Slots
  BY SpecialValues DEF Registered, Routable

-----------------------------------------------------------------------------
(* The inductive invariant                                                 *)

\* Where a slot can be with which goal, and that an answer to a load or an unload
\* that the engine has not overtaken says what the engine has.
Places ==
    \A w \in Slots :
        /\ pc[w] = "load" => goal[w] \in Registered \cup {Default}
        /\ pc[w] = "unload" /\ job[w] = "prompt" => goal[w] \in Registered
        /\ pc[w] = "prompt" => goal[w] \in Registered
        /\ pc[w] = "pick" => job[w] = "boot"
        /\ pc[w] = "route" => job[w] = "prompt"
        /\ job[w] = "prompt" => goal[w] # Default
        /\ wire[w] # "none" => pc[w] \in {"unload", "load", "ask", "bind"}
        /\ wire[w] = "ok" /\ pc[w] \in {"unload", "load"} /\ lastChange = w =>
              engine = Asked(w)
        /\ w \in settled => job[w] = "prompt"

\* A model is only named when one is recorded.
Named == ~loaded => id = NoModel

IInv ==
    TypeOK /\ Places /\ Named /\ RecordTruthful /\ RoutedPromptGetsItsModel
        /\ NamedModelHasPrompt

\* The initial states satisfy the invariant.
LEMMA InvInit == Init => IInv
  BY ZenonT(40), Names DEF Init, IInv, TypeOK, Places, Named, RecordTruthful, LoadedModelID,
     RoutedPromptGetsItsModel, NamedModelHasPrompt, Models

\* Every step keeps the types.
LEMMA TypeStep == TypeOK /\ Places /\ [Next]_vars => TypeOK'
<1> SUFFICES ASSUME TypeOK, Places, [Next]_vars PROVE TypeOK'
    OBVIOUS
<1> USE Names
<1> USE DEF TypeOK, Places, Models, At, End, Asked, record, prompts, history
<1>1. ASSUME NEW w \in Slots, BootPicks(w) PROVE TypeOK'
    BY <1>1 DEF BootPicks
<1>2. ASSUME NEW w \in Slots, PromptRouted(w) PROVE TypeOK'
    BY <1>2 DEF PromptRouted, Begin
<1>3. ASSUME NEW w \in Slots, LoadRequested(w) PROVE TypeOK'
    BY <1>3 DEF LoadRequested, Begin
<1>4. ASSUME NEW w \in Slots, UnloadRequested(w) PROVE TypeOK'
    BY <1>4 DEF UnloadRequested, Begin
<1>5. ASSUME NEW w \in Slots, TuneFinalized(w) PROVE TypeOK'
    BY <1>5 DEF TuneFinalized, Begin
<1>6. ASSUME NEW w \in Slots, Swap(w) PROVE TypeOK'
    BY <1>6 DEF Swap, Post, Skips, LoadedModelID
<1>7. ASSUME NEW w \in Slots, EngineChanges(w) PROVE TypeOK'
    BY <1>7 DEF EngineChanges, Becomes
<1>8. ASSUME NEW w \in Slots, EngineAnswers(w) PROVE TypeOK'
    BY <1>8 DEF EngineAnswers, Becomes
<1>9. ASSUME NEW w \in Slots, EngineRefuses(w) PROVE TypeOK'
    BY <1>9 DEF EngineRefuses
<1>10. ASSUME NEW w \in Slots, Unloaded(w) PROVE TypeOK'
    BY ZenonT(40), <1>10 DEF Unloaded, Forget, AfterUnload, Post
<1>11. ASSUME NEW w \in Slots, Loaded(w) PROVE TypeOK'
  <2>1. loaded' \in BOOLEAN /\ known' \in BOOLEAN /\ bare' \in BOOLEAN
      BY Zenon, <1>11 DEF Loaded
  <2>2. id' \in Registered \cup {NoModel} /\ settled' \subseteq Slots
      BY <1>11 DEF Loaded, IdOf
  <2>3. /\ pc' \in [Slots -> {"free", "pick", "route", "unload", "load", "prompt", "ask", "bind"}]
        /\ wire' \in [Slots -> {"none", "sent", "ok", "refused"}]
        /\ job' \in [Slots -> {"none", "boot", "prompt", "load", "unload", "tune"}]
        /\ goal' \in [Slots -> Models \cup Routable]
      BY <1>11 DEF Loaded
  <2>4. UNCHANGED <<engine, sysPrompt, untried, late, lastChange>>
      BY <1>11 DEF Loaded
  <2> QED
      BY <2>1, <2>2, <2>3, <2>4
<1>12. ASSUME NEW w \in Slots, LoadRefused(w) PROVE TypeOK'
    BY <1>12 DEF LoadRefused, AfterFailedLoad, Post
<1>13. ASSUME NEW w \in Slots, SetSystemPrompt(w) PROVE TypeOK'
  <2>1. sysPrompt' \in BOOLEAN /\ bare' \in BOOLEAN
      BY Zenon, <1>13 DEF SetSystemPrompt
  <2>2. /\ pc' \in [Slots -> {"free", "pick", "route", "unload", "load", "prompt", "ask", "bind"}]
        /\ wire' \in [Slots -> {"none", "sent", "ok", "refused"}]
        /\ job' \in [Slots -> {"none", "boot", "prompt", "load", "unload", "tune"}]
        /\ goal' \in [Slots -> Models \cup Routable]
      BY <1>13 DEF SetSystemPrompt, Post
  <2>3. UNCHANGED <<engine, record, untried, late, history>>
      BY <1>13 DEF SetSystemPrompt
  <2> QED
      BY <2>1, <2>2, <2>3
<1>14. ASSUME NEW w \in Slots, Generated(w) PROVE TypeOK'
    BY <1>14 DEF Generated, Post
<1>15. ASSUME NEW w \in Slots, JustEnds(w) PROVE TypeOK'
    BY <1>15 DEF JustEnds
<1>16. ASSUME NEW w \in Slots, GivesUp(w) PROVE TypeOK'
    BY <1>16 DEF GivesUp, AfterUnload, AfterFailedLoad, Post
<1>17. ASSUME EngineServesLate PROVE TypeOK'
    BY <1>17 DEF EngineServesLate, Becomes
<1>18. ASSUME EngineLosesModel PROVE TypeOK'
    BY <1>18 DEF EngineLosesModel, Becomes
<1>19. CASE UNCHANGED vars
    BY <1>19 DEF vars
<1> QED
    BY <1>1, <1>2, <1>3, <1>4, <1>5, <1>6, <1>7, <1>8, <1>9, <1>10, <1>11, <1>12, <1>13, <1>14, <1>15, <1>16, <1>17, <1>18, <1>19 DEF Next, JobStep, EngineStep, ClientStep

\* Every step keeps goals, places and answers together.
LEMMA PlacesStep == TypeOK /\ Places /\ RoutedPromptGetsItsModel /\ [Next]_vars => Places'
<1> SUFFICES ASSUME TypeOK, Places, RoutedPromptGetsItsModel, [Next]_vars PROVE Places'
    OBVIOUS
<1> USE Names
<1> USE DEF TypeOK, Places, RoutedPromptGetsItsModel, Models, At, End, Asked, record, prompts, history
<1>1. ASSUME NEW w \in Slots, BootPicks(w) PROVE Places'
    BY <1>1 DEF BootPicks
<1>2. ASSUME NEW w \in Slots, PromptRouted(w) PROVE Places'
    BY <1>2 DEF PromptRouted, Begin
<1>3. ASSUME NEW w \in Slots, LoadRequested(w) PROVE Places'
    BY <1>3 DEF LoadRequested, Begin
<1>4. ASSUME NEW w \in Slots, UnloadRequested(w) PROVE Places'
    BY <1>4 DEF UnloadRequested, Begin
<1>5. ASSUME NEW w \in Slots, TuneFinalized(w) PROVE Places'
    BY <1>5 DEF TuneFinalized, Begin
<1>6. ASSUME NEW w \in Slots, Swap(w) PROVE Places'
    BY <1>6 DEF Swap, Post, Skips, LoadedModelID
<1>7. ASSUME NEW w \in Slots, EngineChanges(w) PROVE Places'
    BY <1>7 DEF EngineChanges, Becomes
<1>8. ASSUME NEW w \in Slots, EngineAnswers(w) PROVE Places'
    BY <1>8 DEF EngineAnswers, Becomes
<1>9. ASSUME NEW w \in Slots, EngineRefuses(w) PROVE Places'
    BY <1>9 DEF EngineRefuses
<1>10. ASSUME NEW w \in Slots, Unloaded(w) PROVE Places'
    BY <1>10 DEF Unloaded, Forget, AfterUnload, Post
<1>11. ASSUME NEW w \in Slots, Loaded(w) PROVE Places'
    BY <1>11 DEF Loaded, IdOf, PromptFollows
<1>12. ASSUME NEW w \in Slots, LoadRefused(w) PROVE Places'
    BY <1>12 DEF LoadRefused, AfterFailedLoad, Post
<1>13. ASSUME NEW w \in Slots, SetSystemPrompt(w) PROVE Places'
    BY <1>13 DEF SetSystemPrompt, Post
<1>14. ASSUME NEW w \in Slots, Generated(w) PROVE Places'
    BY <1>14 DEF Generated, Post
<1>15. ASSUME NEW w \in Slots, JustEnds(w) PROVE Places'
    BY <1>15 DEF JustEnds
<1>16. ASSUME NEW w \in Slots, GivesUp(w) PROVE Places'
    BY <1>16 DEF GivesUp, AfterUnload, AfterFailedLoad, Post
<1>17. ASSUME EngineServesLate PROVE Places'
    BY <1>17 DEF EngineServesLate, Becomes
<1>18. ASSUME EngineLosesModel PROVE Places'
    BY <1>18 DEF EngineLosesModel, Becomes
<1>19. CASE UNCHANGED vars
    BY <1>19 DEF vars
<1> QED
    BY <1>1, <1>2, <1>3, <1>4, <1>5, <1>6, <1>7, <1>8, <1>9, <1>10, <1>11, <1>12, <1>13, <1>14, <1>15, <1>16, <1>17, <1>18, <1>19 DEF Next, JobStep, EngineStep, ClientStep

\* Every step keeps the record true, an answer's as well as a forgotten one's.
LEMMA RecordStep ==
    TypeOK /\ Places /\ Named /\ RecordTruthful /\ [Next]_vars => Named' /\ RecordTruthful'
<1> SUFFICES ASSUME TypeOK, Places, Named, RecordTruthful, [Next]_vars
             PROVE (Named /\ RecordTruthful)'
    OBVIOUS
<1> USE Names
<1> USE DEF TypeOK, Places, Named, RecordTruthful, LoadedModelID, At, End, Asked, record, prompts, history
<1>1. ASSUME NEW w \in Slots, BootPicks(w) PROVE (Named /\ RecordTruthful)'
    BY <1>1 DEF BootPicks
<1>2. ASSUME NEW w \in Slots, PromptRouted(w) PROVE (Named /\ RecordTruthful)'
    BY <1>2 DEF PromptRouted, Begin
<1>3. ASSUME NEW w \in Slots, LoadRequested(w) PROVE (Named /\ RecordTruthful)'
    BY <1>3 DEF LoadRequested, Begin
<1>4. ASSUME NEW w \in Slots, UnloadRequested(w) PROVE (Named /\ RecordTruthful)'
    BY <1>4 DEF UnloadRequested, Begin
<1>5. ASSUME NEW w \in Slots, TuneFinalized(w) PROVE (Named /\ RecordTruthful)'
    BY <1>5 DEF TuneFinalized, Begin
<1>6. ASSUME NEW w \in Slots, Swap(w) PROVE (Named /\ RecordTruthful)'
    BY <1>6 DEF Swap, Post, Skips, LoadedModelID
<1>7. ASSUME NEW w \in Slots, EngineChanges(w) PROVE (Named /\ RecordTruthful)'
    BY <1>7 DEF EngineChanges, Becomes
<1>8. ASSUME NEW w \in Slots, EngineAnswers(w) PROVE (Named /\ RecordTruthful)'
    BY <1>8 DEF EngineAnswers, Becomes
<1>9. ASSUME NEW w \in Slots, EngineRefuses(w) PROVE (Named /\ RecordTruthful)'
    BY <1>9 DEF EngineRefuses
<1>10. ASSUME NEW w \in Slots, Unloaded(w) PROVE (Named /\ RecordTruthful)'
    BY <1>10 DEF Unloaded, Forget, AfterUnload, Post
<1>11. ASSUME NEW w \in Slots, Loaded(w) PROVE (Named /\ RecordTruthful)'
    BY <1>11 DEF Loaded, IdOf, PromptFollows
<1>12. ASSUME NEW w \in Slots, LoadRefused(w) PROVE (Named /\ RecordTruthful)'
    BY <1>12 DEF LoadRefused, AfterFailedLoad, Post
<1>13. ASSUME NEW w \in Slots, SetSystemPrompt(w) PROVE (Named /\ RecordTruthful)'
    BY <1>13 DEF SetSystemPrompt, Post
<1>14. ASSUME NEW w \in Slots, Generated(w) PROVE (Named /\ RecordTruthful)'
    BY <1>14 DEF Generated, Post
<1>15. ASSUME NEW w \in Slots, JustEnds(w) PROVE (Named /\ RecordTruthful)'
    BY <1>15 DEF JustEnds
<1>16. ASSUME NEW w \in Slots, GivesUp(w) PROVE (Named /\ RecordTruthful)'
    BY <1>16 DEF GivesUp, AfterUnload, AfterFailedLoad, Post
<1>17. ASSUME EngineServesLate PROVE (Named /\ RecordTruthful)'
    BY <1>17 DEF EngineServesLate, Becomes
<1>18. ASSUME EngineLosesModel PROVE (Named /\ RecordTruthful)'
    BY <1>18 DEF EngineLosesModel, Becomes
<1>19. CASE UNCHANGED vars
    BY <1>19 DEF vars
<1> QED
    BY <1>1, <1>2, <1>3, <1>4, <1>5, <1>6, <1>7, <1>8, <1>9, <1>10, <1>11, <1>12, <1>13, <1>14, <1>15, <1>16, <1>17, <1>18, <1>19 DEF Next, JobStep, EngineStep, ClientStep

\* Every step leaves a settled prompt with its model.
LEMMA RoutedStep ==
    TypeOK /\ Places /\ RecordTruthful /\ RoutedPromptGetsItsModel /\ [Next]_vars
        => RoutedPromptGetsItsModel'
<1> SUFFICES ASSUME TypeOK, Places, RecordTruthful, RoutedPromptGetsItsModel, [Next]_vars
             PROVE RoutedPromptGetsItsModel'
    OBVIOUS
<1> USE Names
<1> USE DEF TypeOK, Places, RecordTruthful, RoutedPromptGetsItsModel, LoadedModelID, At, End,
        Asked, record, prompts, history
<1>1. ASSUME NEW w \in Slots, BootPicks(w) PROVE RoutedPromptGetsItsModel'
    BY <1>1 DEF BootPicks
<1>2. ASSUME NEW w \in Slots, PromptRouted(w) PROVE RoutedPromptGetsItsModel'
    BY <1>2 DEF PromptRouted, Begin
<1>3. ASSUME NEW w \in Slots, LoadRequested(w) PROVE RoutedPromptGetsItsModel'
    BY <1>3 DEF LoadRequested, Begin
<1>4. ASSUME NEW w \in Slots, UnloadRequested(w) PROVE RoutedPromptGetsItsModel'
    BY <1>4 DEF UnloadRequested, Begin
<1>5. ASSUME NEW w \in Slots, TuneFinalized(w) PROVE RoutedPromptGetsItsModel'
    BY <1>5 DEF TuneFinalized, Begin
<1>6. ASSUME NEW w \in Slots, Swap(w) PROVE RoutedPromptGetsItsModel'
    BY <1>6 DEF Swap, Post, Skips, LoadedModelID
<1>7. ASSUME NEW w \in Slots, EngineChanges(w) PROVE RoutedPromptGetsItsModel'
    BY <1>7 DEF EngineChanges, Becomes
<1>8. ASSUME NEW w \in Slots, EngineAnswers(w) PROVE RoutedPromptGetsItsModel'
    BY <1>8 DEF EngineAnswers, Becomes
<1>9. ASSUME NEW w \in Slots, EngineRefuses(w) PROVE RoutedPromptGetsItsModel'
    BY <1>9 DEF EngineRefuses
<1>10. ASSUME NEW w \in Slots, Unloaded(w) PROVE RoutedPromptGetsItsModel'
    BY <1>10 DEF Unloaded, Forget, AfterUnload, Post
<1>11. ASSUME NEW w \in Slots, Loaded(w) PROVE RoutedPromptGetsItsModel'
    BY <1>11 DEF Loaded, IdOf, PromptFollows
<1>12. ASSUME NEW w \in Slots, LoadRefused(w) PROVE RoutedPromptGetsItsModel'
    BY <1>12 DEF LoadRefused, AfterFailedLoad, Post
<1>13. ASSUME NEW w \in Slots, SetSystemPrompt(w) PROVE RoutedPromptGetsItsModel'
    BY <1>13 DEF SetSystemPrompt, Post
<1>14. ASSUME NEW w \in Slots, Generated(w) PROVE RoutedPromptGetsItsModel'
    BY <1>14 DEF Generated, Post
<1>15. ASSUME NEW w \in Slots, JustEnds(w) PROVE RoutedPromptGetsItsModel'
    BY <1>15 DEF JustEnds
<1>16. ASSUME NEW w \in Slots, GivesUp(w) PROVE RoutedPromptGetsItsModel'
    BY <1>16 DEF GivesUp, AfterUnload, AfterFailedLoad, Post
<1>17. ASSUME EngineServesLate PROVE RoutedPromptGetsItsModel'
    BY <1>17 DEF EngineServesLate, Becomes
<1>18. ASSUME EngineLosesModel PROVE RoutedPromptGetsItsModel'
    BY <1>18 DEF EngineLosesModel, Becomes
<1>19. CASE UNCHANGED vars
    BY <1>19 DEF vars
<1> QED
    BY <1>1, <1>2, <1>3, <1>4, <1>5, <1>6, <1>7, <1>8, <1>9, <1>10, <1>11, <1>12, <1>13, <1>14, <1>15, <1>16, <1>17, <1>18, <1>19 DEF Next, JobStep, EngineStep, ClientStep

\* Every step that names a model leaves a slot about to set the system prompt.
LEMMA PromptStep ==
    TypeOK /\ Places /\ NamedModelHasPrompt /\ [Next]_vars => NamedModelHasPrompt'
<1> SUFFICES ASSUME TypeOK, Places, NamedModelHasPrompt, [Next]_vars
             PROVE NamedModelHasPrompt'
    OBVIOUS
<1> USE Names
<1> USE DEF TypeOK, Places, NamedModelHasPrompt, At, End, record, prompts, history
<1>1. ASSUME NEW w \in Slots, BootPicks(w) PROVE NamedModelHasPrompt'
    BY <1>1 DEF BootPicks
<1>2. ASSUME NEW w \in Slots, PromptRouted(w) PROVE NamedModelHasPrompt'
    BY <1>2 DEF PromptRouted, Begin
<1>3. ASSUME NEW w \in Slots, LoadRequested(w) PROVE NamedModelHasPrompt'
    BY <1>3 DEF LoadRequested, Begin
<1>4. ASSUME NEW w \in Slots, UnloadRequested(w) PROVE NamedModelHasPrompt'
    BY <1>4 DEF UnloadRequested, Begin
<1>5. ASSUME NEW w \in Slots, TuneFinalized(w) PROVE NamedModelHasPrompt'
    BY <1>5 DEF TuneFinalized, Begin
<1>6. ASSUME NEW w \in Slots, Swap(w) PROVE NamedModelHasPrompt'
    BY <1>6 DEF Swap, Post, Skips, LoadedModelID
<1>7. ASSUME NEW w \in Slots, EngineChanges(w) PROVE NamedModelHasPrompt'
    BY <1>7 DEF EngineChanges, Becomes
<1>8. ASSUME NEW w \in Slots, EngineAnswers(w) PROVE NamedModelHasPrompt'
    BY <1>8 DEF EngineAnswers, Becomes
<1>9. ASSUME NEW w \in Slots, EngineRefuses(w) PROVE NamedModelHasPrompt'
    BY <1>9 DEF EngineRefuses
<1>10. ASSUME NEW w \in Slots, Unloaded(w) PROVE NamedModelHasPrompt'
    BY <1>10 DEF Unloaded, Forget, AfterUnload, Post
<1>11. ASSUME NEW w \in Slots, Loaded(w) PROVE NamedModelHasPrompt'
    BY <1>11 DEF Loaded, IdOf, PromptFollows
<1>12. ASSUME NEW w \in Slots, LoadRefused(w) PROVE NamedModelHasPrompt'
    BY <1>12 DEF LoadRefused, AfterFailedLoad, Post
<1>13. ASSUME NEW w \in Slots, SetSystemPrompt(w) PROVE NamedModelHasPrompt'
  <2>1. sysPrompt' \/ bare'
      BY Zenon, <1>13 DEF SetSystemPrompt
  <2> QED
      BY <2>1
<1>14. ASSUME NEW w \in Slots, Generated(w) PROVE NamedModelHasPrompt'
    BY <1>14 DEF Generated, Post
<1>15. ASSUME NEW w \in Slots, JustEnds(w) PROVE NamedModelHasPrompt'
    BY <1>15 DEF JustEnds
<1>16. ASSUME NEW w \in Slots, GivesUp(w) PROVE NamedModelHasPrompt'
    BY <1>16 DEF GivesUp, AfterUnload, AfterFailedLoad, Post
<1>17. ASSUME EngineServesLate PROVE NamedModelHasPrompt'
    BY <1>17 DEF EngineServesLate, Becomes
<1>18. ASSUME EngineLosesModel PROVE NamedModelHasPrompt'
    BY <1>18 DEF EngineLosesModel, Becomes
<1>19. CASE UNCHANGED vars
    BY <1>19 DEF vars
<1> QED
    BY <1>1, <1>2, <1>3, <1>4, <1>5, <1>6, <1>7, <1>8, <1>9, <1>10, <1>11, <1>12, <1>13, <1>14, <1>15, <1>16, <1>17, <1>18, <1>19 DEF Next, JobStep, EngineStep, ClientStep

\* IInv is an invariant.
THEOREM Invariance == Spec => []IInv
<1>1. Init => IInv
    BY InvInit
<1>2. IInv /\ [Next]_vars => IInv'
    BY TypeStep, PlacesStep, RecordStep, RoutedStep, PromptStep DEF IInv
<1> QED
    BY <1>1, <1>2, PTL DEF Spec

\* Every variable has its type.
THEOREM TypeCorrect == Spec => []TypeOK
<1>1. IInv => TypeOK
    BY DEF IInv
<1> QED
    BY <1>1, Invariance, PTL

\* What wide_client.go records of a change that was not overtaken is so.
THEOREM RecordIsTruthful == Spec => []RecordTruthful
<1>1. IInv => RecordTruthful
    BY DEF IInv
<1> QED
    BY <1>1, Invariance, PTL

\* A prompt that hotSwapWideModel has served generates on its own model.
THEOREM PromptsGetTheirModel == Spec => []RoutedPromptGetsItsModel
<1>1. IInv => RoutedPromptGetsItsModel
    BY DEF IInv
<1> QED
    BY <1>1, Invariance, PTL

\* A model that was loaded under an id has the system prompt, or is about to.
THEOREM NamedModelsHavePrompts == Spec => []NamedModelHasPrompt
<1>1. IInv => NamedModelHasPrompt
    BY DEF IInv
<1> QED
    BY <1>1, Invariance, PTL
=============================================================================
