----------------------------- MODULE WideModel -----------------------------
(***************************************************************************)
(* The Wide Model: an inference engine, one per daemon, reached over HTTP, *)
(* and what the daemon believes of it (src/internal/daemon/wide_client.go; *)
(* the swap, the registry and the start-up load of daemon.go; the load,    *)
(* unload and tune handlers).  Every operation asks the engine first and   *)
(* records the outcome later; w.mu covers only the record.  Goroutines run *)
(* in Slots, one job after another.  The engine is external: it serves or  *)
(* refuses a request, may serve it after its caller has given up, may lose *)
(* its model, and may load one on demand.                                  *)
(***************************************************************************)
EXTENDS FiniteSets, Naturals

CONSTANTS
    Slots,       \* goroutines at work at one time, a bound of the model
    Packages,    \* [id, weights, present]: the manifests under PatchDir
    Default,     \* the weights of a load by path and of the directory scan
    NoModel,     \* no model, no id
    Nobody,      \* not a slot
    MaxLate      \* requests the engine may yet serve, a bound of the model

\* buildModelRegistry, once, at start-up: the packages that name a model id and
\* remote weights, and whose weights file is there.
Registered ==
    {p.id : p \in {q \in Packages : q.id # NoModel /\ q.weights /\ q.present}}

\* Ids the raw model may route a prompt to; it is free to name any.
Routable == {p.id : p \in Packages} \cup {NoModel}

Models == Registered \cup {Default, NoModel}

ASSUME SpecialValues ==
    /\ Default \notin Routable
    /\ Nobody \notin Slots
    /\ MaxLate \in Nat

VARIABLES
    engine,     \* the model the engine has
    loaded, id, \* the record: w.loaded, w.modelID
    sysPrompt,  \* w.systemPrompt is not empty
    job,        \* what a slot's goroutine is there for
    pc,         \* where it is
    goal,       \* the model it wants: a prompt's route, a load's weights
    wire,       \* its HTTP request
    untried,    \* registry entries the start-up load has not tried
    late,       \* changes asked for by requests that were given up
    lastChange, \* history: whose request changed the engine last
    known,      \* history: that change was recorded by its goroutine, in time
    settled,    \* history: prompts whose swap went through, the engine since unchanged
    bare        \* history: the named load that was done last found no prompt to set

record  == <<loaded, id>>
prompts == <<sysPrompt, bare>>
history == <<lastChange, known, settled>>
vars == <<engine, record, prompts, job, pc, goal, wire, untried, late, history>>

TypeOK ==
    /\ engine \in Models
    /\ loaded \in BOOLEAN
    /\ id \in Registered \cup {NoModel}
    /\ sysPrompt \in BOOLEAN
    /\ job \in [Slots -> {"none", "boot", "prompt", "load", "unload", "tune"}]
    /\ pc \in [Slots -> {"free", "pick", "route", "unload", "load", "prompt", "ask", "bind"}]
    /\ goal \in [Slots -> Models \cup Routable]
    /\ wire \in [Slots -> {"none", "sent", "ok", "refused"}]
    /\ untried \subseteq Registered
    /\ late \subseteq Models
    /\ lastChange \in Slots \cup {Nobody}
    /\ known \in BOOLEAN
    /\ settled \subseteq Slots
    /\ bare \in BOOLEAN

\* Run has scanned the patches; clients are served while loadWideModel runs.
Init ==
    /\ engine \in {NoModel, Default}
    /\ loaded = FALSE
    /\ id = NoModel
    /\ sysPrompt = FALSE
    /\ \E w \in Slots :
          /\ job = [s \in Slots |-> IF s = w THEN "boot" ELSE "none"]
          /\ pc = [s \in Slots |-> IF s = w THEN "pick" ELSE "free"]
    /\ goal = [s \in Slots |-> NoModel]
    /\ wire = [s \in Slots |-> "none"]
    /\ untried = Registered
    /\ late = {}
    /\ lastChange = Nobody
    /\ known = FALSE
    /\ settled = {}
    /\ bare = FALSE

\* What LoadedModelID returns.
LoadedModelID == IF loaded THEN id ELSE NoModel

\* The model the engine has once it has served the request of w.
Asked(w) == IF pc[w] = "unload" THEN NoModel ELSE goal[w]

At(w, place, request) ==
    /\ pc' = [pc EXCEPT ![w] = place]
    /\ wire' = [wire EXCEPT ![w] = request]

Post(w, place) == At(w, place, "sent") /\ UNCHANGED <<job, goal>>

Begin(w, what, place, request, model) ==
    /\ pc[w] = "free"
    /\ job' = [job EXCEPT ![w] = what]
    /\ goal' = [goal EXCEPT ![w] = model]
    /\ At(w, place, request)
    /\ UNCHANGED <<engine, record, prompts, untried, late, history>>

End(w) ==
    /\ At(w, "free", "none")
    /\ job' = [job EXCEPT ![w] = "none"]
    /\ goal' = [goal EXCEPT ![w] = NoModel]

-----------------------------------------------------------------------------
(* Jobs                                                                    *)

\* loadWideModel: a registry entry, then another if its load fails; then the
\* first file of the active directory, if there is one.  A ready raw model that
\* does not allow it ends the attempt; one that cannot be asked does not.
BootPicks(w) ==
    /\ pc[w] = "pick"
    /\ \/ \E m \in untried :
             /\ untried' = untried \ {m}
             /\ goal' = [goal EXCEPT ![w] = m]
             /\ At(w, "load", "sent")
             /\ UNCHANGED job
       \/ /\ untried = {}
          /\ goal' = [goal EXCEPT ![w] = Default]
          /\ At(w, "load", "sent")
          /\ UNCHANGED <<job, untried>>
       \/ End(w) /\ untried' = {}
    /\ UNCHANGED <<engine, record, prompts, late, history>>

\* processPrompt, once the guardrail has let it through with a route or none.
PromptRouted(w) == \E m \in Routable : Begin(w, "prompt", "route", "none", m)

\* handleWideModelLoad, for a path that exists.
LoadRequested(w) == Begin(w, "load", "load", "sent", Default)

\* handleWideModelUnload, the codes idle, security and reset, shutdown, the timer.
UnloadRequested(w) == Begin(w, "unload", "unload", "sent", NoModel)

\* handleCPMTune with "finalize": the tool has returned without a Go error, its
\* result's status is not looked at.
TuneFinalized(w) == Begin(w, "tune", "bind", "sent", NoModel)

\* Mutant of Skips: any model will do.
SkipsLoaded(w) == goal[w] \notin Registered \/ loaded

\* Without a route, with an id the registry does not have, or with the model
\* recorded as loaded, the prompt goes straight to Generate.
Skips(w) == goal[w] \notin Registered \/ LoadedModelID = goal[w]

\* hotSwapWideModel up to its first request.
Swap(w) ==
    /\ pc[w] = "route"
    /\ Post(w, IF Skips(w) THEN "ask" ELSE "unload")
    /\ settled' = IF Skips(w) /\ goal[w] \in Registered /\ known
                  THEN settled \cup {w} ELSE settled
    /\ UNCHANGED <<engine, record, prompts, untried, late, lastChange, known>>

-----------------------------------------------------------------------------
(* The engine                                                              *)

Becomes(model, whose) ==
    /\ engine' = model
    /\ lastChange' = whose
    /\ known' = FALSE
    /\ settled' = {}

EngineChanges(w) ==
    /\ wire[w] = "sent"
    /\ pc[w] \in {"unload", "load"}
    /\ Becomes(Asked(w), w)
    /\ wire' = [wire EXCEPT ![w] = "ok"]
    /\ UNCHANGED <<record, prompts, job, pc, goal, untried, late>>

\* An inference or an adapter; without a model, one is loaded on demand.
EngineAnswers(w) ==
    /\ wire[w] = "sent"
    /\ pc[w] \in {"ask", "bind"}
    /\ wire' = [wire EXCEPT ![w] = "ok"]
    /\ \/ engine # NoModel /\ UNCHANGED <<engine, history>>
       \/ engine = NoModel /\ Becomes(Default, Nobody)
    /\ UNCHANGED <<record, prompts, job, pc, goal, untried, late>>

\* Any status but 200.
EngineRefuses(w) ==
    /\ wire[w] = "sent"
    /\ wire' = [wire EXCEPT ![w] = "refused"]
    /\ UNCHANGED <<engine, record, prompts, job, pc, goal, untried, late, history>>

\* The engine serves a request whose caller has given up.
EngineServesLate ==
    \E m \in late :
        /\ late' = late \ {m}
        /\ Becomes(m, Nobody)
        /\ UNCHANGED <<record, prompts, job, pc, goal, wire, untried>>

\* The engine restarts, or evicts its model.
EngineLosesModel ==
    /\ engine # NoModel
    /\ Becomes(NoModel, Nobody)
    /\ UNCHANGED <<record, prompts, job, pc, goal, wire, untried, late>>

-----------------------------------------------------------------------------
(* The client                                                              *)

\* A swap loads after an Unload, however that went; others are done.
AfterUnload(w) == IF job[w] = "prompt" THEN Post(w, "load") ELSE End(w)

\* A load that fails: the prompt goes on, start-up tries the next entry.
AfterFailedLoad(w) ==
    \/ job[w] = "prompt" /\ Post(w, "ask")
    \/ /\ job[w] = "boot" /\ goal[w] # Default
       /\ At(w, "pick", "none")
       /\ UNCHANGED <<job, goal>>
    \/ (job[w] = "load" \/ goal[w] = Default) /\ End(w)

\* Mutant of Forget: the model's id is kept.
ForgetLoaded == loaded' = FALSE /\ UNCHANGED id

Forget == loaded' = FALSE /\ id' = NoModel

\* Unload: the record is cleared whatever the status.
Unloaded(w) ==
    /\ pc[w] = "unload" /\ wire[w] \in {"ok", "refused"}
    /\ Forget
    /\ known' = (wire[w] = "ok" /\ lastChange = w)
    /\ AfterUnload(w)
    /\ UNCHANGED <<engine, prompts, untried, late, lastChange, settled>>

\* Mutant of IdOf: a path is an id as well.
IdOfAny(model) == model

\* The id of a load: none for a load by path or from the directory.
IdOf(model) == IF model \in Registered THEN model ELSE NoModel

\* Mutant of PromptFollows: start-up leaves the system prompt to the first swap.
PromptFollowsSwap(w) == job[w] = "prompt"

\* A load from the registry sets the system prompt next; other loads do not.
PromptFollows(w) == goal[w] # Default

\* LoadWithID: the record names the model.
Loaded(w) ==
    /\ pc[w] = "load" /\ wire[w] = "ok"
    /\ loaded' = TRUE
    /\ id' = IdOf(goal[w])
    /\ known' = (lastChange = w)
    /\ settled' = IF job[w] = "prompt" /\ lastChange = w THEN settled \cup {w} ELSE settled
    /\ \/ PromptFollows(w) /\ At(w, "prompt", "none") /\ bare' = FALSE /\ UNCHANGED <<job, goal>>
       \/ ~PromptFollows(w) /\ End(w) /\ UNCHANGED bare
    /\ UNCHANGED <<engine, sysPrompt, untried, late, lastChange>>

LoadRefused(w) ==
    /\ pc[w] = "load" /\ wire[w] = "refused"
    /\ AfterFailedLoad(w)
    /\ UNCHANGED <<engine, record, prompts, untried, late, history>>

\* SetSystemPrompt, with what mergeSystemPrompts found: it reads the base prompt and
\* the packages' own anew for each load, whatever the model.  Nothing sets nothing.
SetSystemPrompt(w) ==
    /\ pc[w] = "prompt"
    /\ \/ sysPrompt' = TRUE /\ bare' = FALSE
       \/ UNCHANGED sysPrompt /\ bare' = TRUE
    /\ IF job[w] = "prompt" THEN Post(w, "ask") ELSE End(w)
    /\ UNCHANGED <<engine, record, untried, late, history>>

\* Generate: an answer means the engine has a model, whatever it is.  toolLoop
\* may ask again.
Generated(w) ==
    /\ pc[w] = "ask" /\ wire[w] = "ok"
    /\ loaded' = TRUE
    /\ \/ Post(w, "ask") /\ UNCHANGED settled
       \/ End(w) /\ settled' = settled \ {w}
    /\ UNCHANGED <<engine, id, prompts, untried, late, lastChange, known>>

\* An inference that fails, and LoadAdapter either way.
JustEnds(w) ==
    /\ \/ pc[w] = "ask" /\ wire[w] = "refused"
       \/ pc[w] = "bind" /\ wire[w] \in {"ok", "refused"}
    /\ End(w)
    /\ settled' = settled \ {w}
    /\ UNCHANGED <<engine, record, prompts, untried, late, lastChange, known>>

\* The request fails or its 300 seconds are over: nothing is recorded, while the
\* engine may have served it, or serve it yet.
GivesUp(w) ==
    /\ wire[w] # "none"
    /\ \/ pc[w] = "unload" /\ AfterUnload(w)
       \/ pc[w] = "load" /\ AfterFailedLoad(w)
       \/ pc[w] \in {"ask", "bind"} /\ End(w)
    /\ late' = IF wire[w] = "sent" /\ pc[w] \in {"unload", "load"} /\ Cardinality(late) < MaxLate
               THEN late \cup {Asked(w)} ELSE late
    /\ lastChange' = IF lastChange = w THEN Nobody ELSE lastChange
    /\ settled' = IF pc[w] = "ask" THEN settled \ {w} ELSE settled
    /\ UNCHANGED <<engine, record, prompts, untried, known>>

-----------------------------------------------------------------------------

JobStep(w) ==
    \/ BootPicks(w) \/ PromptRouted(w) \/ LoadRequested(w) \/ UnloadRequested(w)
    \/ TuneFinalized(w) \/ Swap(w)

EngineStep(w) == EngineChanges(w) \/ EngineAnswers(w) \/ EngineRefuses(w)

ClientStep(w) ==
    \/ Unloaded(w) \/ Loaded(w) \/ LoadRefused(w) \/ SetSystemPrompt(w)
    \/ Generated(w) \/ JustEnds(w) \/ GivesUp(w)

Next ==
    \/ \E w \in Slots : JobStep(w) \/ EngineStep(w) \/ ClientStep(w)
    \/ EngineServesLate \/ EngineLosesModel

Spec == Init /\ [][Next]_vars

-----------------------------------------------------------------------------
(* Properties                                                              *)

\* As long as the last change of the engine was recorded, by the goroutine that
\* asked for it, before the engine changed again, the record is not wrong about
\* it: what it names is what the engine has, and when it says that nothing is
\* loaded nothing is.  hotSwapWideModel skips a swap on the strength of this.
RecordTruthful ==
    known => /\ LoadedModelID # NoModel => engine = LoadedModelID
             /\ ~loaded => engine = NoModel

\* A routed prompt whose swap went through, or was rightly skipped, finds its own
\* model at every inference until the engine is changed by another goroutine.
RoutedPromptGetsItsModel ==
    \A w \in settled : pc[w] \in {"prompt", "ask"} /\ engine = goal[w]

\* A model loaded under an id is asked with a system prompt, at start-up as after a
\* swap, unless its load found none to set.  The exception is the moment between
\* LoadWithID and SetSystemPrompt, in which another prompt that is routed to the model
\* skips the swap.
NamedModelHasPrompt ==
    id # NoModel => sysPrompt \/ bare \/ \E w \in Slots : pc[w] = "prompt"
=============================================================================
