\* Six proper calls, everything they become when tokens are missing, two calls at
\* a time, two turns.
SPECIFICATION Spec
CONSTANTS
    Token <- MCToken
    Responses <- MCResponses
    Further <- MCFurther
    Calls <- MCCalls
    MaxLoops = 2
INVARIANTS
    TypeOK
    PackageToolsAreApproved
    EveryCallIsReported
    OneFinalMessage
    CallsAreNotAnswers
    CallsAreReadAsWritten
    CrashNeedsBrokenFence
PROPERTIES
    EveryStepIsNearer
    KeepsPromise
    PromptEnds
