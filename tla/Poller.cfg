SPECIFICATION Spec
CONSTANTS
    Prompts = {p1}
    OtherTurns = {other}
    DRAIN_CONFIRMS = 2
    CANCEL_CONFIRMS = 1
    STATUS_FAILURE_THRESHOLD = 1
    PROMPT_AGE_OUT = 1
    TURN_END_AGE_OUT = 1
    QUEUED_TIMEOUT = 1
    CANCEL_TIMEOUT = 1
    WAKE_TIMEOUT = 1
    CURSOR_ONLY_QUIET = 1
    AgeMax = 1
    AgentMarksTurnEnd = TRUE
    MayCrash = TRUE
    MayStop = TRUE
INVARIANTS
    TypeOK
PROPERTIES
    IdleCountsOnlyOnceStarted
    DoneOnlyWhenNothingIsRunning
    PromptsAreNotForgotten
    
