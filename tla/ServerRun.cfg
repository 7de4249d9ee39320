SPECIFICATION FairSpec
CONSTANTS
    Reqs <- Requests
    Prompt <- Prompts
    LastTurn <- Turns
    MaxNew <- Limits
    Stream <- Streamed
    Leaving <- Patience
    Chosen <- Answers
    Tokens <- Vocabulary
    Halves <- SplitTokens
    Eog = "eog"
    QueueCap = 1
    ContextLimit = 5
    Batch = 2
    Kind = "qwen35"
    Reuse = TRUE
    MaxFail = 1
INVARIANTS
    TypeOK
    SessionHoldsHeld
    AnswersOwnPrompt
    ContextRespected
    EndIsTrue
PROPERTIES
    Answered
CHECK_DEADLOCK FALSE
