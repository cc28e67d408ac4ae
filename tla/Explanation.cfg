SPECIFICATION ExplainSpec
CONSTANTS
    OpenAITimeout = 7
    OllamaTimeout = 12
    ClientTimeout = 10
    Waits = 2
    Chunks = {"receipt", "outage", "routing", "schema"}
    Attempts = {0, 1, 2, 20}
INVARIANTS
    AnswerIsGrounded
    StatusIndependentOfProvider
PROPERTIES
    ExplainedWhileUp
CHECK_DEADLOCK FALSE
