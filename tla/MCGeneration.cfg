SPECIFICATION MCFairSpec
CONSTANTS
    c1 = c1
    c2 = c2
    c3 = c3
    j1 = j1
    j2 = j2
    j3 = j3
    r1 = r1
    r2 = r2
    r3 = r3
    MaxTokens = 3
    Word = 64
    DefaultBytes = 5
    LineSizes = {4, 6, 9}
    LongestLine = 8
    MaxAttempts = 2
    MaxRequests = 2
    Calls = {c1}
    LateEffects = TRUE
    Adapters = {"openai", "ollama", "codex", "claude"}
    MaximumOutputTokens = 2
    MaxEvents = 4
INVARIANTS
    AgentStaysWithinLimits
    
    StatusIsTrue
PROPERTIES
    GenerationEndsClean
    
