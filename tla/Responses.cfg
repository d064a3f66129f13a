CONSTANTS
    Methods = {get, head}
    Chars = {"a", "b"}
    Paths <- MCPaths
    Handlers = {h1, h2, h3}
    NoHandler = NoHandler
    MaxRoutes = 3
    MaxSize = 3
    ChunkSize = 1
    m_maxFileSize = 2
    TextSize = 1
SYMMETRY MCSymmetry
CHECK_DEADLOCK FALSE
SPECIFICATION MCSpec
INVARIANTS
    LongestPrefixAnswers
    AnswerJustified
