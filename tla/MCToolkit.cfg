SPECIFICATION ToolkitSpec
CONSTANTS
    p1 = p1
    p2 = p2
    x = x
    y = y
    look = look
    edit = edit
    test = test
    session = session
    tool = tool
    fact = fact
    skill = skill
    Paths <- TwoPaths
    Marks <- TwoMarks
    Absent = Absent
    MaxLength = 2
    MaxHistory = 2
    Requests <- RequestSizes
    MaxTokens = 10
    MaxTurns = 5
    MaxUsed = 12
    Calls <- ThreeCalls
    MaxRepeats = 2
    MaxCallHistory = 4
    Connections <- TwoConnections
    NoConnection = NoConnection
    NoRow = NoRow
    Memories <- TwoMemories
    Ttl = 1
INVARIANTS
    ToolkitTypeOK
    EmptiedIsTold
    RefusalIsFinal
    RepeatsBounded
    ForgetIsDurable
