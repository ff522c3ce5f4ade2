SPECIFICATION Spec
CONSTANTS
    c1 = c1
    c2 = c2
    read = read
    main = main
    Clients <- TwoClients
    Tools <- OneTool
    Sessions <- OneSession
    Minute = 2
    Hour = 4
    MaxPerMinute = 2
    MaxPerHour = 3
    MaxTokensPerDay = 2
    MaxConcurrent = 3
    MaxToolCalls = 4
    MaxTurns = 1
    TokenCosts <- FreeOrOne
INVARIANT IdleGrants
