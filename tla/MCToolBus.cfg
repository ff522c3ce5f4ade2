SPECIFICATION BusFairSpec
CONSTANTS
    c1 = c1
    c2 = c2
    read = read
    main = main
    Clients <- TwoClients
    Tools <- OneTool
    Sessions <- OneSession
    Minute = 2
    Hour = 4
    MaxPerMinute = 2
    MaxPerHour = 3
    MaxTokensPerDay = 2
    MaxConcurrent = 3
    MaxToolCalls = 3
    MaxTurns = 1
    TokenCosts <- FreeOrOne
    MaxCalls = 2
INVARIANTS
    BusTypeOK
    WindowsRespected
    SlotConservation
    CallsArePaid
PROPERTIES
    KeepsGranting
