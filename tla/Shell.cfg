CONSTANTS
    Words = {"echo", "cat", "f"}
    MAXARGS = 3
    NPROC = 6
    NFILE = 5
    NOFILE = 5
    NPIPE = 2
    PIPESIZE = 1
    MaxTokens = 3
    Lines <- MCLines
SPECIFICATION FairSpec
INVARIANTS
    ParsesByGrammar
    RefsExact
    RunsToMeaning
PROPERTIES
    PromptReturns
