SPECIFICATION FairSpec
CONSTANTS
    Stdout = stdout
    Stderr = stderr
    Limit = 1
    MaxWritten = 1
    Files = {codex, host}
    TaskIds <- Ids
    Known = {"known"}
    Proposals <- AllProposals
    Claims <- SomeClaims
    Paths <- ShortPaths
    Parts <- NamesAndPatterns
    Wildcards <- StarAndPart
    Protected <- Policy
    MaxEvents = 6
    Base = base
    Revisions = {base, moved}
    BacklogSize <- Sizes
INVARIANTS
    OutputIsWhole
    ContainedAtReturn
    NothingLeftBehind
    PlanFromOneTurn
    AcceptedPlanCanRun
    ParallelWorkIsApart
    RecordIsAboutBase
PROPERTIES
    RuntimeWasPinned
    EveryUnitEnds
    TrialEnds
CHECK_DEADLOCK FALSE
