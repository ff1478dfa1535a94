CONSTANTS
    Calls = {c1, c2, c3}
    MaxTokens = 3
    StallTimeout = 3
    BodyParts = 2
    Waiters = {w1, w2}
    Jobs = {j1, j2}
    NoJob = nojob
    Nobody = nobody
    WaitLimit = 1
    PollInterval = 1
    MaxReadFailures = 2
    JobFaults = {"kill", "read", "index"}
    MaxClock = 1
    MaxAnswers = 2
    Updaters = {w1, w2}
    NoUpdater = nobody
    UpdateFaults = 2
    Refs = {j1, j2}
    NoRef = nojob
    MaxPATs = 2
    Roots = {j1, j2}
    NoRoot = nojob
    MaxIDs = 2
    Installers = {w1, w2}
    NoInstaller = nobody
    Releases = 2
    Running = {2}
    Skills = 2
    LegacySkills = {2}
    InstallFaults = 2
    MaxSkillEdits = 1
    Objects = 2
    MaxRival = 2
    Publications <- Publishes
    MaxDisturbances = 2
SPECIFICATION ProcessSpec
SYMMETRY Symmetric
INVARIANTS
    CredentialsAgree
    WorkspacesAreSafe
    SkillsAreKept
    ReportsAreTrue
    PlansAreKept
    PublishesWhereShown
    PublicationIsReported
PROPERTIES
    ResendIsSafe
    StallIsReal
    OutcomesHold
CHECK_DEADLOCK FALSE
