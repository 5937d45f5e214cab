SPECIFICATION Spec
CONSTANTS
    a = a
    b = b
    pinned = pinned
    pushed = pushed
    empty = empty
    sealed = sealed
    huge = huge
    cases_json = cases_json
    policy_json = policy_json
    run_py = run_py
    json = json
    text = text
    own = own
    None = None
    Special = Special
    CaseIds = {a, b}
    Natives = {sealed, huge}
    Large = {huge}
    Commits = {pinned, pushed, empty}
    Pin = pinned
    HasRunner = {pinned, pushed}
    Names = {cases_json, policy_json, run_py}
    Contents = {json, text, own}
    Json = {json}
    CasesFile = cases_json
    JobMinutes = 2
    MaxReruns = 1
    Declared <- MCDeclared
    Behaves <- MCBehaves
    Forgeries <- MCForgeries
    CaseLists <- MCCaseLists
    Experiments <- MCExperiments
    Tooling <- MCTooling
INVARIANTS
    TypeOK
    PublishedRanAtThePin
    PublishedAgreesWithTheRun
    UnavailableSaysOnlyThat
    ExerciseRanOnDeclaredInputs
PROPERTIES
    AgreeingLegIsPublished
    EveryLegEnds
    ImplementsOneLeg
