SPECIFICATION Spec
CONSTANTS
    None = None
    plain = plain
    twin = twin
    moved = moved
    research = research
    greedy = greedy
    stale = stale
    bare = bare
    twoline = twoline
    Runs = {r1, r2, r3}
    Validations = {v1, v2}
    Raw = {plain, twin}
    Paths = {"p1"}
    Kinds = {"auto", "manual"}
    Maintenance = {}
    Faults = {"job_fails", "response_lost"}
    TicketIds = {t1}
    EnvelopePaths = {"envelope"}
    AutoEnvelope = "envelope"
    ObjectIds <- MCObjectIds
    RepositoryNames <- MCRepositoryNames
    Strings <- MCStrings
    Lines <- MCLines
    LabSchema = "d4"
    Parse <- MCParse
    SourceAt <- MCSourceAt
    EnvelopeDocs <- MCEnvelopeDocs
    InitialEnvelopes <- MCInitialEnvelopes
    InitialFiles <- MCInitialFiles
CHECK_DEADLOCK FALSE
SYMMETRY Symmetry
INVARIANTS
    HInv
    AtMostOneExecution
    LedgerNamesEachRequestOnce
    ExecutedWasSpent
    EveryEntryHasItsRun
    ConflictMeansOthersProgressed
    ReplayRefusalsAreRight
PROPERTIES
    LedgerAppendOnly
    ImplementsOneRunPerRequest
