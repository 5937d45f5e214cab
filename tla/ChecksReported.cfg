SPECIFICATION Spec
CONSTANTS
    None = None
    Raw <- MCRaw
    Parse <- MCParse
    ObjectIds = {"c1"}
    RepositoryNames = {"lab"}
    SourceAt <- MCSourceAt
    Roots <- MCRoots
INVARIANTS
    ChecksReportedWerePerformed
