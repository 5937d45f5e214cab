SPECIFICATION Spec
CONSTANTS
    None = None
    conforming = conforming
    reformatted = reformatted
    stale = stale
    garbled = garbled
    unfetchable = unfetchable
    threeline = threeline
    Raw <- MCRaw
    Parse <- MCParse
    ObjectIds = {"c1", "c2", "c3"}
    RepositoryNames = {"lab"}
    SourceAt <- MCSourceAt
    Strings <- MCStrings
    Lines <- MCLines
    Paths = {"p1", "p2"}
    RequestPaths = {"p1", "p2"}
    Faults = {"step_fails"}
INVARIANTS
    TypeOK
    UploadedIsWhatWasSubmitted
    UploadedOnlyWhenValidated
PROPERTIES
    ConformingSubmissionIsUploaded
    ImplementsValidationRun
