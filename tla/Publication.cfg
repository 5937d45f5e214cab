SPECIFICATION Spec
CONSTANTS
    None = None
    Special = Special
    noted = noted
    binary = binary
    word = word
    pin = pin
    Files = {"outcome.json", "native/RESULTS.json", "customers.json", "notes.txt"}
    Admitted = {"outcome.json", "native/RESULTS.json", "customers.json"}
    MANIFEST_NAME = "PUBLICATION-MANIFEST.json"
    ManifestMatches <- MCManifestMatches
    Contents = {noted, binary}
    Decodable <- MCDecodable
    Values <- MCValues
    Matches <- MCMatches
    STRATEGIC_KEYWORDS = {word}
    PUBLIC_REPOSITORIES = {}
    Allowlist <- MCAllowlist
    PublicPins = {pin}
    Protected = {}
    Digests = {}
    Windows = {"gate", "scan"}
    Placeable <- MCPlaceable
    Forgeable <- MCForgeable
    Targets = {"files", "manifest"}
INVARIANTS
    TypeOK
    UploadedMatchesManifest
    UploadedWasAdmitted
    UploadedWasScanned
PROPERTIES
    PublishableIsUploaded
    ImplementsAtomicPublication
