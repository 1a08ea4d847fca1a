SPECIFICATION PortsSpec
CONSTANTS
    PathKeys <- MCPathKeys
    StampFields <- MCStampFields
    MaxIndexPaths = 2
    MaxSegments = 2
    DefaultFindLimit = 2
    MaxFindLimit = 3
    MaxInt64 = 9
    Docs <- MCDocs
    Alone <- MCAlone
    Declarations <- MCDeclarations
    Queries <- MCQueries
    WalkQueries <- MCWalkQueries
    Walkers = {"python", "go", "typescript", "rust"}
    MaxAdmitted = 3
    Contents <- MCContents
    Deep <- MCDeep
    MaxDamages = 2
    Sha <- MCSha
    JsonDigest <- MCJsonDigest
    Size <- MCSize
    Empty = ""
    Hex <- MCHex
    Names = {1, 2}
    DigestFields = {"agent_input_digest", "agent_output_digest", "effect.request_digest", "effect.response_digest"}
    Trusted = {"key"}
    MaxArtifacts = 2
    MaxEnvelope = 2
    MaxTotal = 6
    States = {"present", "purged", "never_retained"}
    Offers <- MCOffers
INVARIANTS
    RecordsAreJudgedAlike
    AdmittedComesBack
    FindTellsTheTruth
\* A record may be purged by everybody and damaged twice.
CHECK_DEADLOCK FALSE
