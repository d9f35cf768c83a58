SPECIFICATION FairSpec
CONSTANTS
    Event <- MCEvent
    ChainEvent <- MCChainEvent
    Founder = {}
    Key = {"dev", "root"}
    DID = {"did:dev", "did:eve", "did:fay"}
    Target = {"did:dev", "did:eve", "did:fay", "#dev", "#root"}
    KeyTarget <- MCKeyTarget
    Canonical <- MCCanonical
    Carried <- MCCarried
    RootKey <- MCRootKey
    Pin <- MCPin
    DIDOf <- MCDIDOf
    Kind <- MCKind
    By <- MCBy
    EpochOf <- MCEpochOf
    Parents <- MCParents
    Height <- MCHeight
    Names <- MCNames
    LeaseOf <- MCLeaseOf
    Denies <- MCDenies
    Misnamed = {}
    Published <- MCPublished
    MembersAt <- MCMembersAt
    DenyAt <- MCDenyAt
    Copy <- MCCopy
    Genuine <- MCGenuine
    MAX_EPOCH_EVENTS = 2
    MAX_FAILED_SIGNATURES = 1
    Inception = 30
    GenOf <- MCGenOf
    NumOf <- MCNumOf
    PrevOf <- MCPrevOf
    Sound = {31, 32, 33, 34, 35, 36, 40}
    Ignorable = {37, 38, 41}
    MAX_SKIPPED_SLACK = 0
    MAX_LOG_EVENTS = 5
    s1 = s1
    s2 = s2
    f1 = f1
    f2 = f2
    MaxChains = 3
    Flight = {f1, f2}
    Store = {s1, s2}
    World <- MCWorld
    FOLD_MEMO_SIZE = 1
    MaxLoads = 3
INVARIANTS StoresForwardable ForksAreReal WinnerByRules
PROPERTIES NoRollback AnswersStand ResolutionsSettle
CHECK_DEADLOCK FALSE
