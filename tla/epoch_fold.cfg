SPECIFICATION FoldSpec
CONSTANTS
    Event <- MCEvent
    ChainEvent = {31, 32}
    Founder <- MCFounder
    Key = {"ada", "bea", "dev", "root"}
    DID = {"did:ada", "did:bea", "did:dev", "did:dev:long", "did:root", "did:eve", "did:fay"}
    Target = {"did:ada", "did:bea", "did:dev", "did:dev:long", "did:root", "did:eve", "did:fay",
              "#ada", "#bea", "#dev", "#root"}
    KeyTarget <- MCKeyTarget
    Canonical <- MCCanonical
    Carried <- MCCarried
    RootKey <- MCRootKey
    Pin <- MCPin
    DIDOf <- MCDIDOf
    Kind <- MCKind
    By <- MCBy
    EpochOf <- MCEpochOf
    Parents <- MCParents
    Height <- MCHeight
    Names <- MCNames
    LeaseOf <- MCLeaseOf
    Denies <- MCDenies
    Misnamed = {15}
    Published <- MCPublished
    MembersAt <- MCMembersAt
    DenyAt <- MCDenyAt
    Copy <- MCCopy
    Genuine <- MCGenuine
    MAX_EPOCH_EVENTS = 5
    MAX_FAILED_SIGNATURES = 2
    Anchor = 32
    Presentation <- MCPresentation
    MaxPresentations = 2
INVARIANTS FoldSound
PROPERTIES RefusedExactly NothingForgotten
CHECK_DEADLOCK FALSE
