SPECIFICATION Spec
CONSTANTS
    alice = alice
    bob = bob
    Op <- MCOp
    Key <- MCKey
    KeyOf <- MCKeyOf
    Policy <- MCPolicy
    Forks <- MCForks
    Hlc <- MCHlc
    Version <- MCVersion
    Unreadable <- MCUnreadable
    Digest <- MCDigest
    Peer = {p, q}
    Session = {s, t}
    PeerOf <- OwnPeer
    SingleWriter = TRUE
    TypeOf <- MCTypeOf
    Rank <- MCRank
    Lock <- MCLock
    LockOf <- MCLockOf
    Issuer <- MCIssuer
    IssuerOf <- MCIssuerOf
    SignerOf <- MCSignerOf
    Deps <- MCDeps
    Live <- MCLive
    Did <- MCDid
    Recipients <- MCRecipients
    Revokes <- MCRevokes
    Signed <- MCSigned
    Admissible <- MCAdmissible
    Refused <- MCRefused
    Intact <- MCIntact
    Authorities <- MCAuthorities
    Chunk <- MCChunk
    Seed <- MCSeed
    SourceAttempts = 2
    MaxDrift = 5
    MaxNow = 0
    MaxChunks = 2
INVARIANT Agreement
CHECK_DEADLOCK FALSE
