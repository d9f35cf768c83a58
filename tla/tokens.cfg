SPECIFICATION FairSpec
CONSTANTS
    MaxCalls = 3
    VERIFIED_MEMO_SIZE = 2
    VERIFIED_MEMO_MAX_MESSAGE_BYTES = 2
    VERIFIED_MEMO_MAX_TOTAL_BYTES = 2
    PEER4_DECODE_MEMO_SIZE = 1
    MaxDocs = 1
    World <- MCWorld
INVARIANTS AcceptedGenuine RefusalsEarned KeptEarned AgreementMeets
PROPERTIES VerifiesEnd
CHECK_DEADLOCK FALSE
