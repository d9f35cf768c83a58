SPECIFICATION FairSpec
CONSTANTS
    t = t
    ann = ann
    ben = ben
    Type <- MCType
    Last = 3
    MaxGrade = 2
    Signer <- MCSigners
    RANGE_SPLIT = 2
    RANGE_LEAF_THRESHOLD = 2
    LeafThreshold = 1
    World <- MCWorld
INVARIANTS Pulled
PROPERTIES PullCompletes
