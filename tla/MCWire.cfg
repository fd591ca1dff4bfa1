CONSTANTS
    Requests <- MCRequests
    Replies <- MCReplies
    MaxMessage = 60
    U32 = 4
    Texts <- MCTexts
    Weight <- MCWeight
    MaxEdits = 2
SPECIFICATION Spec
INVARIANTS SkewIsHarmless DamageIsRefused MissingIsDefault
