CONSTANTS
    MAX_SYM = 4
    MAX_PROG = 40
    U32 = 32
    MAX_REGIONS = 2
    MAX_PLACES = 3
    MAX_DEFS = 2
SPECIFICATION Spec
CHECK_DEADLOCK FALSE
INVARIANTS PassesAgree ListingFaithful ImagePlaced SignedVerifies CarriedExactly
