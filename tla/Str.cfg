CONSTANTS
    RID = {r1, r2, r3, r4, r5}
    NoRid = NoRid
    STR_CHUNK_MAX_LEN = 2
    MaxLength = 6
    String <- MCString
SPECIFICATION Spec
INVARIANTS TypeOK Loads ChunksOwned CompareIsOrder IInv
PROPERTY StringsAreFresh
SYMMETRY RidSymmetry
