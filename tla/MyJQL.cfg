CONSTANTS
    DEGREE = 2
    NoRid = NoRid
    RecordRID = {r1, r2, r3, r4, r5}
    Key <- MCKey
    Value = {v1, v2}
SPECIFICATION MyJQLSpec
INVARIANTS MyJQLTypeOK GetAnswers RowsAlive NothingLeaked
SYMMETRY RidSymmetry
