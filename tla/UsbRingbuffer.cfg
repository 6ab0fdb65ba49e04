CONSTANTS
    Size = 4
    Modulus = 8
    Byte = {a, b}
    Junk = junk
    MaxReq = 3
SPECIFICATION Spec
SYMMETRY ByteSymmetry
INVARIANTS TypeOK ClampStaysValid NoOverlap
PROPERTIES RefinesFifo
CHECK_DEADLOCK FALSE
