CONSTANTS
    c1 = c1
    c2 = c2
    c3 = c3
    n1 = n1
    n2 = n2
    Ctrs = {c1, c2, c3}
    Names = {n1, n2}
    Short <- MCShort
    None = None
SPECIFICATION Spec
SYMMETRY SameNameSymmetry
INVARIANTS StaysWired NameFreeAtRest BridgeHasOneMaker
