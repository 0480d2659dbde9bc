CONSTANTS
    Updates = {u1, u2, u3}
    Lens = {1, 2}
    First = 1
SPECIFICATION Spec
INVARIANTS UpdateKept ReadableAtRest
PROPERTY LostForGood
CHECK_DEADLOCK FALSE
