CONSTANTS
    Bytes = {0, 1, 128, 255}
    Damaged = 2
    MaxLength = 4
    MaxDays = 146100
SPECIFICATION Spec
INVARIANTS CrcCorrect DamageDetected DateCorrect
CHECK_DEADLOCK FALSE
