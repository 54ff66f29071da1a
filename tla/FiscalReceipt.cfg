SPECIFICATION Spec
CONSTANTS
    Workers = {w1, w2}
    Keys = {k1, k2}
INVARIANT TypeOK
PROPERTIES
    OneReceiptSpec
    ShownStays
    AskingRegisters
